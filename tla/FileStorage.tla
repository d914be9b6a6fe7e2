----------------------------- MODULE FileStorage -----------------------------
(***************************************************************************)
(* mod_filestorage.c: filestorage_connector, called by the server for a  *)
(* request whose path the static-file module resolved (path_info), again *)
(* and again while it returns EINCOMPLETE.  PUT opens the file in the     *)
(* first call, writes one received chunk per call, and closes when no     *)
(* more content comes; a PUT of a name ending in '/' makes a directory.  *)
(* POST only reports; DELETE unlinks.  The document root is modelled as   *)
(* directory entries pointing at inodes, so that a file unlinked while a *)
(* PUT holds it open keeps receiving the writes, as on POSIX.             *)
(*                                                                         *)
(* Every operation takes the effective uid of the serving process as an  *)
(* argument: files are created with it and opened for writing only by    *)
(* their owner or root (mode 0644).                                        *)
(***************************************************************************)
EXTENDS Integers, Sequences, FiniteSets, TLC

CONSTANTS
    Conns,
    Methods,          \* request methods clients use
    Names,            \* path_info values
    DotNames,         \* those starting with '.'
    DirNames,         \* those ending with '/'
    Data,             \* content of one received chunk
    Bodies,           \* request bodies: sequences of chunks
    InitFiles,        \* name -> [data, owner]: files in docroot at start
    MaxInodes,        \* bound on inodes in existence
    RestIncludesChunk,\* httpmessage_content's rest counts the chunk returned
    NoReq, NoPath

VARIABLES
    fsreq,      \* the request each connection is serving
    fsstage,    \* "idle", "call" (connector to be called), "done", "next"
    path_info,  \* private->path_info (NoPath once freed)
    fd,         \* private->fd: 0 or the inode it has open
    sent,       \* chunks of the body httpmessage_content has returned
    off,        \* file offset of fd
    dirent,     \* docroot: file name -> inode
    dirs,       \* docroot: directories made by PUT
    inode,      \* inode -> [data, owner]
    fsres,      \* result the connector reported: "none", "OK", "KO", "forbidden"
    effect      \* history: whether the operation took effect in docroot

fsvars == <<fsreq, fsstage, path_info, fd, sent, off, dirent, dirs, inode,
            fsres, effect>>

Inodes == 1..MaxInodes
FileNames == Names \ (DotNames \cup DirNames)

\* Inodes named by an entry or held open by a connection.
Live(ents, fds) == {ents[n] : n \in DOMAIN ents} \cup ({fds[c] : c \in Conns} \ {0})

\* Drop the inodes nobody reaches any more.
Collect(ino, ents, fds) == [i \in DOMAIN ino \cap Live(ents, fds) |-> ino[i]]

FreeInode == CHOOSE i \in Inodes : i \notin DOMAIN inode

\* Write permission of mode 0644 for effective uid euid.
CanWrite(euid, i) == euid = 0 \/ inode[i].owner = euid

\* Writing one chunk at offset o (no O_APPEND, no O_TRUNC).
WriteAt(d, o, ch) == IF o < Len(d) THEN [d EXCEPT ![o + 1] = ch] ELSE Append(d, ch)

\* httpmessage_content: the next chunk of the body, and the rest.
InputLen(c) == IF sent[c] < Len(fsreq[c].body) THEN 1 ELSE 0
Rest(c) == IF RestIncludesChunk THEN Len(fsreq[c].body) - sent[c]
           ELSE Len(fsreq[c].body) - sent[c] - 1

-----------------------------------------------------------------------------
FsInit ==
    /\ fsreq = [c \in Conns |-> NoReq]
    /\ fsstage = [c \in Conns |-> "idle"]
    /\ path_info = [c \in Conns |-> NoPath]
    /\ fd = [c \in Conns |-> 0]
    /\ sent = [c \in Conns |-> 0]
    /\ off = [c \in Conns |-> 0]
    /\ LET ids == CHOOSE f \in [DOMAIN InitFiles -> Inodes] :
                      \A m, n \in DOMAIN InitFiles : m # n => f[m] # f[n]
       IN /\ dirent = ids
          /\ inode = [i \in {ids[n] : n \in DOMAIN InitFiles} |->
                        InitFiles[CHOOSE n \in DOMAIN InitFiles : ids[n] = i]]
    /\ dirs = {}
    /\ fsres = [c \in Conns |-> "none"]
    /\ effect = [c \in Conns |-> FALSE]

\* A request reaches the connector; the static-file module set path_info,
\* or left it NULL for a uri it does not resolve.
FsArrive(c) ==
    /\ fsstage[c] = "idle"
    /\ \E m \in Methods, n \in Names \cup {NoPath}, b \in Bodies :
          /\ fsreq' = [fsreq EXCEPT ![c] = [method |-> m, name |-> n, body |-> b]]
          /\ path_info' = [path_info EXCEPT ![c] = n]
    /\ fsstage' = [fsstage EXCEPT ![c] = "call"]
    /\ UNCHANGED <<fd, sent, off, dirent, dirs, inode, fsres, effect>>

\* The response is sent and the request's buffers freed; the next request
\* may come.
FsReply(c) ==
    /\ fsstage[c] \in {"done", "next"}
    /\ fsstage' = [fsstage EXCEPT ![c] = "idle"]
    /\ fsreq' = [fsreq EXCEPT ![c] = NoReq]
    /\ path_info' = [path_info EXCEPT ![c] = NoPath]
    /\ sent' = [sent EXCEPT ![c] = 0]
    /\ fsres' = [fsres EXCEPT ![c] = "none"]
    /\ effect' = [effect EXCEPT ![c] = FALSE]
    /\ UNCHANGED <<fd, off, dirent, dirs, inode>>

\* The connector ends the request with the result it reports.
Finish(c, res) ==
    /\ fsstage' = [fsstage EXCEPT ![c] = "done"]
    /\ fsres' = [fsres EXCEPT ![c] = res]
    /\ path_info' = [path_info EXCEPT ![c] = NoPath]

\* path_info NULL, or a method / fd combination no branch takes: EREJECT.
fs_reject(c) ==
    /\ fsstage[c] = "call"
    /\ \/ path_info[c] = NoPath
       \/ fsreq[c].method \notin {"PUT", "POST", "DELETE"}
       \/ fsreq[c].method \in {"POST", "DELETE"} /\ fd[c] # 0
    /\ fsstage' = [fsstage EXCEPT ![c] = "next"]
    /\ UNCHANGED <<fsreq, path_info, fd, sent, off, dirent, dirs, inode, fsres, effect>>

\* filestorage_checkname refuses a name starting with '.': 403.
filestorage_checkname(c) ==
    /\ fsstage[c] = "call"
    /\ path_info[c] \in DotNames
    /\ fsreq[c].method \in {"PUT", "POST", "DELETE"}
    /\ fsreq[c].method \in {"POST", "DELETE"} => fd[c] = 0
    /\ Finish(c, "forbidden")
    /\ UNCHANGED <<fsreq, fd, sent, off, dirent, dirs, inode, effect>>
\* PUT of a name ending in '/': mkdir.  The result test "mkdir(...) > 0"
\* never holds (mkdir returns 0 or -1), so the reply is OK either way.
filestorage_mkdir(c, euid) ==
    /\ fsstage[c] = "call"
    /\ fsreq[c].method = "PUT"
    /\ path_info[c] \in DirNames \ DotNames
    /\ fd[c] = 0
    /\ dirs' = dirs \cup {path_info[c]}
    /\ effect' = [effect EXCEPT ![c] = path_info[c] \notin dirs]
    /\ Finish(c, "OK")
    /\ UNCHANGED <<fsreq, fd, sent, off, dirent, inode>>

\* PUT of a file name: open(O_WRONLY | O_CREAT, 0644).  The file is
\* created with the caller's euid, or an existing one opened when the euid
\* may write it; the offset starts at 0 and the old content stays.
filestorage_open(c, euid) ==
    /\ fsstage[c] = "call"
    /\ fsreq[c].method = "PUT"
    /\ path_info[c] \in FileNames
    /\ fd[c] = 0
    /\ LET n == path_info[c] IN
       \/ /\ n \in DOMAIN dirent
          /\ CanWrite(euid, dirent[n])
          /\ fd' = [fd EXCEPT ![c] = dirent[n]]
          /\ UNCHANGED <<dirent, inode>>
       \/ /\ n \notin DOMAIN dirent
          /\ DOMAIN inode # Inodes
          /\ fd' = [fd EXCEPT ![c] = FreeInode]
          /\ dirent' = dirent @@ (n :> FreeInode)
          /\ inode' = inode @@ (FreeInode :> [data |-> <<>>, owner |-> euid])
    /\ off' = [off EXCEPT ![c] = 0]
    /\ effect' = [effect EXCEPT ![c] = TRUE]
    /\ UNCHANGED <<fsreq, fsstage, path_info, sent, dirs, fsres>>

\* Mutant: the failure branch without "private->fd = 0" keeps open's -1.
filestorage_open_failed_nofdreset(c, euid) ==
    /\ fsstage[c] = "call"
    /\ fsreq[c].method = "PUT"
    /\ path_info[c] \in FileNames
    /\ fd[c] = 0
    /\ LET n == path_info[c] IN
          IF n \in DOMAIN dirent THEN ~CanWrite(euid, dirent[n])
          ELSE DOMAIN inode = Inodes
    /\ fd' = [fd EXCEPT ![c] = -1]
    /\ Finish(c, "KO")
    /\ UNCHANGED <<fsreq, sent, off, dirent, dirs, inode, effect>>

\* open() fails (the file belongs to another uid, or no inode is left):
\* 403 and the fd is reset to 0.
filestorage_open_failed(c, euid) ==
    /\ fsstage[c] = "call"
    /\ fsreq[c].method = "PUT"
    /\ path_info[c] \in FileNames
    /\ fd[c] = 0
    /\ LET n == path_info[c] IN
          IF n \in DOMAIN dirent THEN ~CanWrite(euid, dirent[n])
          ELSE DOMAIN inode = Inodes
    /\ Finish(c, "KO")
    /\ UNCHANGED <<fsreq, fd, sent, off, dirent, dirs, inode, effect>>

\* Mutant: the chunk is written but not consumed from the request.
filestorage_write_stalled(c, euid) ==
    /\ fsstage[c] = "call"
    /\ fsreq[c].method = "PUT"
    /\ path_info[c] \notin DotNames
    /\ fd[c] # 0
    /\ InputLen(c) > 0 /\ Rest(c) > 0
    /\ inode' = [inode EXCEPT ![fd[c]].data =
                    WriteAt(@, off[c], fsreq[c].body[sent[c] + 1])]
    /\ UNCHANGED <<fsreq, fsstage, path_info, fd, sent, off, dirent, dirs, fsres, effect>>

\* PUT with the file open: httpmessage_content returns the next chunk; it
\* is written when inputlen > 0 and rest > 0 (write's result ignored).
filestorage_write(c, euid) ==
    /\ fsstage[c] = "call"
    /\ fsreq[c].method = "PUT"
    /\ path_info[c] \notin DotNames
    /\ fd[c] # 0
    /\ InputLen(c) > 0 /\ Rest(c) > 0
    /\ inode' = [inode EXCEPT ![fd[c]].data =
                    WriteAt(@, off[c], fsreq[c].body[sent[c] + 1])]
    /\ sent' = [sent EXCEPT ![c] = @ + 1]
    /\ off' = [off EXCEPT ![c] = @ + 1]
    /\ UNCHANGED <<fsreq, fsstage, path_info, fd, dirent, dirs, fsres, effect>>

\* Mutant: close() without "private->fd = 0".
filestorage_close_keepfd(c, euid) ==
    /\ fsstage[c] = "call"
    /\ fsreq[c].method = "PUT"
    /\ path_info[c] \notin DotNames
    /\ fd[c] # 0
    /\ ~(InputLen(c) > 0 /\ Rest(c) > 0)
    /\ off' = [off EXCEPT ![c] = 0]
    /\ sent' = [sent EXCEPT ![c] = IF InputLen(c) > 0 THEN @ + 1 ELSE @]
    /\ Finish(c, "OK")
    /\ UNCHANGED <<fsreq, fd, inode, dirent, dirs, effect>>

\* Otherwise (no more content, or rest = 0): close, fd = 0, reply OK.
\* An inode neither named nor open any more is released.
filestorage_close(c, euid) ==
    /\ fsstage[c] = "call"
    /\ fsreq[c].method = "PUT"
    /\ path_info[c] \notin DotNames
    /\ fd[c] # 0
    /\ ~(InputLen(c) > 0 /\ Rest(c) > 0)
    /\ fd' = [fd EXCEPT ![c] = 0]
    /\ off' = [off EXCEPT ![c] = 0]
    /\ inode' = Collect(inode, dirent, fd')
    /\ sent' = [sent EXCEPT ![c] = IF InputLen(c) > 0 THEN @ + 1 ELSE @]
    /\ Finish(c, "OK")
    /\ UNCHANGED <<fsreq, dirent, dirs, effect>>

\* POST: the change is only reported.
filestorage_post(c, euid) ==
    /\ fsstage[c] = "call"
    /\ fsreq[c].method = "POST"
    /\ path_info[c] \in Names \ DotNames
    /\ fd[c] = 0
    /\ Finish(c, "OK")
    /\ UNCHANGED <<fsreq, fd, sent, off, dirent, dirs, inode, effect>>

\* DELETE: unlink.  As for mkdir, "unlink(...) > 0" never holds and the
\* reply is OK whether or not the entry was removed.
filestorage_delete(c, euid) ==
    /\ fsstage[c] = "call"
    /\ fsreq[c].method = "DELETE"
    /\ path_info[c] \in Names \ DotNames
    /\ fd[c] = 0
    /\ LET n == path_info[c]
           gone == n \in DOMAIN dirent
           ents == [m \in DOMAIN dirent \ {n} |-> dirent[m]]
       IN /\ dirent' = ents
          /\ inode' = Collect(inode, ents, fd)
          /\ effect' = [effect EXCEPT ![c] = gone]
    /\ Finish(c, "OK")
    /\ UNCHANGED <<fsreq, fd, sent, off, dirs>>

\* One call of filestorage_connector by a process with effective uid euid.
filestorage_connector(c, euid) ==
    \/ fs_reject(c)
    \/ filestorage_checkname(c)
    \/ filestorage_mkdir(c, euid)
    \/ filestorage_open(c, euid)
    \/ filestorage_open_failed(c, euid)
    \/ filestorage_write(c, euid)
    \/ filestorage_close(c, euid)
    \/ filestorage_post(c, euid)
    \/ filestorage_delete(c, euid)

-----------------------------------------------------------------------------
(* The connector alone, served by a process of effective uid ServerEuid.  *)
CONSTANT ServerEuid

FsNext ==
    \E c \in Conns :
        \/ FsArrive(c)
        \/ filestorage_connector(c, ServerEuid)
        \/ FsReply(c)

FsFairness == \A c \in Conns : WF_fsvars(filestorage_connector(c, ServerEuid))

FsSpec == FsInit /\ [][FsNext]_fsvars /\ FsFairness
-----------------------------------------------------------------------------
InitData == UNION {{InitFiles[n].data[k] : k \in DOMAIN InitFiles[n].data} :
                   n \in DOMAIN InitFiles}

FsTypeOK ==
    /\ fsstage \in [Conns -> {"idle", "call", "done", "next"}]
    /\ \A c \in Conns : fsreq[c] = NoReq \/
          fsreq[c] \in [method : Methods, name : Names \cup {NoPath}, body : Bodies]
    /\ path_info \in [Conns -> Names \cup {NoPath}]
    /\ fd \in [Conns -> {0} \cup DOMAIN inode]
    /\ sent \in [Conns -> Nat] /\ off \in [Conns -> Nat]
    /\ DOMAIN dirent \subseteq FileNames /\ dirent \in [DOMAIN dirent -> DOMAIN inode]
    /\ dirs \subseteq DirNames
    /\ DOMAIN inode \subseteq Inodes
    /\ \A i \in DOMAIN inode : inode[i].data \in Seq(Data \cup InitData)
    /\ fsres \in [Conns -> {"none", "OK", "KO", "forbidden"}]

(* The descriptor a connection holds (private->fd) is the file its own   *)
(* request names, or a file no name reaches any more; never the file of  *)
(* another name.  It must hold however PUTs of two connections and a      *)
(* DELETE interleave: a PUT keeps writing into the file it opened while   *)
(* another connection unlinks that name and creates a new file under it, *)
(* and an inode number is reused only once no descriptor holds it.  The  *)
(* connector opens by path_info at the first call and resets fd on every *)
(* way a PUT ends, so the next request of the connection, whatever name  *)
(* it carries, never writes into the previous request's file.            *)
OpenFileIsNamed ==
    \A c \in Conns :
        fd[c] # 0 =>
            /\ fsreq[c] # NoReq
            /\ \A n \in DOMAIN dirent : dirent[n] = fd[c] => n = fsreq[c].name

(* A PUT whose reply is OK leaves the named file equal to the body sent:  *)
(* the chunks are written from offset 0 by filestorage_connector and the  *)
(* file is closed.  (Another connection writing the same file, or a       *)
(* DELETE in between, are excluded.)                                       *)
PutStoresBody ==
    \A c \in Conns :
        ( /\ fsstage[c] = "done" /\ fsres[c] = "OK"
          /\ fsreq[c].method = "PUT" /\ fsreq[c].name \in FileNames
          /\ fsreq[c].name \in DOMAIN dirent
          /\ \A d \in Conns \ {c} : fsstage[d] = "idle" )
        => inode[dirent[fsreq[c].name]].data = fsreq[c].body

(* A DELETE, or a PUT of a directory, answered OK took effect: the entry  *)
(* was removed, or the directory made.  The connector reports KO with a  *)
(* 403 when the system call fails.                                         *)
OkMeansEffect ==
    \A c \in Conns :
        ( /\ fsstage[c] = "done" /\ fsres[c] = "OK"
          /\ \/ fsreq[c].method = "DELETE"
             \/ fsreq[c].method = "PUT" /\ fsreq[c].name \in DirNames )
        => effect[c]

(* Every request the connector accepts is finished: it is called again   *)
(* after each EINCOMPLETE (weak fairness of the server's loop) and each   *)
(* call of a PUT consumes a chunk of the finite body, so the connector    *)
(* eventually returns ESUCCESS or EREJECT.                                 *)
UploadTerminates == \A c \in Conns : fsstage[c] = "call" ~> fsstage[c] # "call"
=============================================================================
