----------------------------- MODULE InitScripts -----------------------------
(***************************************************************************)
(* main_initat (main.c): the init.d directory is walked before the        *)
(* servers start.  A directory is read with scandirat(..., alphasort) and *)
(* its entries visited with while (n--), names starting with '.' skipped; *)
(* an executable file is started with main_exec (fork, then exec in the   *)
(* child).  The result of the walk is the sequence of script paths in the *)
(* order they are started.                                                 *)
(*                                                                         *)
(* A node of the tree is [kind |-> "exec"] (executable), [kind |-> "file"]*)
(* or [kind |-> "dir", ents |-> name -> node].                            *)
(***************************************************************************)
EXTENDS Naturals, Sequences, SequencesExt, FiniteSets

CONSTANTS
    NameOrder,   \* every entry name, in alphasort (strcoll) order
    DotNames     \* the names starting with '.', "." and ".." included

Names == Range(NameOrder)

VARIABLE root    \* the init.d directory

Leaves == {[kind |-> "exec"], [kind |-> "file"]}
Dirs(S) == {[kind |-> "dir", ents |-> e] : e \in UNION {[D -> S] : D \in SUBSET Names}}
\* Trees of depth two: init.d, its entries and theirs.
Trees == Dirs(Leaves \cup Dirs(Leaves))

\* scandirat with alphasort: the names of the directory, sorted; "." and
\* ".." are listed too and sort first.
ScanDir(dir) == <<".", "..">> \o SelectSeq(NameOrder, LAMBDA n : n \in DOMAIN dir.ents)

\* main_exec: the script at path is started.
main_exec(path) == <<path>>

RECURSIVE main_initat(_, _), InitEntries(_, _, _)

\* The loop body over the names left: hidden names skipped, the others
\* walked with main_initat at path/name.
InitEntries(dir, path, names) ==
    IF names = <<>> THEN <<>>
    ELSE LET n == Head(names)
         IN  (IF n \in DotNames THEN <<>> ELSE main_initat(dir.ents[n], Append(path, n)))
             \o InitEntries(dir, path, Tail(names))

\* main_initat: a directory's sorted entries are taken from the last one
\* (while (n--)); an executable file is run; anything else is skipped.
main_initat(node, path) ==
    CASE node.kind = "dir" -> InitEntries(node, path, Reverse(ScanDir(node)))
      [] node.kind = "exec" -> main_exec(path)
      [] OTHER -> <<>>

-----------------------------------------------------------------------------
(* Reference definitions: the scripts a walk should start, and the usual *)
(* rc order: depth first, ascending names.                                 *)
RECURSIVE Reachable(_, _)
Reachable(node, path) ==
    CASE node.kind = "dir" ->
            UNION {Reachable(node.ents[n], Append(path, n)) :
                   n \in DOMAIN node.ents \ DotNames}
      [] node.kind = "exec" -> {path}
      [] OTHER -> {}

RECURSIVE Ascending(_, _), AscEntries(_, _, _)
AscEntries(dir, path, names) ==
    IF names = <<>> THEN <<>>
    ELSE (IF Head(names) \in DotNames THEN <<>>
          ELSE Ascending(dir.ents[Head(names)], Append(path, Head(names))))
         \o AscEntries(dir, path, Tail(names))
Ascending(node, path) ==
    CASE node.kind = "dir" -> AscEntries(node, path, ScanDir(node))
      [] node.kind = "exec" -> <<path>>
      [] OTHER -> <<>>

Started == main_initat(root, <<>>)

IInit == root \in Trees
\* The tree does not change while it is walked.
INext == UNCHANGED root

ISpec == IInit /\ [][INext]_root

-----------------------------------------------------------------------------
(* main_initat starts every executable of init.d reached through visible *)
(* names, and each exactly once.                                           *)
EveryScriptOnce == Range(Started) = Reachable(root, <<>>) /\ IsInjective(Started)

(* The scripts start in ascending name order, depth first, as the         *)
(* alphasort of the scandirat call asks for (S10 before S20).              *)
ScriptsInOrder == Started = Ascending(root, <<>>)
=============================================================================
