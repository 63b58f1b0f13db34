------------------------------ MODULE MCWorker ------------------------------
(***************************************************************************)
(* Every tree over four paths, three levels deep, with a second content    *)
(* for one of them: each path can be absent, a file, or a directory with   *)
(* or without entries, before and after.                                   *)
(***************************************************************************)
EXTENDS Worker

MCPaths == {<<1>>, <<1, 1>>, <<1, 2>>, <<1, 1, 1>>}
MCEntries(p) ==
    {DirEntry, FileEntry(<<7>>)} \cup (IF p = <<1, 1>> THEN {FileEntry(<<8>>)} ELSE {})
TreesOver(paths) ==
    {t \in UNION {[P -> {DirEntry, FileEntry(<<7>>), FileEntry(<<8>>)}] : P \in SUBSET paths} :
        WellFormed(t) /\ \A p \in DOMAIN t : t[p] \in MCEntries(p)}
MCTrees == TreesOver(MCPaths)

\* A few, for processes that outlive their command.
MCFewTrees == TreesOver({<<1>>, <<1, 1>>})
=============================================================================
