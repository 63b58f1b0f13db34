----------------------------- MODULE MCNamespace -----------------------------
(***************************************************************************)
(* CrashStates on traces of directory operations: creations, renames       *)
(* (within a directory, across directories, over a target, of a directory, *)
(* back again), removals and barriers on the directories involved.         *)
(***************************************************************************)
EXTENDS CrashStates

MCNames == {1, 2}

\* d = <<1>> holds one file; the other name is free.
MCInitialTrees == {(<<1>> :> DirEntry) @@ (<<1, 1>> :> FileEntry(<<7>>))}

At(op, path) == [op |-> op, path |-> path]
Mv(from, to) == [op |-> "rename", from |-> from, to |-> to]

MCOps ==
    {At("create", <<2>>), At("mkdir", <<2>>), At("create", <<1, 2>>),
     Mv(<<1, 1>>, <<2>>), Mv(<<2>>, <<1, 1>>), Mv(<<1, 1>>, <<1, 2>>),
     Mv(<<1>>, <<2, 1>>), Mv(<<1, 1>>, <<2, 1>>), Mv(<<2>>, <<1>>), Mv(<<1>>, <<1>>),
     Mv(<<1>>, <<1, 2>>),
     At("unlink", <<1, 1>>), At("rmdir", <<2>>),
     At("fsync", <<>>), At("fsync", <<1>>), At("fsync", <<2>>),
     [op |-> "sync"], [op |-> "mark"]}
=============================================================================
