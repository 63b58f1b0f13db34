------------------------------- MODULE MCData -------------------------------
(***************************************************************************)
(* CrashStates on traces of file operations: writes that extend,           *)
(* overwrite, span two blocks or leave a hole, truncations both ways, and  *)
(* the replace-via-rename idiom, with and without its barriers.            *)
(***************************************************************************)
EXTENDS CrashStates

MCNames == {1, 2}

MCInitialTrees == {<<1>> :> FileEntry(<<7>>)}

At(op, path) == [op |-> op, path |-> path]
Put(path, offset, data) == [op |-> "write", path |-> path, offset |-> offset, data |-> data]
Cut(path, len) == [op |-> "truncate", path |-> path, len |-> len]
Mv(from, to) == [op |-> "rename", from |-> from, to |-> to]

MCOps ==
    {At("create", <<2>>), Put(<<1>>, 0, <<3, 4, 5>>),
     Put(<<2>>, 0, <<8, 9>>), Cut(<<1>>, 0), Cut(<<1>>, 2), Cut(<<2>>, 1),
     Put(<<1>>, 0, <<8>>), Mv(<<2>>, <<1>>), Mv(<<1>>, <<2>>), At("unlink", <<1>>),
     At("fsync", <<1>>), At("fsync", <<2>>), At("fsync", <<>>), [op |-> "mark"]}
=============================================================================
