------------------------------ MODULE MCEngine ------------------------------
(***************************************************************************)
(* The checking loop on short traces, with every checker: a torn append,   *)
(* an update in place with an acknowledgement, a replace-via-rename, a     *)
(* move to another directory, an entry made durable too late, and a trace  *)
(* that does not compile.                                                  *)
(***************************************************************************)
EXTENDS Engine

MCNames == {1, 2, 3}
MCInitialTrees == {<<1>> :> FileEntry(<<7>>)}

At(op, path) == [op |-> op, path |-> path]
Put(path, offset, data) == [op |-> "write", path |-> path, offset |-> offset, data |-> data]
Cut(path, len) == [op |-> "truncate", path |-> path, len |-> len]
Mv(from, to) == [op |-> "rename", from |-> from, to |-> to]
Ack == [op |-> "mark"]

MCTraces ==
    {<<Put(<<1>>, 0, <<3, 4>>), Ack>>,
     <<Put(<<1>>, 0, <<3>>), Ack, At("fsync", <<1>>)>>,
     <<Put(<<1>>, 0, <<3>>), At("create", <<2>>), Ack>>,
     <<Cut(<<1>>, 0), Mv(<<1>>, <<2>>), At("fsync", <<>>)>>,
     <<At("mkdir", <<2>>), Mv(<<1>>, <<2, 1>>), Ack>>,
     <<At("create", <<2>>), Put(<<2>>, 0, <<3>>), Mv(<<2>>, <<1>>)>>,
     <<At("unlink", <<1>>), At("fsync", <<1>>)>>}

MCOps == UNION {Range(t) : t \in MCTraces}
=============================================================================
