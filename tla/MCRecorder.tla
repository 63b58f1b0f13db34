----------------------------- MODULE MCRecorder -----------------------------
(***************************************************************************)
(* Two threads share a Recorder on a directory with one file in a          *)
(* subdirectory.  Among the calls are some that fail after they logged.    *)
(***************************************************************************)
EXTENDS Recorder

MCNames == {1, 2}
MCInitialTrees == {(<<1>> :> DirEntry) @@ (<<1, 1>> :> FileEntry(<<7>>))}

On(name, path) == [name |-> name, path |-> path]
Mv(from, to) == [name |-> "rename", from |-> from, to |-> to]

MCCalls ==
    {On("create", <<2>>), On("create", <<1, 1>>), On("create", <<1>>),
     On("append", <<1, 1>>), On("open", <<1, 1>>),
     [name |-> "write", data |-> <<8>>],
     [name |-> "set_len", len |-> 2], [name |-> "sync"],
     [name |-> "seek", pos |-> 2],
     Mv(<<2>>, <<1, 1>>), Mv(<<1, 1>>, <<2>>), On("remove_file", <<2>>),
     On("create_dir", <<1, 2>>), On("remove_dir", <<1, 2>>),
     On("sync_dir", <<1>>), [name |-> "mark"]}

\* The threads are alike.
MCSymmetry == Permutations(Threads)
=============================================================================
