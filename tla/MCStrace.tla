------------------------------ MODULE MCStrace ------------------------------
(***************************************************************************)
(* Two tasks on a directory with a file and a subdirectory.  The programs  *)
(* are about descriptors (dup, fork, threads, offsets), about names        *)
(* (renames, working directories, descriptors that outlive names) and      *)
(* about barriers.                                                         *)
(***************************************************************************)
EXTENDS Strace

MCNames == {1, 2, 3}
MCInitialTrees == {(<<1>> :> FileEntry(<<7>>)) @@ (<<2>> :> DirEntry)}

F == <<1>>          \* the file
G == <<2, 1>>       \* a file that is created

Abs(path) == [rel |-> FALSE, path |-> path]
Rel(path) == [rel |-> TRUE, path |-> path]
On(name, arg) == [name |-> name, path |-> arg]
Open(path, flags) == [name |-> "open", path |-> Abs(path), flags |-> flags]
Fd(name, fd) == [name |-> name, fd |-> fd]
Put(fd, data) == [name |-> "write", fd |-> fd, data |-> data]
PutAt(fd, offset) == [name |-> "pwrite", fd |-> fd, offset |-> offset, data |-> <<5>>]
Get(fd) == [name |-> "read", fd |-> fd, count |-> 2]
Seek(fd, pos) == [name |-> "lseek", fd |-> fd, pos |-> pos]
Dup(fd, to) == [name |-> "dup", fd |-> fd, to |-> to]
Cut(fd, len) == [name |-> "ftruncate", fd |-> fd, len |-> len]
Mv(from, to) == [name |-> "rename", from |-> from, to |-> to]
Fork == [name |-> "clone", child |-> 2, shared |-> FALSE]
Thread == [name |-> "clone", child |-> 2, shared |-> TRUE]

Opens == {Open(F, {}), Open(F, {"append"}), Open(F, {"trunc"}), Open(G, {"creat"})}

FdWork(fd) == {Put(fd, <<6>>), Get(fd), Seek(fd, 2), Cut(fd, 0), Fd("close", fd), Dup(fd, 0)}

\* Descriptors: what is opened before and after the clone, duplicated, closed,
\* and written and moved by both.
Sharing ==
    <<<<Opens, FdWork(3) \cup {Dup(3, 1), Put(3, <<3, 4>>)}, {Fork, Thread},
       FdWork(3) \cup {Put(4, <<6>>), Open(F, {"append"})}, {Put(3, <<9>>), Put(1, <<9>>)}>>,
      <<{Fd("close", 3), Open(F, {"creat", "append"}), Dup(3, 4), [name |-> "execve", closes |-> {3}],
         Put(3, <<5>>)},
        {Put(3, <<8>>), Put(4, <<8>>), Put(1, <<8>>), Dup(1, 3), Open(F, {})}, {Put(3, <<2>>), Get(4)}>>>>

\* Names: a descriptor and a working directory, and renames around them.
Naming ==
    <<<<{Open(F, {"append"}), On("chdir", Abs(<<2>>)), On("mkdir", Abs(<<3>>)), Open(G, {"creat"})},
       {Fork, On("rmdir", Abs(<<2>>)), On("mkdir", Rel(<<3>>)), Open(F, {"trunc"})},
       {Mv(Abs(F), Abs(G)), Mv(Abs(<<2>>), Abs(<<3>>)), Mv(Abs(F), Rel(<<2>>)), Mv(Abs(F), Abs(<<0, 1>>))},
       {Mv(Abs(G), Abs(F)), Mv(Abs(<<2>>), Abs(<<0, 1>>)), Mv(Abs(<<3>>), Abs(<<2>>)), On("unlink", Rel(<<1>>)),
        Mv(Abs(<<3, 1>>), Abs(F))},
       {Open(F, {"creat"}), Put(3, <<6>>), On("truncate", Abs(G)) @@ [len |-> 2]}, {Put(3, <<4>>)}>>,
      <<{Open(G, {"creat", "append"}), On("unlink", Abs(F)), Mv(Abs(<<0, 1>>), Abs(<<3>>)), On("chdir", Abs(<<2>>))},
        {Put(3, <<8>>), Put(4, <<8>>), On("truncate", Abs(F)) @@ [len |-> 0], On("unlink", Rel(<<1>>)),
         Open(F, {"creat"})}>>>>

\* Barriers: of a file and of everything, real and not, around writes.
Syncing ==
    <<<<{Open(F, {}), Open(G, {"creat", "trunc"})}, {Put(3, <<3>>), PutAt(3, 1)},
       {Fd("fsync", 3), Fd("sync_file_range", 3), [name |-> "sync"], Fork},
       {Fd("fallocate", 3) @@ [len |-> 2], Mv(Abs(F), Abs(G)), Put(3, <<4>>), Thread},
       {Fd("fsync", 3), Put(1, <<1>>)}>>,
      <<{Put(3, <<8>>), PutAt(3, 0), Open(<<2>>, {})}, {Fd("fsync", 3), Fd("fsync", 4), [name |-> "sync"]}>>>>

MCPrograms == {Sharing, Naming, Syncing}

\* A child that writes through a descriptor of its parent at once.
MCForking == {<<<<{Open(F, {})}, {Fork}>>, <<{Put(3, <<8>>)}>>>>}
=============================================================================
