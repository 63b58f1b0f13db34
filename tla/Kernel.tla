------------------------------- MODULE Kernel -------------------------------
(***************************************************************************)
(* The directory under test as the operating system keeps it: what a       *)
(* successful system call does to an image, and when it succeeds.  This is *)
(* the environment of record.rs, strace.rs and trace.rs, modelled as far   *)
(* as those files use it.  An open file keeps its inode when its name goes *)
(* away, so images are those of Fs.                                        *)
(***************************************************************************)
EXTENDS Fs

Empty(fs, ino) == \A n \in Names : fs[ino].entries[n] = NoIno

\* The entries that hold a node: at most one, and none of a deleted node.
Holders(fs, ino) ==
    {e \in (DOMAIN fs) \X Names : IsDir(fs, e[1]) /\ fs[e[1]].entries[e[2]] = ino}

\* The path of a node, or gone below a node that has none.
PathOf(fs, node, gone) ==
    LET path[ino \in DOMAIN fs] ==
            IF ino = Root THEN <<>>
            ELSE IF Holders(fs, ino) = {} THEN gone
            ELSE LET e == CHOOSE h \in Holders(fs, ino) : TRUE
                 IN  Append(path[e[1]], e[2])
    IN  path[node]

\* open with O_CREAT, and mkdir: a new node in an existing directory.
CanMake(fs, path) ==
    path # <<>> /\ Lookup(fs, path) = NoIno /\ IsDir(fs, Lookup(fs, Parent(path)))
Made(fs, path, node) ==
    SetEntry(Append(fs, node), Lookup(fs, Parent(path)), BaseName(path), Len(fs) + 1)

CanUnlink(fs, path) == path # <<>> /\ IsFile(fs, Lookup(fs, path))
CanRmdir(fs, path) ==
    LET ino == Lookup(fs, path) IN path # <<>> /\ IsDir(fs, ino) /\ Empty(fs, ino)
Removed(fs, path) == SetEntry(fs, Lookup(fs, Parent(path)), BaseName(path), NoIno)

\* rename: a file over a file, a directory over an empty one, never below itself.
CanMove(fs, from, to) ==
    LET a == Lookup(fs, from)
        b == Lookup(fs, to)
    IN  /\ from # <<>> /\ to # <<>> /\ a # NoIno
        /\ IsDir(fs, Lookup(fs, Parent(to)))
        /\ ~Inside(from, to)
        /\ \/ b \in {NoIno, a}
           \/ IsFile(fs, a) /\ IsFile(fs, b)
           \/ IsDir(fs, a) /\ IsDir(fs, b) /\ Empty(fs, b)
Moved(fs, from, to) ==
    LET a == Lookup(fs, from)
    IN  IF Lookup(fs, to) = a THEN fs
        ELSE SetEntry(SetEntry(fs, Lookup(fs, Parent(from)), BaseName(from), NoIno),
                      Lookup(fs, Parent(to)), BaseName(to), a)

\* write at an offset, and truncate, on an open file.
Wrote(fs, ino, offset, data) ==
    LET buf == Splice(fs[ino].buf, offset, data)
    IN  IF data = <<>> THEN fs ELSE [fs EXCEPT ![ino] = File(buf, Len(buf))]
Sized(fs, ino, len) == [fs EXCEPT ![ino] = File(Resize(fs[ino].buf, len), len)]
=============================================================================
