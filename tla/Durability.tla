----------------------------- MODULE Durability -----------------------------
(***************************************************************************)
(* What compiling promises about barriers: micro-ops are only ever issued, *)
(* a micro-op is durable from the first barrier that covers it and stays   *)
(* durable, and a barrier covers nothing else.  This is the abstract       *)
(* specification Compile is shown to implement; it knows nothing of        *)
(* pending lists, of ops or of the directory.                              *)
(***************************************************************************)
EXTENDS Naturals, Sequences

VARIABLES
    profile,    \* "posix" or "ext4"
    issued,     \* the micro-ops, in program order
    durable     \* the indices of those that a barrier has covered

vars == <<profile, issued, durable>>

\* The inode an fsync has to name to cover a micro-op: the file for data and
\* size, the directory for an entry change, the target directory for a rename.
Target(m) ==
    IF m.kind \in {"Write", "SetLen"} THEN m.ino
    ELSE IF m.kind = "Rename" THEN m.to ELSE m.parent

Covered(ino) == {j \in DOMAIN issued : Target(issued[j]) = ino}

\* With one journal, any fsync commits all the metadata issued so far.
Journal == {j \in DOMAIN issued : profile = "ext4" /\ issued[j].kind # "Write"}

Init == issued = <<>> /\ durable = {}

Issue ==
    /\ issued' = issued \o SubSeq(issued', Len(issued) + 1, Len(issued'))
    /\ UNCHANGED <<profile, durable>>

Barrier(covered) ==
    /\ durable' = durable \cup covered \cup Journal
    /\ UNCHANGED <<profile, issued>>

Fsync(ino) == Barrier(Covered(ino))

SyncAll == durable' = DOMAIN issued /\ UNCHANGED <<profile, issued>>

Next ==
    \/ Issue
    \/ Barrier({})          \* nothing was ever done to the inode
    \/ \E j \in DOMAIN issued : Fsync(Target(issued[j]))
    \/ SyncAll

Spec == Init /\ [][Next]_vars
=============================================================================
