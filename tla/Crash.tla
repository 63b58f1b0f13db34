-------------------------------- MODULE Crash --------------------------------
(***************************************************************************)
(* The crash states of a compiled program (crash.rs, impl Program).        *)
(*                                                                         *)
(* A program p is the record Compile's Program builds.  The code's bit     *)
(* vector "persisted", of length op_end[point], is here the set of the     *)
(* (1-based) micro-op indices whose bit is set; a point is the number of   *)
(* ops that had completed when the power went out, from 0 to the number of *)
(* ops of the trace.                                                       *)
(***************************************************************************)
EXTENDS Fs

CONSTANT WordBits   \* width of the mask the exhaustive search counts with

ASSUME WordAssumption == WordBits \in Nat \ {0}

\* The micro-ops of the first point ops, and the crash points of a program.
Before(p, point) == 1..p.op_end[point + 1]
Points(p) == 0..(Len(p.op_end) - 1)

InFlight(p, point) == {j \in Before(p, point) : p.micro[j].durable_at >= point}
Durable(p, point) == {j \in Before(p, point) : p.micro[j].durable_at < point}

-----------------------------------------------------------------------------
(* close: the legal states *)

\* Faulty variant: any persisted metadata takes all metadata with it.
EarlierMetaAll(p, point, s) ==
    {j \in Before(p, point) : IsMeta(p.micro[j].m) /\ \E k \in s : IsMeta(p.micro[k].m)}

\* Journaled metadata commits in order: all metadata before a persisted one.
EarlierMeta(p, point, s) ==
    {j \in Before(p, point) : /\ IsMeta(p.micro[j].m)
                              /\ \E k \in s : j < k /\ IsMeta(p.micro[k].m)}

\* Faulty variants: no data=ordered, no auto_da_alloc.
OrdersDataOfRename(m) == m.kind = "Rename" /\ m.replaces
OrdersDataOfSize(m) == m.kind = "SetLen" /\ m.keep_tail

\* The micro-ops that commit only after the earlier data of their inode: a
\* size extension by a write (data=ordered), a rename that replaces its
\* target (auto_da_alloc).
OrdersData(m) ==
    \/ m.kind = "SetLen" /\ m.keep_tail
    \/ m.kind = "Rename" /\ m.replaces

OrderedData(p, point, s) ==
    {j \in Before(p, point) :
        /\ p.micro[j].m.kind = "Write"
        /\ \E k \in s : /\ j < k
                        /\ OrdersData(p.micro[k].m)
                        /\ p.micro[k].m.ino = p.micro[j].m.ino}

Close(p, point, s) ==
    LET kept == s \cup Durable(p, point)
        meta == kept \cup EarlierMeta(p, point, kept)
    IN  IF p.profile # "ext4" THEN kept ELSE meta \cup OrderedData(p, point, meta)

\* What close promises: s holds everything durable and, on ext4, a prefix of
\* the metadata, and no size extension or replacing rename without the
\* earlier writes of its inode.
Legal(p, point, s) ==
    LET m(j) == p.micro[j].m
    IN  /\ Durable(p, point) \subseteq s
        /\ s \subseteq Before(p, point)
        /\ p.profile = "ext4" =>
             \A k \in s, j \in Before(p, point) :
                 j < k =>
                 /\ (IsMeta(m(j)) /\ IsMeta(m(k))) => j \in s
                 /\ (m(k).kind = "SetLen" /\ m(k).keep_tail /\ m(j).kind = "Write"
                       /\ m(j).ino = m(k).ino) => j \in s
                 /\ (m(k).kind = "Rename" /\ m(k).replaces /\ m(j).kind = "Write"
                       /\ m(j).ino = m(k).ino) => j \in s

\* materialize: the directory a crash state leaves behind.
CrashFs(p, s) ==
    ApplyAll(p.base, [j \in DOMAIN p.micro |-> p.micro[j].m], s)
Materialize(p, s) == ToTree(CrashFs(p, s))

-----------------------------------------------------------------------------
(* candidates: the sets that are tried, in the order they are tried *)

Flight(p, point) == Sorted(InFlight(p, point), <)

\* The bit of the mask that position pos of the flight reads: a shift amount
\* is taken modulo the word, and so is the number of masks.
Bit(mask, pos) == (mask \div 2^(pos % WordBits)) % 2

\* Faulty variant: the last mask, which loses nothing, is not tried.
MasksButLast(m) == 2^(m % WordBits) - 1

Masks(m) == 2^(m % WordBits)

Exhaustive(p, point) ==
    LET flight == Flight(p, point)
    IN  [k \in 1..Masks(Len(flight)) |->
            Durable(p, point) \cup
            {flight[pos] : pos \in {q \in 1..Len(flight) : Bit(k - 1, q - 1) = 1}}]

\* Faulty variant: no cuts of the program order.
LoseOne(p, point) ==
    LET flight == Flight(p, point)
        all    == InFlight(p, point)
        base   == Durable(p, point)
    IN  <<base \cup all, base>> \o [k \in DOMAIN flight |-> base \cup (all \ {flight[k]})]

\* All, none, then for each position: lose exactly that one; keep what is before it.
LoseOneOrCut(p, point) ==
    LET flight == Flight(p, point)
        all    == InFlight(p, point)
        base   == Durable(p, point)
    IN  <<base \cup all, base>> \o
        [k \in 1..(2 * Len(flight)) |->
            LET at == flight[(k + 1) \div 2]
            IN  base \cup (IF k % 2 = 1 THEN all \ {at} ELSE {j \in all : j < at})]

\* Lose one whole op, for each op with something in flight.
LoseOneOp(p, point) ==
    LET all == InFlight(p, point)
        ops == Sorted({p.micro[j].op : j \in all}, <)
    IN  [k \in 1..Len(ops) |->
            Durable(p, point) \cup {j \in all : p.micro[j].op # ops[k]}]

\* The random subsets drawn beyond the limit are the argument sampled: a
\* sequence of subsets of what is in flight.
Candidates(p, point, exhaustiveLimit, sampled) ==
    IF Cardinality(InFlight(p, point)) <= exhaustiveLimit
    THEN Exhaustive(p, point)
    ELSE LoseOneOrCut(p, point) \o LoseOneOp(p, point) \o
         [k \in 1..Len(sampled) |-> Durable(p, point) \cup sampled[k]]
=============================================================================
