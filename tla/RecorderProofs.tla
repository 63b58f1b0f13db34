--------------------------- MODULE RecorderProofs ---------------------------
(***************************************************************************)
(* Proofs about recording in process: the log of a program that orders its *)
(* conflicting calls is what happened to the directory, whatever runs      *)
(* between doing a call and logging it, and what it says is durable was    *)
(* synced.                                                                 *)
(***************************************************************************)
EXTENDS CrashProofs, Recorder

-----------------------------------------------------------------------------
(* What a path shows, and what an op makes of it *)

Nothing == [kind |-> "nothing", data |-> <<>>]

\* What a reader finds at a path, the root included.
Sees(fs, q) == IF Lookup(fs, q) = NoIno THEN Nothing ELSE NodeEntry(fs[Lookup(fs, q)])

\* What is at q after op is done to fs.
Effect(op, fs, q) ==
    IF op.op \in {"create", "mkdir"} THEN
        IF q = op.path /\ Sees(fs, q) = Nothing
        THEN IF op.op = "mkdir" THEN DirEntry ELSE FileEntry(<<>>)
        ELSE Sees(fs, q)
    ELSE IF op.op = "write" THEN
        IF q = op.path THEN FileEntry(Written(Sees(fs, q).data, op.offset, op.data)) ELSE Sees(fs, q)
    ELSE IF op.op = "truncate" THEN
        IF q = op.path THEN FileEntry(Paths!Fit(Sees(fs, q).data, op.len)) ELSE Sees(fs, q)
    ELSE IF op.op = "rename" THEN
        IF op.from = op.to THEN Sees(fs, q)
        ELSE IF OnWay(op.to, q) THEN Sees(fs, Taken(q, op.to, op.from))
        ELSE IF OnWay(op.from, q) THEN Nothing
        ELSE Sees(fs, q)
    ELSE IF op.op \in {"unlink", "rmdir"} THEN
        IF OnWay(op.path, q) THEN Nothing ELSE Sees(fs, q)
    ELSE Sees(fs, q)

HasEffect(op, fs, x) == \A q \in Seq(Names) : Sees(x, q) = Effect(op, fs, q)

\* The paths at or below some of P.
Reach(P) == {q \in Seq(Names) : \E p \in P : OnWay(p, q)}

OpPaths(op) ==
    IF op.op = "rename" THEN {op.from, op.to}
    ELSE IF op.op \in {"sync", "mark"} THEN {} ELSE {op.path}

\* An op changes nothing but what is at or below its paths.
LEMMA EffectIsLocal ==
    ASSUME NEW op, DirectoryOp(op), NEW fs, NEW q \in Seq(Names), q \notin Reach(OpPaths(op))
    PROVE  Effect(op, fs, q) = Sees(fs, q)
<1>1. \A p \in OpPaths(op) : ~OnWay(p, q)
  BY DEF Reach
<1>2. CASE op.op = "rename"
  BY <1>1, <1>2 DEF OpPaths, Effect
<1>3. CASE op.op \in {"sync", "mark"}
  BY <1>3 DEF Effect
<1>4. CASE op.op \notin {"rename", "sync", "mark"}
  <2>1. op.path \in Seq(Names) /\ ~OnWay(op.path, q)
    BY <1>1, <1>4 DEF OpPaths, DirectoryOp
  <2>2. q # op.path
    BY <2>1, OnWayOrder
  <2> QED BY <1>4, <2>1, <2>2 DEF Effect
<1> QED BY <1>2, <1>3, <1>4

\* What it does there depends on what is there.
LEMMA EffectIsSame ==
    ASSUME NEW op, DirectoryOp(op), NEW fs, NEW gs,
           \A r \in Reach(OpPaths(op)) : Sees(fs, r) = Sees(gs, r),
           NEW q \in Seq(Names), Sees(fs, q) = Sees(gs, q)
    PROVE  Effect(op, fs, q) = Effect(op, gs, q)
<1>1. CASE op.op = "rename"
  <2>1. CASE OnWay(op.to, q)
    <3>1. op.from \in Seq(Names) /\ op.to \in Seq(Names) /\ op.from \in OpPaths(op)
      BY <1>1 DEF DirectoryOp, OpPaths
    <3>2. Taken(q, op.to, op.from) \in Seq(Names) /\ OnWay(op.from, Taken(q, op.to, op.from))
      BY <2>1, <3>1, TakenOf
    <3>3. Taken(q, op.to, op.from) \in Reach(OpPaths(op))
      BY <3>1, <3>2 DEF Reach
    <3> QED BY <1>1, <3>3 DEF Effect
  <2>2. CASE ~OnWay(op.to, q)
    BY <1>1, <2>2 DEF Effect
  <2> QED BY <2>1, <2>2
<1>2. CASE op.op # "rename"
  BY <1>2 DEF Effect
<1> QED BY <1>1, <1>2

\* Some entry, nothing, or the directory at the root.
LEMMA SeesIs ==
    ASSUME NEW fs, Treelike(fs), NEW q \in Seq(Names)
    PROVE  /\ Lookup(fs, q) \in 0..Len(fs) /\ Len(fs) \in Nat
           /\ Lookup(fs, q) = NoIno <=> Sees(fs, q) = Nothing
           /\ Lookup(fs, q) = NoIno <=> Sees(fs, q).kind = "nothing"
           /\ IsDir(fs, Lookup(fs, q)) <=> Sees(fs, q).kind = "dir"
           /\ IsDir(fs, Lookup(fs, q)) <=> Sees(fs, q) = DirEntry
           /\ IsFile(fs, Lookup(fs, q)) <=> Sees(fs, q).kind = "file"
           /\ IsFile(fs, Lookup(fs, q)) => Sees(fs, q) = FileEntry(Content(fs[Lookup(fs, q)]))
           /\ Sees(fs, q).kind \in {"nothing", "dir", "file"}
           /\ Sees(fs, <<>>) = DirEntry
<1>1. IsImage(fs) /\ Len(fs) # 0 /\ fs[Root].kind = "dir"
  BY DEF Treelike
<1>2. Lookup(fs, q) \in 0..Len(fs) /\ Len(fs) \in Nat
  BY <1>1, LookupIn, ImageShape
<1>3. Lookup(fs, q) # NoIno => fs[Lookup(fs, q)].kind \in {"dir", "file"}
  BY <1>1, <1>2, ImageShape DEF NoIno
<1>4. Sees(fs, <<>>) = DirEntry
  BY <1>1, LookupRoot DEF Sees, Root, NoIno, NodeEntry
<1> QED BY <1>2, <1>3, <1>4 DEF Sees, Nothing, NodeEntry, DirEntry, FileEntry, IsDir, IsFile

\* The same in the tree of the image.
LEMMA SeesTree ==
    ASSUME NEW fs, Treelike(fs), NEW q \in Seq(Names)
    PROVE  /\ Sees(fs, q) = IF q = <<>> THEN DirEntry
                            ELSE IF q \in DOMAIN PathTree(fs) THEN PathTree(fs)[q] ELSE Nothing
           /\ q \in DOMAIN PathTree(fs) => /\ q # <<>> /\ Sees(fs, q) = PathTree(fs)[q]
                                           /\ Sees(fs, q) # Nothing
<1>1. DOMAIN PathTree(fs) = {r \in Seq(Names) : r # <<>> /\ Lookup(fs, r) # NoIno}
  BY TreePaths
<1>2. \A r \in DOMAIN PathTree(fs) : PathTree(fs)[r] = NodeEntry(fs[Lookup(fs, r)])
  BY TreePaths
<1>3. Sees(fs, <<>>) = DirEntry /\ (Lookup(fs, q) = NoIno <=> Sees(fs, q) = Nothing)
  BY SeesIs
<1> QED BY <1>1, <1>2, <1>3 DEF Sees

\* Images that show the same everywhere have the same tree.
LEMMA SameSeen ==
    ASSUME NEW fs, Treelike(fs), NEW gs, Treelike(gs),
           \A q \in Seq(Names) : Sees(fs, q) = Sees(gs, q)
    PROVE  PathTree(fs) = PathTree(gs)
<1>1. /\ PathTree(fs) = [q \in DOMAIN PathTree(fs) |-> PathTree(fs)[q]]
      /\ PathTree(gs) = [q \in DOMAIN PathTree(gs) |-> PathTree(gs)[q]]
      /\ DOMAIN PathTree(fs) \subseteq Seq(Names) /\ DOMAIN PathTree(gs) \subseteq Seq(Names)
  BY TreePaths
<1>2. \A q \in Seq(Names) : q \in DOMAIN PathTree(fs) <=> q # <<>> /\ Sees(fs, q) # Nothing
  BY SeesTree
<1>3. \A q \in Seq(Names) : q \in DOMAIN PathTree(gs) <=> q # <<>> /\ Sees(gs, q) # Nothing
  BY SeesTree
<1>4. DOMAIN PathTree(fs) = DOMAIN PathTree(gs)
  BY <1>1, <1>2, <1>3
<1>5. \A q \in DOMAIN PathTree(fs) : PathTree(fs)[q] = PathTree(gs)[q]
  BY <1>1, <1>4, SeesTree
<1> QED BY <1>1, <1>4, <1>5

\* Where something is found there is a directory above.
LEMMA ParentSeen ==
    ASSUME NEW fs, Treelike(fs), NEW q \in Seq(Names), q # <<>>, Sees(fs, q) # Nothing
    PROVE  Parent(q) \in Seq(Names) /\ Sees(fs, Parent(q)).kind = "dir"
<1>1. /\ Parent(q) \in Seq(Names) /\ q = Append(Parent(q), BaseName(q)) /\ BaseName(q) \in Names
      /\ Len(Parent(q)) = Len(q) - 1
  BY PathEnds
<1>2. Lookup(fs, q) # NoIno
  BY SeesIs
<1>3. OnWay(Parent(q), q)
  <2>1. OnWay(Parent(q), Parent(q))
    BY <1>1, OnWayOrder
  <2>2. OnWay(Parent(q), Append(Parent(q), BaseName(q)))
    BY <1>1, <2>1, OnWayEntry
  <2> QED BY <1>1, <2>2
<1>4. Parent(q) # q
  BY <1>1
<1>5. IsDir(fs, Lookup(fs, Parent(q)))
  BY <1>1, <1>2, <1>3, <1>4, WayIsThrough DEF Found
<1> QED BY <1>1, <1>5, SeesIs

-----------------------------------------------------------------------------
(* What the compiled op does to the view *)

\* Each op that compile does not refuse has its effect.
LEMMA MakeHasEffect ==
    ASSUME Kept(v), Kept(v'), NEW op, DirectoryOp(op), NEW entry, Paths!Make(op.path, entry),
           \/ op.op = "create" /\ entry = FileEntry(<<>>)
           \/ op.op = "mkdir" /\ entry = DirEntry
    PROVE  HasEffect(op, v, v')
<1> DEFINE T == PathTree(v)
           U == PathTree(v')
<1>1. op.path \in Seq(Names)
  BY DEF DirectoryOp
<1>2. ToTree(v) = T /\ ToTree(v') = U /\ Treelike(v) /\ Treelike(v')
  BY KeptTree DEF Kept
<1>3. /\ op.path \notin DOMAIN T
      /\ U = [q \in DOMAIN T \cup {op.path} |-> IF q = op.path THEN entry ELSE T[q]]
  BY <1>2 DEF Paths!Make
<1>4. \A q \in Seq(Names) :
         /\ Sees(v, q) = IF q = <<>> THEN DirEntry ELSE IF q \in DOMAIN T THEN T[q] ELSE Nothing
         /\ Sees(v', q) = IF q = <<>> THEN DirEntry ELSE IF q \in DOMAIN U THEN U[q] ELSE Nothing
         /\ q \in DOMAIN U => q # <<>>
  BY <1>2, SeesTree
<1> HIDE DEF T, U
<1>5. DOMAIN U = DOMAIN T \cup {op.path}
  BY <1>3
<1>6. op.path # <<>> /\ Sees(v, op.path) = Nothing
  BY <1>1, <1>3, <1>4, <1>5
<1>7. ASSUME NEW q \in Seq(Names)
      PROVE  Sees(v', q) = IF q = op.path THEN entry ELSE Sees(v, q)
  BY <1>3, <1>4, <1>5, <1>6, <1>7
<1>8. \A q \in Seq(Names) : Effect(op, v, q) = IF q = op.path THEN entry ELSE Sees(v, q)
  BY <1>6 DEF Effect
<1> QED BY <1>7, <1>8 DEF HasEffect

LEMMA SetDataHasEffect ==
    ASSUME Kept(v), Kept(v'), NEW p \in Seq(Names), NEW data, Paths!SetData(p, data)
    PROVE  /\ Sees(v, p).kind = "file" /\ Sees(v, p).data = PathTree(v)[p].data
           /\ \A q \in Seq(Names) : Sees(v', q) = IF q = p THEN FileEntry(data) ELSE Sees(v, q)
<1> DEFINE T == PathTree(v)
           U == PathTree(v')
<1>1. ToTree(v) = T /\ ToTree(v') = U /\ Treelike(v) /\ Treelike(v')
  BY KeptTree DEF Kept
<1>2. p \in DOMAIN T /\ T[p].kind = "file" /\ U = [T EXCEPT ![p].data = data]
  BY <1>1 DEF Paths!SetData, Paths!IsFilePath
<1>3. \A q \in Seq(Names) :
         /\ Sees(v, q) = IF q = <<>> THEN DirEntry ELSE IF q \in DOMAIN T THEN T[q] ELSE Nothing
         /\ Sees(v', q) = IF q = <<>> THEN DirEntry ELSE IF q \in DOMAIN U THEN U[q] ELSE Nothing
         /\ q \in DOMAIN T => q # <<>>
  BY <1>1, SeesTree
<1>4. Sees(v, p) = T[p]
  BY <1>2, <1>3
<1>5. IsFile(v, Lookup(v, p)) /\ T[p] = FileEntry(Content(v[Lookup(v, p)]))
  <2>1. Sees(v, p).kind = "file"
    BY <1>2, <1>4
  <2> QED BY <1>1, <1>4, <2>1, SeesIs
<1> HIDE DEF T, U
<1>6. DOMAIN U = DOMAIN T /\ \A q \in DOMAIN T : q # p => U[q] = T[q]
  BY <1>2
<1>7. U[p] = FileEntry(data)
  BY <1>2, <1>5 DEF FileEntry
<1>8. ASSUME NEW q \in Seq(Names)
      PROVE  Sees(v', q) = IF q = p THEN FileEntry(data) ELSE Sees(v, q)
  BY <1>2, <1>3, <1>6, <1>7
<1> QED BY <1>2, <1>4, <1>8 DEF T

LEMMA DropHasEffect ==
    ASSUME Kept(v), Kept(v'), NEW op, DirectoryOp(op), op.op \in {"unlink", "rmdir"},
           Paths!Drop(op.path)
    PROVE  HasEffect(op, v, v')
<1> DEFINE T == PathTree(v)
           U == PathTree(v')
           p == op.path
<1>1. p \in Seq(Names) /\ p # <<>>
  BY DEF DirectoryOp
<1>2. ToTree(v) = T /\ ToTree(v') = U /\ Treelike(v) /\ Treelike(v')
  BY KeptTree DEF Kept
<1>3. U = [q \in DOMAIN T \ UnderOf(T, p) |-> T[q]]
  BY <1>1, <1>2, UnderIs DEF Paths!Drop
<1>4. \A q \in Seq(Names) :
         /\ Sees(v, q) = IF q = <<>> THEN DirEntry ELSE IF q \in DOMAIN T THEN T[q] ELSE Nothing
         /\ Sees(v', q) = IF q = <<>> THEN DirEntry ELSE IF q \in DOMAIN U THEN U[q] ELSE Nothing
  BY <1>2, SeesTree
<1>5. ~OnWay(p, <<>>)
  BY <1>1, OnWayOrder
<1> HIDE DEF T, U
<1>6. ASSUME NEW q \in Seq(Names)
      PROVE  Sees(v', q) = IF OnWay(p, q) THEN Nothing ELSE Sees(v, q)
  BY <1>3, <1>4, <1>5, <1>6 DEF UnderOf
<1> QED BY <1>6 DEF HasEffect, Effect

LEMMA MoveHasEffect ==
    ASSUME Kept(v), Kept(v'), NEW op, DirectoryOp(op), op.op = "rename",
           Paths!Move(op.from, op.to)
    PROVE  HasEffect(op, v, v')
<1> DEFINE T == PathTree(v)
           U == PathTree(v')
           from == op.from
           to == op.to
<1>1. from \in Seq(Names) /\ from # <<>> /\ to \in Seq(Names) /\ to # <<>>
  BY DEF DirectoryOp
<1>2. ToTree(v) = T /\ ToTree(v') = U /\ Treelike(v) /\ Treelike(v')
  BY KeptTree DEF Kept
<1>3. Paths!Under(from) = UnderOf(T, from) /\ Paths!Under(to) = UnderOf(T, to)
  BY <1>1, <1>2, UnderIs
<1>4. U = WithMoved(T, from, to) /\ ~OnWay(from, to)
  BY <1>1, <1>2, <1>3, BelowIs DEF Paths!Move, WithMoved, Landing, Taken
<1>5. \A q \in Seq(Names) :
         /\ Sees(v, q) = IF q = <<>> THEN DirEntry ELSE IF q \in DOMAIN T THEN T[q] ELSE Nothing
         /\ Sees(v', q) = IF q = <<>> THEN DirEntry ELSE IF q \in DOMAIN U THEN U[q] ELSE Nothing
         /\ q \in DOMAIN T => q # <<>>
  BY <1>2, SeesTree
<1>6. ~OnWay(from, <<>>) /\ ~OnWay(to, <<>>) /\ from # to
  BY <1>1, <1>4, OnWayOrder
<1>7. DOMAIN T \subseteq Seq(Names)
  BY <1>2, TreePaths
<1> HIDE DEF T, U, from, to
<1>8. ASSUME NEW q \in Seq(Names)
      PROVE  q \in Landing(T, from, to) <=> OnWay(to, q) /\ Taken(q, to, from) \in DOMAIN T
  <2>1. ASSUME NEW r \in UnderOf(T, from), q = Taken(r, from, to)
        PROVE  OnWay(to, q) /\ Taken(q, to, from) \in DOMAIN T
    <3>1. r \in Seq(Names) /\ OnWay(from, r) /\ r \in DOMAIN T
      BY <1>7 DEF UnderOf
    <3>2. OnWay(to, q) /\ Taken(q, to, from) = r
      BY <1>1, <2>1, <3>1, TakenOf
    <3> QED BY <3>1, <3>2
  <2>2. ASSUME OnWay(to, q), Taken(q, to, from) \in DOMAIN T
        PROVE  q \in Landing(T, from, to)
    <3>1. OnWay(from, Taken(q, to, from)) /\ Taken(Taken(q, to, from), from, to) = q
      BY <1>1, <2>2, TakenOf
    <3>2. Taken(q, to, from) \in UnderOf(T, from)
      BY <2>2, <3>1 DEF UnderOf
    <3> QED BY <3>1, <3>2 DEF Landing
  <2> QED BY <2>1, <2>2 DEF Landing
<1>9. DOMAIN U = (DOMAIN T \ (UnderOf(T, from) \cup UnderOf(T, to))) \cup Landing(T, from, to)
      /\ \A q \in DOMAIN U : U[q] = IF q \in Landing(T, from, to) THEN T[Taken(q, to, from)] ELSE T[q]
  BY <1>4 DEF WithMoved
<1>10. ASSUME NEW q \in Seq(Names)
       PROVE  Sees(v', q) = IF OnWay(to, q) THEN Sees(v, Taken(q, to, from))
                            ELSE IF OnWay(from, q) THEN Nothing ELSE Sees(v, q)
  <2>1. CASE OnWay(to, q)
    <3>1. Taken(q, to, from) \in Seq(Names) /\ Taken(q, to, from) # <<>>
      <4>1. Taken(q, to, from) \in Seq(Names) /\ OnWay(from, Taken(q, to, from))
        BY <1>1, <2>1, TakenOf
      <4> QED BY <1>6, <4>1
    <3>2. q # <<>>
      BY <1>6, <2>1
    <3>3. Sees(v, Taken(q, to, from)) = IF Taken(q, to, from) \in DOMAIN T
                                        THEN T[Taken(q, to, from)] ELSE Nothing
      BY <1>5, <3>1
    <3>4. q \in DOMAIN U <=> Taken(q, to, from) \in DOMAIN T
      BY <1>8, <1>9, <2>1 DEF UnderOf
    <3>5. q \in DOMAIN U => U[q] = T[Taken(q, to, from)]
      BY <1>8, <1>9, <2>1, <3>4
    <3> QED BY <1>5, <2>1, <3>2, <3>3, <3>4, <3>5
  <2>2. CASE ~OnWay(to, q)
    <3>1. q \notin Landing(T, from, to)
      BY <1>8, <2>2
    <3>2. q \in DOMAIN U <=> q \in DOMAIN T /\ ~OnWay(from, q)
      BY <1>9, <2>2, <3>1 DEF UnderOf
    <3>3. q \in DOMAIN U => U[q] = T[q]
      BY <1>9, <3>1
    <3>4. OnWay(from, q) => q # <<>>
      BY <1>6
    <3> QED BY <1>5, <2>2, <3>2, <3>3, <3>4
  <2> QED BY <2>1, <2>2
<1> QED BY <1>6, <1>10 DEF HasEffect, Effect, from, to

LEMMA QuietHasEffect ==
    ASSUME Kept(v), Kept(v'), NEW op, DirectoryOp(op), Paths!Quiet(op), ToTree(v') = ToTree(v)
    PROVE  HasEffect(op, v, v')
<1>1. ToTree(v) = PathTree(v) /\ PathTree(v') = PathTree(v) /\ Treelike(v) /\ Treelike(v')
  BY KeptTree DEF Kept
<1>2. \A q \in Seq(Names) : Sees(v', q) = Sees(v, q)
  BY <1>1, SeesTree
<1>3. ASSUME NEW q \in Seq(Names) PROVE Effect(op, v, q) = Sees(v, q)
  <2>1. CASE op.op \in {"create", "mkdir"}
    <3>1. op.path \in Seq(Names) /\ (op.path = <<>> \/ op.path \in DOMAIN PathTree(v))
      BY <1>1, <2>1 DEF DirectoryOp, Paths!Quiet
    <3>2. Sees(v, op.path) # Nothing
      <4>1. DirEntry # Nothing
        BY DEF DirEntry, Nothing
      <4> QED BY <1>1, <3>1, <4>1, SeesTree
    <3> QED BY <2>1, <3>2 DEF Effect
  <2>2. CASE op.op \notin {"create", "mkdir"}
    BY <2>2 DEF Effect, DirectoryOp, Paths!Quiet
  <2> QED BY <2>1, <2>2
<1> QED BY <1>2, <1>3 DEF HasEffect

\* Compiling an op that does not fail has the effect of the op on the view.
LEMMA LogHasEffect ==
    ASSUME Kept(v), NEW op, DirectoryOp(op), CompileOp(op), ~failed'
    PROVE  /\ Kept(v') /\ HasEffect(op, v, v')
           /\ op.op = "truncate" => Sees(v, op.path).kind = "file"
<1>1. Kept(v') /\ Paths!Step(op)
  BY OpIsPathStep
<1>2. CASE op.op = "create" /\ Paths!Make(op.path, Paths!FileEntry(<<>>))
  BY <1>1, <1>2, MakeHasEffect DEF FileEntry, Paths!FileEntry
<1>3. CASE op.op = "mkdir" /\ Paths!Make(op.path, Paths!DirEntry)
  BY <1>1, <1>3, MakeHasEffect DEF DirEntry, Paths!DirEntry
<1>4. CASE op.op = "write" /\ Paths!WriteAt(op.path, op.offset, op.data)
  <2>1. op.path \in Seq(Names)
    BY <1>4 DEF DirectoryOp
  <2>2. ToTree(v) = PathTree(v)
    BY KeptTree
  <2>3. Paths!SetData(op.path, Written(PathTree(v)[op.path].data, op.offset, op.data))
    BY <1>4, <2>2 DEF Paths!WriteAt, Written
  <2>4. /\ Sees(v, op.path).data = PathTree(v)[op.path].data
        /\ \A q \in Seq(Names) :
              Sees(v', q) = IF q = op.path
                            THEN FileEntry(Written(PathTree(v)[op.path].data, op.offset, op.data))
                            ELSE Sees(v, q)
    BY <1>1, <2>1, <2>3, SetDataHasEffect
  <2>5. HasEffect(op, v, v')
    BY <1>4, <2>4 DEF HasEffect, Effect
  <2> QED BY <1>1, <1>4, <2>5
<1>5. CASE op.op = "truncate" /\ Paths!SetData(op.path, Paths!Fit(ToTree(v)[op.path].data, op.len))
  <2>1. op.path \in Seq(Names)
    BY <1>5 DEF DirectoryOp
  <2>2. ToTree(v) = PathTree(v)
    BY KeptTree
  <2>3. Paths!SetData(op.path, Paths!Fit(PathTree(v)[op.path].data, op.len))
    BY <1>5, <2>2
  <2>4. /\ Sees(v, op.path).kind = "file" /\ Sees(v, op.path).data = PathTree(v)[op.path].data
        /\ \A q \in Seq(Names) :
              Sees(v', q) = IF q = op.path
                            THEN FileEntry(Paths!Fit(PathTree(v)[op.path].data, op.len))
                            ELSE Sees(v, q)
    BY <1>1, <2>1, <2>3, SetDataHasEffect
  <2>5. HasEffect(op, v, v')
    BY <1>5, <2>4 DEF HasEffect, Effect
  <2> QED BY <1>1, <2>4, <2>5
<1>6. CASE op.op = "rename" /\ Paths!Move(op.from, op.to)
  BY <1>1, <1>6, MoveHasEffect
<1>7. CASE op.op \in {"unlink", "rmdir"} /\ Paths!Drop(op.path)
  BY <1>1, <1>7, DropHasEffect
<1>8. CASE Paths!Quiet(op) /\ ToTree(v)' = ToTree(v)
  <2>1. HasEffect(op, v, v')
    BY <1>1, <1>8, QuietHasEffect
  <2>2. op.op # "truncate"
    BY <1>8 DEF Paths!Quiet
  <2> QED BY <1>1, <2>1, <2>2
<1>9. Paths!Change(op) \/ (Paths!Quiet(op) /\ ToTree(v)' = ToTree(v))
  BY <1>1 DEF Paths!Step
<1> QED BY <1>2, <1>3, <1>4, <1>5, <1>6, <1>7, <1>8, <1>9 DEF Paths!Change

-----------------------------------------------------------------------------
(* What a system call does to the disk *)

Disk(fs) == Treelike(fs) /\ FilesWhole(fs)

\* Inodes stay what they are.
Grows(x, fs) ==
    /\ Len(fs) \in Nat /\ Len(x) \in Nat /\ Len(fs) <= Len(x)
    /\ \A i \in 1..Len(fs) : x[i].kind = fs[i].kind

LEMMA DiskIsKept ==
    ASSUME NEW fs, Disk(fs)
    PROVE  Kept(fs) /\ IsImage(fs) /\ Len(fs) \in Nat
  BY WholeIsSettled, ImageShape DEF Disk, Kept, FilesWhole, FilesSettled, Treelike

LEMMA MadeShows ==
    ASSUME NEW fs, Disk(fs), NEW p \in Seq(Names), CanMake(fs, p),
           NEW node, node \in {EmptyDir, EmptyFile}, NEW x, x = Made(fs, p, node)
    PROVE  /\ Disk(x) /\ Grows(x, fs) /\ Len(x) = Len(fs) + 1 /\ x[Len(fs) + 1] = node
           /\ Sees(fs, p) = Nothing
           /\ \A q \in Seq(Names) : Sees(x, q) = IF q = p THEN NodeEntry(node) ELSE Sees(fs, q)
<1>1. /\ Treelike(fs) /\ IsImage(fs) /\ Len(fs) \in Nat /\ FilesWhole(fs)
      /\ p # <<>> /\ Lookup(fs, p) = NoIno /\ IsDir(fs, Lookup(fs, Parent(p)))
  BY DiskIsKept DEF Disk, CanMake
<1>2. node = EmptyDir \/ (node.kind = "file" /\ node = File(node.buf, node.len))
  BY NewEntry
<1>3. GrownAt(x, fs, p, node)
  BY <1>1, <1>2, PlantLooks DEF Made
<1>4. FilesWhole(x)
  <2>1. node.kind = "file" => Whole(node)
    <3>1. node.kind = "file" => node = File(<<>>, Len(<<>>))
      BY DEF EmptyFile, EmptyDir, Dir
    <3>2. Whole(File(<<>>, Len(<<>>)))
      <4>1. <<>> \in Seq(Nat)
        OBVIOUS
      <4> QED BY <4>1, LoadedIsWhole
    <3> QED BY <3>1, <3>2
  <2> QED BY <1>1, <1>3, <2>1 DEF GrownAt, FilesWhole
<1>5. Sees(fs, p) = Nothing
  BY <1>1 DEF Sees
<1>6. ASSUME NEW q \in Seq(Names) PROVE Sees(x, q) = IF q = p THEN NodeEntry(node) ELSE Sees(fs, q)
  <2>1. CASE q = p
    BY <1>1, <1>3, <2>1 DEF GrownAt, Sees, NoIno
  <2>2. CASE q # p
    <3>1. Lookup(x, q) = Lookup(fs, q) /\ Lookup(fs, q) \in 0..Len(fs)
      BY <1>1, <1>3, <2>2, SeesIs DEF GrownAt
    <3>2. CASE Lookup(fs, q) = NoIno
      BY <2>2, <3>1, <3>2 DEF Sees
    <3>3. CASE Lookup(fs, q) # NoIno
      <4>1. Lookup(fs, q) \in 1..Len(fs)
        BY <1>1, <3>1, <3>3 DEF NoIno
      <4>2. NodeEntry(x[Lookup(fs, q)]) = NodeEntry(fs[Lookup(fs, q)])
        BY <1>1, <1>3, <4>1, SameEntry DEF GrownAt
      <4> QED BY <2>2, <3>1, <3>3, <4>2 DEF Sees
    <3> QED BY <3>2, <3>3
  <2> QED BY <2>1, <2>2
<1> QED BY <1>1, <1>3, <1>4, <1>5, <1>6 DEF GrownAt, Disk, Grows

\* A change of entries alone shows other nodes, and the same of each.
LEMMA SameNodeShown ==
    ASSUME NEW fs, Disk(fs), NEW x, SameNodes(x, fs), NEW q \in Seq(Names), NEW r \in Seq(Names),
           Lookup(x, q) = Lookup(fs, r)
    PROVE  Sees(x, q) = Sees(fs, r)
<1>1. Lookup(fs, r) \in 0..Len(fs) /\ Len(fs) \in Nat /\ IsImage(fs)
  BY SeesIs, DiskIsKept DEF Disk
<1>2. CASE Lookup(fs, r) = NoIno
  BY <1>2 DEF Sees
<1>3. CASE Lookup(fs, r) # NoIno
  <2>1. Lookup(fs, r) \in 1..Len(fs)
    BY <1>1, <1>3 DEF NoIno
  <2>2. NodeEntry(x[Lookup(fs, r)]) = NodeEntry(fs[Lookup(fs, r)])
    BY <1>1, <2>1, SameEntry DEF SameNodes
  <2> QED BY <1>3, <2>2 DEF Sees
<1> QED BY <1>2, <1>3

LEMMA SameNodesDisk ==
    ASSUME NEW fs, Disk(fs), NEW x, Treelike(x), SameNodes(x, fs)
    PROVE  Disk(x) /\ Grows(x, fs)
<1>1. Len(fs) \in Nat /\ FilesWhole(fs) /\ Len(x) = Len(fs)
  BY DiskIsKept DEF Disk, SameNodes
<1>2. FilesWhole(x)
  BY <1>1, SameFilesWhole DEF SameNodes
<1> QED BY <1>1, <1>2 DEF Disk, Grows, SameNodes

LEMMA RemovedShows ==
    ASSUME NEW fs, Disk(fs), NEW p \in Seq(Names), p # <<>>, Lookup(fs, p) # NoIno,
           NEW x, x = Removed(fs, p)
    PROVE  /\ Disk(x) /\ Grows(x, fs)
           /\ \A q \in Seq(Names) : Sees(x, q) = IF OnWay(p, q) THEN Nothing ELSE Sees(fs, q)
<1>1. CutAt(x, fs, p)
  BY CutLooks DEF Disk, Removed
<1>2. Disk(x) /\ Grows(x, fs)
  BY <1>1, SameNodesDisk DEF CutAt
<1>3. ASSUME NEW q \in Seq(Names) PROVE Sees(x, q) = IF OnWay(p, q) THEN Nothing ELSE Sees(fs, q)
  <2>1. CASE OnWay(p, q)
    BY <1>1, <2>1 DEF CutAt, Sees
  <2>2. CASE ~OnWay(p, q)
    BY <1>1, <2>2, SameNodeShown DEF CutAt
  <2> QED BY <2>1, <2>2
<1> QED BY <1>2, <1>3

\* The kernel's rename is what the micro-op does.
LEMMA MovedIsRename ==
    ASSUME NEW fs, Disk(fs), NEW from \in Seq(Names), from # <<>>, NEW to \in Seq(Names),
           Lookup(fs, from) # NoIno, Lookup(fs, to) # Lookup(fs, from)
    PROVE  Moved(fs, from, to) =
             Apply(fs, Rename(Lookup(fs, Parent(from)), BaseName(from),
                              Lookup(fs, Parent(to)), BaseName(to), Lookup(fs, from), FALSE))
<1> DEFINE fp == Lookup(fs, Parent(from))
           m == Rename(fp, BaseName(from), Lookup(fs, Parent(to)), BaseName(to), Lookup(fs, from), FALSE)
<1>1. Lookup(fs, from) = Down(fs, fp, BaseName(from))
  <2>1. Parent(from) \in Seq(Names) /\ BaseName(from) \in Names
        /\ from = Append(Parent(from), BaseName(from))
    BY PathEnds
  <2> HIDE DEF fp
  <2> QED BY <2>1, LookupStep DEF fp
<1>2. IsDir(fs, fp) /\ fs[fp].entries[BaseName(from)] = Lookup(fs, from)
  BY <1>1 DEF Down
<1>3. /\ m.kind = "Rename" /\ m.from = fp /\ m.from_name = BaseName(from)
      /\ m.to = Lookup(fs, Parent(to)) /\ m.to_name = BaseName(to) /\ m.ino = Lookup(fs, from)
  BY DEF Rename
<1> HIDE DEF fp, m
<1>4. Apply(fs, m) = ApplyRename(fs, m)
  BY <1>3 DEF Apply
<1>5. ApplyRename(fs, m) = SetEntry(SetEntry(fs, fp, BaseName(from), NoIno),
                                    Lookup(fs, Parent(to)), BaseName(to), Lookup(fs, from))
  BY <1>2, <1>3 DEF ApplyRename
<1> QED BY <1>4, <1>5 DEF Moved, fp, m

LEMMA MovedLooks ==
    ASSUME NEW fs, Disk(fs), NEW from \in Seq(Names), NEW to \in Seq(Names), CanMove(fs, from, to),
           NEW x, x = Moved(fs, from, to)
    PROVE  (from = to /\ x = fs) \/ (from # to /\ MoveAt(x, fs, from, to))
<1>1. /\ Treelike(fs) /\ Len(fs) \in Nat
      /\ from # <<>> /\ to # <<>> /\ Lookup(fs, from) # NoIno
      /\ IsDir(fs, Lookup(fs, Parent(to))) /\ ~Inside(from, to)
  BY DiskIsKept DEF Disk, CanMove
<1>2. CASE Lookup(fs, to) = Lookup(fs, from)
  <2>1. from = to
    BY <1>1, <1>2, SameInode
  <2>2. x = fs
    BY <1>2 DEF Moved
  <2> QED BY <2>1, <2>2
<1>3. CASE Lookup(fs, to) # Lookup(fs, from)
  <2>1. from # to
    BY <1>3
  <2>2. ~OnWay(from, to)
    BY <1>1, <2>1, OnWayMeans
  <2> DEFINE m == Rename(Lookup(fs, Parent(from)), BaseName(from),
                         Lookup(fs, Parent(to)), BaseName(to), Lookup(fs, from), FALSE)
  <2>3. x = Apply(fs, m)
    BY <1>1, <1>3, MovedIsRename
  <2>4. m = Rename(Lookup(fs, Parent(from)), BaseName(from),
                   Lookup(fs, Parent(to)), BaseName(to), Lookup(fs, from), FALSE)
    OBVIOUS
  <2> HIDE DEF m
  <2>5. Relinked(x, fs, from, to)
    BY <1>1, <2>3, <2>4, RenameRelinks
  <2>6. MoveAt(x, fs, from, to)
    BY <1>1, <2>2, <2>5, MoveLooks
  <2> QED BY <2>1, <2>6
<1> QED BY <1>2, <1>3

LEMMA MovedShows ==
    ASSUME NEW fs, Disk(fs), NEW from \in Seq(Names), NEW to \in Seq(Names), CanMove(fs, from, to),
           NEW x, x = Moved(fs, from, to)
    PROVE  /\ Disk(x) /\ Grows(x, fs)
           /\ \A q \in Seq(Names) :
                 Sees(x, q) = IF from = to THEN Sees(fs, q)
                              ELSE IF OnWay(to, q) THEN Sees(fs, Taken(q, to, from))
                              ELSE IF OnWay(from, q) THEN Nothing ELSE Sees(fs, q)
<1>1. (from = to /\ x = fs) \/ (from # to /\ MoveAt(x, fs, from, to))
  BY MovedLooks
<1>2. CASE from = to /\ x = fs
  BY <1>2, DiskIsKept DEF Grows
<1>3. CASE from # to /\ MoveAt(x, fs, from, to)
  <2>1. Disk(x) /\ Grows(x, fs)
    BY <1>3, SameNodesDisk DEF MoveAt
  <2>2. ASSUME NEW q \in Seq(Names)
        PROVE  Sees(x, q) = IF OnWay(to, q) THEN Sees(fs, Taken(q, to, from))
                            ELSE IF OnWay(from, q) THEN Nothing ELSE Sees(fs, q)
    <3>1. CASE OnWay(to, q)
      <4>1. Taken(q, to, from) \in Seq(Names)
        BY <3>1, TakenOf
      <4>2. Lookup(x, q) = Lookup(fs, Taken(q, to, from))
        BY <1>3, <3>1 DEF MoveAt
      <4>3. Sees(x, q) = Sees(fs, Taken(q, to, from))
        BY <1>3, <4>1, <4>2, SameNodeShown DEF MoveAt
      <4> QED BY <3>1, <4>3
    <3>2. CASE ~OnWay(to, q) /\ OnWay(from, q)
      BY <1>3, <3>2 DEF MoveAt, Sees
    <3>3. CASE ~OnWay(to, q) /\ ~OnWay(from, q)
      BY <1>3, <3>3, SameNodeShown DEF MoveAt
    <3> QED BY <3>1, <3>2, <3>3
  <2> QED BY <1>3, <2>1, <2>2
<1> QED BY <1>1, <1>2, <1>3

Refilled(x, fs, ino, node) == x = [fs EXCEPT ![ino] = node]

\* Every path leads where it did.
SameWays(x, fs) == Len(x) = Len(fs) /\ \A q \in Seq(Names) : Lookup(x, q) = Lookup(fs, q)

\* An open file is changed: no path leads elsewhere.
LEMMA RefilledLooks ==
    ASSUME NEW fs, Disk(fs), NEW p \in Seq(Names), NEW ino, ino = Lookup(fs, p), IsFile(fs, ino),
           NEW node, Whole(node), NEW x, Refilled(x, fs, ino, node)
    PROVE  /\ ino \in 1..Len(fs) /\ Len(x) = Len(fs) /\ node.kind = "file"
           /\ FileSet(x, fs, ino, node) /\ FilesWhole(x)
<1>1. Treelike(fs) /\ IsImage(fs) /\ Len(fs) \in Nat /\ FilesWhole(fs)
  BY DiskIsKept DEF Disk
<1>2. ino \in 1..Len(fs) /\ fs[ino].kind = "file"
  <2>1. ino \in 0..Len(fs)
    BY <1>1, SeesIs
  <2> QED BY <1>1, <2>1 DEF IsFile, NoIno
<1>3. node = File(node.buf, node.len) /\ node.kind = "file"
  BY DEF Whole, TypedFile, File
<1>4. DOMAIN fs = 1..Len(fs) /\ fs = [i \in 1..Len(fs) |-> fs[i]]
  BY <1>1, ImageShape
<1>5. /\ x = [i \in 1..Len(fs) |-> x[i]] /\ x[ino] = node
      /\ \A i \in 1..Len(fs) : i # ino => x[i] = fs[i]
  BY <1>2, <1>4 DEF Refilled
<1>6. \A i \in 1..Len(fs) : IsNode(x[i], Len(fs))
  BY <1>1, <1>3, <1>5 DEF IsImage, IsNode
<1>7. IsImage(x) /\ Len(x) = Len(fs)
  BY <1>1, <1>5, <1>6, MakesImage
<1>8. FileSet(x, fs, ino, node)
  <2>1. x[ino].kind = "file"
    BY <1>3, <1>5
  <2>2. FileSet(x, fs, ino, x[ino])
    BY <1>1, <1>2, <1>5, <1>7, <2>1, FileLooks
  <2> QED BY <1>5, <2>2
<1>9. FilesWhole(x)
  BY <1>1, <1>5, <1>7 DEF FilesWhole
<1> QED BY <1>2, <1>3, <1>7, <1>8, <1>9

\* Its one path shows the change, and no other.
LEMMA FileShows ==
    ASSUME NEW fs, Disk(fs), NEW p \in Seq(Names), NEW ino, ino = Lookup(fs, p), IsFile(fs, ino),
           NEW node, Whole(node), NEW x, Refilled(x, fs, ino, node)
    PROVE  /\ Disk(x) /\ Grows(x, fs) /\ SameWays(x, fs)
           /\ \A q \in Seq(Names) : Sees(x, q) = IF q = p THEN FileEntry(Content(node)) ELSE Sees(fs, q)
<1>1. Treelike(fs) /\ Len(fs) \in Nat
  BY DiskIsKept DEF Disk
<1>2. /\ ino \in 1..Len(fs) /\ Len(x) = Len(fs) /\ node.kind = "file"
      /\ FileSet(x, fs, ino, node) /\ FilesWhole(x)
  BY RefilledLooks
<1>3. ASSUME NEW q \in Seq(Names)
      PROVE  Sees(x, q) = IF q = p THEN FileEntry(Content(node)) ELSE Sees(fs, q)
  <2>1. Lookup(x, q) = Lookup(fs, q) /\ Lookup(fs, q) \in 0..Len(fs)
    BY <1>1, <1>2, SeesIs DEF FileSet
  <2>2. CASE q = p
    BY <1>2, <2>1, <2>2 DEF FileSet, Sees, NodeEntry, NoIno
  <2>3. CASE q # p
    <3>1. Lookup(fs, q) # ino
      BY <1>1, <1>2, <2>3, SameInode DEF NoIno
    <3>2. Lookup(fs, q) # NoIno => x[Lookup(fs, q)] = fs[Lookup(fs, q)]
      BY <1>1, <1>2, <2>1, <3>1 DEF FileSet, NoIno
    <3> QED BY <2>1, <2>3, <3>2 DEF Sees
  <2> QED BY <2>2, <2>3
<1>4. Disk(x) /\ Grows(x, fs) /\ SameWays(x, fs)
  BY <1>1, <1>2 DEF FileSet, Disk, Grows, SameWays
<1> QED BY <1>3, <1>4

LEMMA WroteShows ==
    ASSUME NEW fs, Disk(fs), NEW p \in Seq(Names), NEW ino, ino = Lookup(fs, p), IsFile(fs, ino),
           NEW offset \in Nat, NEW data \in Seq(Nat), data # <<>>,
           NEW x, x = Wrote(fs, ino, offset, data)
    PROVE  /\ Disk(x) /\ Grows(x, fs) /\ SameWays(x, fs)
           /\ \A q \in Seq(Names) :
                 Sees(x, q) = IF q = p THEN FileEntry(Written(Sees(fs, q).data, offset, data))
                              ELSE Sees(fs, q)
<1> DEFINE w == fs[ino]
           y == Splice(w.buf, offset, data)
           node == File(y, Len(y))
<1>1. Whole(w) /\ w.buf \in Seq(Nat) /\ Len(w.buf) = w.len /\ Sees(fs, p).data = Content(w)
  <2>1. Treelike(fs) /\ FilesWhole(fs)
    BY DEF Disk
  <2>2. ino \in 0..Len(fs) /\ Len(fs) \in Nat /\ Sees(fs, p) = FileEntry(Content(w))
    BY <2>1, SeesIs
  <2>3. Whole(w)
    BY <2>1, <2>2 DEF IsFile, NoIno, FilesWhole
  <2> QED BY <2>2, <2>3 DEF Whole, TypedFile, FileEntry
<1>2. Refilled(x, fs, ino, node)
  BY DEF Wrote, Refilled
<1>3. y \in Seq(Nat) /\ Overwrites(y, w.buf, offset, data)
  <2> HIDE DEF w
  <2> QED BY <1>1, SpliceOf
<1>4. Len(y) = IF offset + Len(data) > w.len THEN offset + Len(data) ELSE w.len
  BY <1>1 DEF Splice
<1>5. node.buf = y /\ node.len = Len(y)
  BY DEF File
<1> HIDE DEF w, y
<1>6. Whole(node)
  BY <1>3, LoadedIsWhole
<1>7. Settled(node) /\ Settled(w)
  BY <1>1, <1>6, WholeIsSettled
<1> HIDE DEF node
<1>8. WroteOver(node, w, offset, data)
  BY <1>3, <1>4, <1>5, <1>7 DEF WroteOver, Overwrites
<1>9. Content(node) = Written(Content(w), offset, data)
  BY <1>7, <1>8, WriteContent
<1>10. /\ Disk(x) /\ Grows(x, fs) /\ SameWays(x, fs)
       /\ \A q \in Seq(Names) : Sees(x, q) = IF q = p THEN FileEntry(Content(node)) ELSE Sees(fs, q)
  BY <1>2, <1>6, FileShows
<1> QED BY <1>1, <1>9, <1>10

LEMMA SizedShows ==
    ASSUME NEW fs, Disk(fs), NEW p \in Seq(Names), NEW ino, ino = Lookup(fs, p), IsFile(fs, ino),
           NEW len \in Nat, NEW x, x = Sized(fs, ino, len)
    PROVE  /\ Disk(x) /\ Grows(x, fs) /\ SameWays(x, fs)
           /\ \A q \in Seq(Names) :
                 Sees(x, q) = IF q = p THEN FileEntry(Paths!Fit(Sees(fs, q).data, len))
                              ELSE Sees(fs, q)
<1> DEFINE w == fs[ino]
           y == Resize(w.buf, len)
           node == File(y, len)
<1>1. Whole(w) /\ w.buf \in Seq(Nat) /\ Len(w.buf) = w.len /\ Sees(fs, p).data = Content(w)
  <2>1. Treelike(fs) /\ FilesWhole(fs)
    BY DEF Disk
  <2>2. ino \in 0..Len(fs) /\ Len(fs) \in Nat /\ Sees(fs, p) = FileEntry(Content(w))
    BY <2>1, SeesIs
  <2>3. Whole(w)
    BY <2>1, <2>2 DEF IsFile, NoIno, FilesWhole
  <2> QED BY <2>2, <2>3 DEF Whole, TypedFile, FileEntry
<1>2. Refilled(x, fs, ino, node)
  BY DEF Sized, Refilled
<1> HIDE DEF w
<1>3. y \in Seq(Nat) /\ Len(y) = len /\ \A k \in 1..len : y[k] = IF k <= w.len THEN w.buf[k] ELSE 0
  BY <1>1 DEF Resize
<1>4. node.buf = y /\ node.len = len /\ node = File(y, Len(y))
  BY <1>3 DEF File
<1> HIDE DEF y, node
<1>5. Whole(node)
  BY <1>3, <1>4, LoadedIsWhole
<1>6. Settled(node) /\ Settled(w)
  BY <1>1, <1>5, WholeIsSettled
<1>7. \A k \in 1..len : ByteAt(node.buf, k) = IF k <= w.len THEN ByteAt(w.buf, k) ELSE 0
  BY <1>1, <1>3, <1>4 DEF ByteAt
<1>8. Truncated(node, w, len)
  BY <1>4, <1>6, <1>7 DEF Truncated
<1>9. Content(node) = Paths!Fit(Content(w), len)
  BY <1>6, <1>8, TruncateContent
<1>10. /\ Disk(x) /\ Grows(x, fs) /\ SameWays(x, fs)
       /\ \A q \in Seq(Names) : Sees(x, q) = IF q = p THEN FileEntry(Content(node)) ELSE Sees(fs, q)
  BY <1>2, <1>5, FileShows
<1> QED BY <1>1, <1>9, <1>10

-----------------------------------------------------------------------------
(* The threads *)

PathsOf(t) == Uses(t, doing[t].call)

\* A handle on a file of y.
HandleOK(f, y) ==
    \/ f = NoFile
    \/ /\ f = RecFile(f.path, f.ino, f.pos, f.len, f.append)
       /\ f.path \in Seq(Names) /\ f.ino \in 1..Len(y) /\ y[f.ino].kind = "file"
       /\ f.pos \in Nat /\ f.len \in Nat

OpOK(op, P) == DirectoryOp(op) /\ OpPaths(op) = P

\* A call on the paths P: its op is about them, and create and append have one.
CallOK(d, P, y) ==
    /\ d = [at |-> d.at, call |-> d.call, op |-> d.op, then |-> d.then]
    /\ P \subseteq Seq(Names) /\ d.at \in {"log", "log first", "open"}
    /\ d.at # "open" => OpOK(d.op, P)
    /\ d.at = "log" => HandleOK(d.then, y)
    /\ d.at # "log" => d.call.name \in {"create", "append"} /\ P = {d.call.path}

\* What create and append log of an entry e.
FirstOp(name, op, e) ==
    \/ op.op = "create" /\ e = Nothing
    \/ op.op = "truncate" /\ op.len = 0 /\ name = "create"

\* After they logged, the view shows e what the disk, which shows d, will.
Openable(name, e, d) ==
    IF name = "create" THEN e = FileEntry(<<>>) /\ d.kind \in {"nothing", "file"}
    ELSE e # Nothing /\ (e = d \/ (e = FileEntry(<<>>) /\ d = Nothing))

\* How view x and disk y differ by a call that is under way.
Agrees(d, P, x, y) ==
    /\ d.at = "log" => \A q \in Reach(P) : Sees(y, q) = Effect(d.op, x, q)
    /\ d.at = "log first" =>
          /\ \A q \in Reach(P) : Sees(x, q) = Sees(y, q)
          /\ FirstOp(d.call.name, d.op, Sees(y, d.call.path))
    /\ d.at = "open" =>
          /\ \A q \in Reach(P) : q # d.call.path => Sees(x, q) = Sees(y, q)
          /\ Openable(d.call.name, Sees(x, d.call.path), Sees(y, d.call.path))

PerThread ==
    doing = [t \in Threads |-> doing[t]] /\ file = [t \in Threads |-> file[t]]
Apart == \A t, u \in Busy : t # u => ~Conflict(PathsOf(t), PathsOf(u))
Elsewhere ==
    \A q \in Seq(Names) : (\A t \in Busy : q \notin Reach(PathsOf(t))) => Sees(v, q) = Sees(real, q)

\* The inductive invariant: the calls under way are about separate paths; the
\* view and the disk agree elsewhere, and there up to the op that is missing.
RecorderInv ==
    /\ Kept(v) /\ Disk(real) /\ PerThread /\ Apart
    /\ \A t \in Threads : HandleOK(file[t], real)
    /\ \A t \in Busy : CallOK(doing[t], PathsOf(t), real)
    /\ ~failed => Elsewhere /\ \A t \in Busy : Agrees(doing[t], PathsOf(t), v, real)

LEMMA ConflictIsMutual ==
    ASSUME NEW P, NEW Q
    PROVE  Conflict(P, Q) <=> Conflict(Q, P)
  BY DEF Conflict

LEMMA ApartReach ==
    ASSUME NEW P, P \subseteq Seq(Names), NEW Q, Q \subseteq Seq(Names), ~Conflict(P, Q)
    PROVE  /\ \A q : ~(q \in Reach(P) /\ q \in Reach(Q))
           /\ \A p \in P : p # <<>> => Parent(p) \notin Reach(Q)
<1>1. ASSUME NEW p \in P, NEW r \in Q PROVE ~OnWay(p, r) /\ ~OnWay(r, p)
  BY <1>1, OnWayMeans DEF Conflict
<1>2. ASSUME NEW q \in Seq(Names), NEW p \in P, NEW r \in Q, OnWay(p, q), OnWay(r, q) PROVE FALSE
  BY <1>1, <1>2, OnWayOrder
<1>3. ASSUME NEW p \in P, p # <<>>, NEW r \in Q, OnWay(r, Parent(p)) PROVE FALSE
  <2>1. Parent(p) \in Seq(Names) /\ BaseName(p) \in Names /\ p = Append(Parent(p), BaseName(p))
    BY <1>3, PathEnds
  <2>2. OnWay(r, Append(Parent(p), BaseName(p)))
    BY <1>3, <2>1, OnWayEntry
  <2> QED BY <1>1, <1>3, <2>1, <2>2
<1> QED BY <1>2, <1>3 DEF Reach

LEMMA HandleStays ==
    ASSUME NEW f, NEW y, NEW x, HandleOK(f, y), Grows(x, y)
    PROVE  HandleOK(f, x)
<1>1. CASE f = NoFile
  BY <1>1 DEF HandleOK
<1>2. CASE f # NoFile
  <2>1. f.ino \in 1..Len(y) /\ Len(y) \in Nat /\ Len(x) \in Nat /\ Len(y) <= Len(x)
    BY <1>2 DEF HandleOK, Grows
  <2>2. f.ino \in 1..Len(x) /\ x[f.ino].kind = y[f.ino].kind
    BY <2>1 DEF Grows
  <2> QED BY <1>2, <2>2 DEF HandleOK
<1> QED BY <1>1, <1>2

LEMMA CallStays ==
    ASSUME NEW d, NEW P, NEW y, NEW x, CallOK(d, P, y), Grows(x, y)
    PROVE  CallOK(d, P, x)
  BY HandleStays DEF CallOK

\* What a call is waiting for does not change while its paths are left alone.
LEMMA AgreementStays ==
    ASSUME NEW d, NEW P, NEW x, NEW y, NEW x2, NEW y2, NEW z, CallOK(d, P, z), Agrees(d, P, x, y),
           \A q \in Reach(P) : Sees(x2, q) = Sees(x, q) /\ Sees(y2, q) = Sees(y, q)
    PROVE  Agrees(d, P, x2, y2)
<1>1. CASE d.at = "log"
  <2>1. ASSUME NEW q \in Reach(P) PROVE Effect(d.op, x2, q) = Effect(d.op, x, q)
    <3>1. DirectoryOp(d.op) /\ OpPaths(d.op) = P /\ q \in Seq(Names)
      BY <1>1, <2>1 DEF CallOK, OpOK, Reach
    <3> QED BY <3>1, EffectIsSame
  <2> QED BY <1>1, <2>1 DEF Agrees
<1>2. CASE d.at # "log"
  <2>1. d.call.path \in Reach(P)
    <3>1. P \subseteq Seq(Names) /\ P = {d.call.path}
      BY <1>2 DEF CallOK
    <3> QED BY <3>1, OnWayOrder DEF Reach
  <2> QED BY <1>2, <2>1 DEF Agrees
<1> QED BY <1>1, <1>2

\* A step of thread t that changes what is at P and below, and nothing else.
Turn(t, P) ==
    /\ PerThread'
    /\ \A u \in Threads : u # t => doing'[u] = doing[u] /\ file'[u] = file[u]
    /\ Kept(v') /\ Disk(real') /\ Grows(real', real) /\ HandleOK(file'[t], real')
    /\ P \subseteq Seq(Names) /\ (t \in Busy => P = PathsOf(t))
    /\ \A u \in Busy : u # t => ~Conflict(P, PathsOf(u))
    /\ doing'[t] # Idle => PathsOf(t)' = P /\ CallOK(doing'[t], P, real')
    /\ failed => failed'
    /\ ~failed' =>
          /\ \A q \in Seq(Names) :
                q \notin Reach(P) => Sees(v', q) = Sees(v, q) /\ Sees(real', q) = Sees(real, q)
          /\ doing'[t] = Idle => \A q \in Reach(P) : Sees(v', q) = Sees(real', q)
          /\ doing'[t] # Idle => Agrees(doing'[t], P, v', real')

LEMMA TurnKeepsInv ==
    ASSUME RecorderInv, NEW t \in Threads, NEW P, Turn(t, P)
    PROVE  RecorderInv'
<1>1. \A u \in Threads : u # t => doing'[u] = doing[u] /\ file'[u] = file[u]
  BY DEF Turn
<1>2. \A u \in Threads : u # t => PathsOf(u)' = PathsOf(u)
  BY <1>1 DEF PathsOf, Uses
<1>3. \A u \in Threads : u # t => (u \in Busy' <=> u \in Busy)
  BY <1>1 DEF Busy
<1>4. t \in Busy' => PathsOf(t)' = P /\ CallOK(doing'[t], P, real')
  BY DEF Busy, Turn
<1>5. Kept(v') /\ Disk(real') /\ PerThread'
  BY DEF Turn
<1>6. ASSUME NEW u \in Threads PROVE HandleOK(file'[u], real')
  <2>1. CASE u = t
    BY <2>1 DEF Turn
  <2>2. CASE u # t
    BY <1>1, <2>2, HandleStays DEF RecorderInv, Turn
  <2> QED BY <2>1, <2>2
<1>7. ASSUME NEW u \in Busy' PROVE CallOK(doing'[u], PathsOf(u)', real')
  <2>1. CASE u = t
    BY <1>4, <1>7, <2>1
  <2>2. CASE u # t
    <3>1. u \in Busy /\ u \in Threads
      BY <1>3, <1>7, <2>2 DEF Busy
    <3>2. CallOK(doing[u], PathsOf(u), real) /\ Grows(real', real)
      BY <3>1 DEF RecorderInv, Turn
    <3> QED BY <1>1, <1>2, <2>2, <3>1, <3>2, CallStays
  <2> QED BY <2>1, <2>2
<1>8. ASSUME NEW u \in Busy', u # t
      PROVE  /\ u \in Busy /\ u \in Threads /\ PathsOf(u)' = PathsOf(u) /\ doing'[u] = doing[u]
             /\ ~Conflict(P, PathsOf(u)) /\ ~Conflict(PathsOf(u), P)
             /\ PathsOf(u) \subseteq Seq(Names) /\ CallOK(doing[u], PathsOf(u), real)
  <2>1. u \in Busy /\ u \in Threads
    BY <1>3, <1>8 DEF Busy
  <2>2. ~Conflict(P, PathsOf(u))
    BY <1>8, <2>1 DEF Turn
  <2>3. CallOK(doing[u], PathsOf(u), real)
    BY <2>1 DEF RecorderInv
  <2> QED BY <1>1, <1>2, <1>8, <2>1, <2>2, <2>3, ConflictIsMutual DEF CallOK
<1>9. ASSUME NEW r \in Busy', NEW u \in Busy', r # u PROVE ~Conflict(PathsOf(r)', PathsOf(u)')
  <2>1. CASE r = t
    BY <1>4, <1>8, <1>9, <2>1
  <2>2. CASE u = t
    BY <1>4, <1>8, <1>9, <2>2
  <2>3. CASE r # t /\ u # t
    BY <1>8, <1>9, <2>3 DEF RecorderInv, Apart
  <2> QED BY <2>1, <2>2, <2>3
<1>10. Apart'
  BY <1>9 DEF Apart
<1>11. ASSUME ~failed' PROVE Elsewhere' /\ \A u \in Busy' : Agrees(doing'[u], PathsOf(u)', v', real')
  <2>1. ~failed /\ P \subseteq Seq(Names)
    BY <1>11 DEF Turn
  <2>2. \A q \in Seq(Names) :
           q \notin Reach(P) => Sees(v', q) = Sees(v, q) /\ Sees(real', q) = Sees(real, q)
    BY <1>11 DEF Turn
  <2>3. ASSUME NEW u \in Busy' PROVE Agrees(doing'[u], PathsOf(u)', v', real')
    <3>1. CASE u = t
      BY <1>4, <1>11, <2>3, <3>1 DEF Turn, Busy
    <3>2. CASE u # t
      <4>1. \A q \in Reach(PathsOf(u)) : q \in Seq(Names) /\ q \notin Reach(P)
        BY <1>8, <2>1, <2>3, <3>2, ApartReach DEF Reach
      <4>2. Agrees(doing[u], PathsOf(u), v, real)
        BY <1>8, <2>1, <2>3, <3>2 DEF RecorderInv
      <4>3. Agrees(doing[u], PathsOf(u), v', real')
        BY <1>8, <2>2, <2>3, <3>2, <4>1, <4>2, AgreementStays
      <4> QED BY <1>8, <2>3, <3>2, <4>3
    <3> QED BY <3>1, <3>2
  <2>4. ASSUME NEW q \in Seq(Names), \A u \in Busy' : q \notin Reach(PathsOf(u)')
        PROVE  Sees(v', q) = Sees(real', q)
    <3>1. CASE q \in Reach(P)
      <4>1. t \notin Busy'
        BY <1>4, <2>4, <3>1
      <4>2. doing'[t] = Idle
        BY <4>1 DEF Busy
      <4> QED BY <1>11, <3>1, <4>2 DEF Turn
    <3>2. CASE q \notin Reach(P)
      <4>1. ASSUME NEW u \in Busy PROVE q \notin Reach(PathsOf(u))
        <5>1. CASE u = t
          BY <3>2, <4>1, <5>1 DEF Turn
        <5>2. CASE u # t
          <6>1. u \in Threads /\ u \in Busy'
            BY <1>3, <4>1, <5>2 DEF Busy
          <6> QED BY <1>2, <2>4, <5>2, <6>1
        <5> QED BY <5>1, <5>2
      <4>2. Sees(v, q) = Sees(real, q)
        BY <2>1, <4>1 DEF RecorderInv, Elsewhere
      <4> QED BY <2>2, <3>2, <4>2
    <3> QED BY <3>1, <3>2
  <2> QED BY <2>3, <2>4 DEF Elsewhere
<1> QED BY <1>5, <1>6, <1>7, <1>10, <1>11 DEF RecorderInv

-----------------------------------------------------------------------------
(* Calls that are done for real first *)

\* Paths that no call under way is about show the same in the log and on disk.
LEMMA FreeAgrees ==
    ASSUME RecorderInv, ~failed, NEW P, P \subseteq Seq(Names),
           \A u \in Busy : ~Conflict(P, PathsOf(u))
    PROVE  \A q \in Reach(P) : q \in Seq(Names) /\ Sees(v, q) = Sees(real, q)
<1>1. ASSUME NEW q \in Reach(P), NEW u \in Busy PROVE q \notin Reach(PathsOf(u))
  <2>1. PathsOf(u) \subseteq Seq(Names)
    BY <1>1 DEF RecorderInv, CallOK
  <2> QED BY <1>1, <2>1, ApartReach
<1>2. \A q \in Reach(P) : q \in Seq(Names)
  BY DEF Reach
<1> QED BY <1>1, <1>2 DEF RecorderInv, Elsewhere

\* A thread that may start is idle, and its paths are free.
LEMMA StartIsFree ==
    ASSUME NEW t, NEW c, MayStart(t, c)
    PROVE  /\ t \notin Busy /\ doing[t] = Idle /\ ~failed
           /\ \A u \in Busy : ~Conflict(Uses(t, c), PathsOf(u))
           /\ c.name \in {"write", "set_len", "sync"} => Current(file[t])
  BY DEF MayStart, Ordered, Busy, PathsOf

\* A call is done for real: its op is what the view is behind.
LEMMA PerformTurn ==
    ASSUME RecorderInv, NEW t \in Threads, NEW c, MayStart(t, c), NEW op, NEW then,
           Performed(t, c, op, then), v' = v, failed' = failed, file' = file,
           Disk(real'), Grows(real', real), HasEffect(op, real, real'),
           OpOK(op, Uses(t, c)), Uses(t, c) \subseteq Seq(Names), HandleOK(then, real')
    PROVE  Turn(t, Uses(t, c))
<1> DEFINE P == Uses(t, c)
           d == [at |-> "log", call |-> c, op |-> op, then |-> then]
<1>1. /\ t \notin Busy /\ ~failed /\ \A u \in Busy : ~Conflict(P, PathsOf(u))
  BY StartIsFree
<1>2. PerThread' /\ doing'[t] = d /\ \A u \in Threads : u # t => doing'[u] = doing[u] /\ file'[u] = file[u]
  BY DEF RecorderInv, PerThread, Performed
<1>3. d # Idle /\ doing'[t] # Idle /\ d.at = "log" /\ d.call = c /\ d.op = op /\ d.then = then
  BY <1>2 DEF Idle
<1>4. PathsOf(t)' = P
  BY <1>2 DEF PathsOf, Uses
<1>5. CallOK(d, P, real')
  BY <1>3 DEF CallOK
<1>6. HandleOK(file'[t], real')
  BY HandleStays DEF RecorderInv
<1>7. \A q \in Reach(P) : q \in Seq(Names) /\ Sees(v, q) = Sees(real, q)
  BY <1>1, FreeAgrees
<1>8. DirectoryOp(op) /\ OpPaths(op) = P
  BY DEF OpOK
<1> HIDE DEF P, d
<1>9. ASSUME NEW q \in Seq(Names), q \notin Reach(P)
      PROVE  Sees(v', q) = Sees(v, q) /\ Sees(real', q) = Sees(real, q)
  BY <1>8, <1>9, EffectIsLocal DEF HasEffect
<1>10. ASSUME NEW q \in Reach(P) PROVE Sees(real', q) = Effect(op, v', q)
  <2>1. q \in Seq(Names) /\ Sees(v, q) = Sees(real, q)
    BY <1>7, <1>10
  <2>2. Effect(op, real, q) = Effect(op, v, q)
    BY <1>7, <1>8, <2>1, EffectIsSame
  <2> QED BY <2>1, <2>2 DEF HasEffect
<1>11. Agrees(d, P, v', real')
  BY <1>3, <1>10 DEF Agrees
<1>12. Kept(v')
  BY DEF RecorderInv
<1>13. P \subseteq Seq(Names)
  BY DEF P
<1>14. Turn(t, P)
  BY <1>1, <1>2, <1>3, <1>4, <1>5, <1>6, <1>9, <1>11, <1>12, <1>13 DEF Turn
<1> QED BY <1>14 DEF P

\* An open handle is on the file at its path.
LEMMA HandleIsCurrent ==
    ASSUME RecorderInv, NEW t \in Threads, file[t] # NoFile, Current(file[t])
    PROVE  /\ file[t] = RecFile(file[t].path, file[t].ino, file[t].pos, file[t].len, file[t].append)
           /\ file[t].path \in Seq(Names) /\ file[t].pos \in Nat /\ file[t].len \in Nat
           /\ file[t].ino \in 1..Len(real) /\ real[file[t].ino].kind = "file"
           /\ file[t].ino = Lookup(real, file[t].path) /\ IsFile(real, file[t].ino)
           /\ file[t].append => file[t].len = real[file[t].ino].len
<1>1. HandleOK(file[t], real) /\ Len(real) \in Nat
  BY DiskIsKept DEF RecorderInv
<1> QED BY <1>1 DEF HandleOK, Current, IsFile, NoIno

LEMMA RenameTurn ==
    ASSUME RecorderInv, NEW t \in Threads, NEW c \in Calls, MayStart(t, c), Rename1(t, c), UNCHANGED vars
    PROVE  Turn(t, Uses(t, c))
<1> DEFINE op == [op |-> "rename", from |-> c.from, to |-> c.to]
<1>1. c.name = "rename" /\ c.from \in Seq(Names) /\ c.to \in Seq(Names) /\ CanMove(real, c.from, c.to)
  BY CallsAssumption DEF Rename1
<1>2. Disk(real) /\ real' = Moved(real, c.from, c.to)
  BY DEF RecorderInv, Rename1
<1>3. /\ Disk(real') /\ Grows(real', real)
      /\ \A q \in Seq(Names) :
            Sees(real', q) = IF c.from = c.to THEN Sees(real, q)
                             ELSE IF OnWay(c.to, q) THEN Sees(real, Taken(q, c.to, c.from))
                             ELSE IF OnWay(c.from, q) THEN Nothing ELSE Sees(real, q)
  BY <1>1, <1>2, MovedShows
<1>4. op.op = "rename" /\ op.from = c.from /\ op.to = c.to
  OBVIOUS
<1>5. v' = v /\ failed' = failed /\ file' = file /\ Performed(t, c, op, file[t])
  BY DEF vars, Rename1
<1> HIDE DEF op
<1>6. HasEffect(op, real, real')
  BY <1>3, <1>4 DEF HasEffect, Effect
<1>7. Uses(t, c) = {c.from, c.to}
  BY <1>1 DEF Uses, HandleCalls
<1>8. OpOK(op, Uses(t, c)) /\ Uses(t, c) \subseteq Seq(Names)
  BY <1>1, <1>4, <1>7 DEF OpOK, DirectoryOp, OpPaths, CanMove
<1>9. HandleOK(file[t], real')
  BY <1>3, HandleStays DEF RecorderInv
<1> QED BY <1>3, <1>5, <1>6, <1>8, <1>9, PerformTurn

LEMMA RemoveTurn ==
    ASSUME RecorderInv, NEW t \in Threads, NEW c \in Calls, MayStart(t, c),
           RemoveFile(t, c) \/ RemoveDir(t, c), UNCHANGED vars
    PROVE  Turn(t, Uses(t, c))
<1> DEFINE op == [op |-> IF c.name = "remove_file" THEN "unlink" ELSE "rmdir", path |-> c.path]
<1>1. /\ c.name \in {"remove_file", "remove_dir"} /\ c.path \in Seq(Names)
      /\ c.path # <<>> /\ Lookup(real, c.path) # NoIno
  BY CallsAssumption DEF RemoveFile, RemoveDir, CanUnlink, CanRmdir, IsFile, IsDir
<1>2. Disk(real) /\ real' = Removed(real, c.path)
  BY DEF RecorderInv, RemoveFile, RemoveDir
<1>3. /\ Disk(real') /\ Grows(real', real)
      /\ \A q \in Seq(Names) :
            Sees(real', q) = IF OnWay(c.path, q) THEN Nothing ELSE Sees(real, q)
  BY <1>1, <1>2, RemovedShows
<1>4. op.op \in {"unlink", "rmdir"} /\ op.path = c.path
  OBVIOUS
<1>5. v' = v /\ failed' = failed /\ file' = file /\ Performed(t, c, op, file[t])
  BY DEF vars, RemoveFile, RemoveDir
<1> HIDE DEF op
<1>6. HasEffect(op, real, real')
  BY <1>3, <1>4 DEF HasEffect, Effect
<1>7. Uses(t, c) = {c.path}
  BY <1>1 DEF Uses, HandleCalls
<1>8. OpOK(op, Uses(t, c)) /\ Uses(t, c) \subseteq Seq(Names)
  BY <1>1, <1>4, <1>7 DEF OpOK, DirectoryOp, OpPaths
<1>9. HandleOK(file[t], real')
  BY <1>3, HandleStays DEF RecorderInv
<1> QED BY <1>3, <1>5, <1>6, <1>8, <1>9, PerformTurn

LEMMA CreateDirTurn ==
    ASSUME RecorderInv, NEW t \in Threads, NEW c \in Calls, MayStart(t, c), CreateDir(t, c), UNCHANGED vars
    PROVE  Turn(t, Uses(t, c))
<1> DEFINE op == [op |-> "mkdir", path |-> c.path]
<1>1. c.name = "create_dir" /\ c.path \in Seq(Names) /\ CanMake(real, c.path)
  BY CallsAssumption DEF CreateDir
<1>2. Disk(real) /\ real' = Made(real, c.path, EmptyDir)
  BY DEF RecorderInv, CreateDir
<1>3. /\ Disk(real') /\ Grows(real', real) /\ Sees(real, c.path) = Nothing
      /\ \A q \in Seq(Names) :
            Sees(real', q) = IF q = c.path THEN NodeEntry(EmptyDir) ELSE Sees(real, q)
  BY <1>1, <1>2, MadeShows
<1>4. op.op = "mkdir" /\ op.path = c.path
  OBVIOUS
<1>5. v' = v /\ failed' = failed /\ file' = file /\ Performed(t, c, op, file[t])
  BY DEF vars, CreateDir
<1>6. NodeEntry(EmptyDir) = DirEntry
  BY NewEntry
<1> HIDE DEF op
<1>7. HasEffect(op, real, real')
  BY <1>3, <1>4, <1>6 DEF HasEffect, Effect
<1>8. Uses(t, c) = {c.path}
  BY <1>1 DEF Uses, HandleCalls
<1>9. OpOK(op, Uses(t, c)) /\ Uses(t, c) \subseteq Seq(Names)
  BY <1>1, <1>4, <1>8 DEF OpOK, DirectoryOp, OpPaths
<1>10. HandleOK(file[t], real')
  BY <1>3, HandleStays DEF RecorderInv
<1> QED BY <1>3, <1>5, <1>7, <1>9, <1>10, PerformTurn

LEMMA SyncTurn ==
    ASSUME RecorderInv, NEW t \in Threads, NEW c \in Calls, MayStart(t, c),
           SyncDir(t, c) \/ SyncFile(t, c), UNCHANGED vars
    PROVE  Turn(t, Uses(t, c))
<1> DEFINE p == IF c.name = "sync_dir" THEN c.path ELSE file[t].path
           op == [op |-> "fsync", path |-> p]
<1>1. p \in Seq(Names) /\ Uses(t, c) = {p}
  <2>1. CASE SyncDir(t, c)
    BY <2>1, CallsAssumption DEF SyncDir, Uses, HandleCalls
  <2>2. CASE SyncFile(t, c)
    <3>1. c.name = "sync" /\ file[t] # NoFile
      BY <2>2 DEF SyncFile
    <3>2. file[t].path \in Seq(Names)
      BY <3>1 DEF RecorderInv, HandleOK
    <3> QED BY <3>1, <3>2 DEF Uses, HandleCalls
  <2> QED BY <2>1, <2>2
<1>2. Disk(real) /\ real' = real /\ Grows(real, real)
  BY DiskIsKept DEF RecorderInv, SyncDir, SyncFile, disk, Grows
<1>3. op.op = "fsync" /\ op.path = p
  OBVIOUS
<1>4. v' = v /\ failed' = failed /\ file' = file /\ Performed(t, c, op, file[t])
  BY DEF vars, SyncDir, SyncFile
<1> HIDE DEF op, p
<1>5. HasEffect(op, real, real')
  BY <1>2, <1>3 DEF HasEffect, Effect
<1>6. OpOK(op, Uses(t, c)) /\ Uses(t, c) \subseteq Seq(Names)
  BY <1>1, <1>3 DEF OpOK, DirectoryOp, OpPaths
<1>7. HandleOK(file[t], real')
  BY <1>2 DEF RecorderInv
<1> QED BY <1>2, <1>4, <1>5, <1>6, <1>7, PerformTurn

\* A handle that moved on.
Advanced(f, pos, len) == [f EXCEPT !.pos = pos, !.len = len]

LEMMA HandleAdvanced ==
    ASSUME NEW path, NEW ino, NEW pos, NEW len, NEW append, NEW pos2, NEW len2, NEW f,
           f = RecFile(path, ino, pos, len, append)
    PROVE  Advanced(f, pos2, len2) = RecFile(path, ino, pos2, len2, append)
<1> DEFINE g == [f EXCEPT !.pos = pos2]
<1>1. g = RecFile(path, ino, pos2, len, append)
  BY DEF RecFile
<1>2. [g EXCEPT !.len = len2] = RecFile(path, ino, pos2, len2, append)
  <2> HIDE DEF g
  <2> QED BY <1>1 DEF RecFile
<1>3. Advanced(f, pos2, len2) = [g EXCEPT !.len = len2]
  BY DEF Advanced
<1> QED BY <1>2, <1>3

LEMMA WriteTurn ==
    ASSUME WritesSomething, RecorderInv, NEW t \in Threads, NEW c \in Calls, MayStart(t, c),
           WriteFile(t, c), UNCHANGED vars
    PROVE  Turn(t, Uses(t, c))
<1> DEFINE f == file[t]
           p == f.path
           offset == Offset(f)
           op == [op |-> "write", path |-> p, offset |-> offset, data |-> c.data]
           end == offset + Len(c.data)
           then == [f EXCEPT !.pos = end, !.len = IF @ < end THEN end ELSE @]
<1>1. c.name = "write" /\ f # NoFile /\ c.data \in Seq(Nat) /\ c.data # <<>>
  BY CallsAssumption DEF WriteFile, WritesSomething
<1>2. Current(f)
  BY <1>1, StartIsFree
<1>3. /\ f = RecFile(f.path, f.ino, f.pos, f.len, f.append)
      /\ f.path \in Seq(Names) /\ f.pos \in Nat /\ f.len \in Nat
      /\ f.ino \in 1..Len(real) /\ real[f.ino].kind = "file"
      /\ f.ino = Lookup(real, f.path) /\ IsFile(real, f.ino)
      /\ f.append => f.len = real[f.ino].len
  BY <1>1, <1>2, HandleIsCurrent
<1>4. /\ v' = v /\ failed' = failed /\ file' = file /\ Performed(t, c, op, then)
      /\ real' = Wrote(real, f.ino, IF f.append THEN real[f.ino].len ELSE f.pos, c.data)
  BY DEF vars, WriteFile
<1> HIDE DEF f
<1>5. offset \in Nat /\ real' = Wrote(real, f.ino, offset, c.data)
  BY <1>3, <1>4 DEF Offset
<1>6. Disk(real)
  BY DEF RecorderInv
<1> HIDE DEF offset
<1>7. /\ Disk(real') /\ Grows(real', real)
      /\ \A q \in Seq(Names) :
            Sees(real', q) = IF q = p THEN FileEntry(Written(Sees(real, q).data, offset, c.data))
                             ELSE Sees(real, q)
  BY <1>1, <1>3, <1>5, <1>6, WroteShows
<1>8. op.op = "write" /\ op.path = p /\ op.offset = offset /\ op.data = c.data
  OBVIOUS
<1>9. HandleOK(then, real')
  <2>1. Len(c.data) \in Nat /\ end \in Nat
    BY <1>1, <1>5
  <2>2. f.ino \in 1..Len(real') /\ real'[f.ino].kind = "file"
    BY <1>3, <1>7 DEF Grows
  <2> HIDE DEF end
  <2> DEFINE len == IF f.len < end THEN end ELSE f.len
  <2>3. f = RecFile(f.path, f.ino, f.pos, f.len, f.append)
    BY <1>3
  <2>4. then = RecFile(f.path, f.ino, end, len, f.append)
    <3>1. then = Advanced(f, end, len)
      BY DEF Advanced
    <3> HIDE DEF then, len, p
    <3> QED BY <2>3, <3>1, HandleAdvanced
  <2>5. len \in Nat
    BY <1>3, <2>1
  <2> HIDE DEF len, then
  <2>6. /\ then.path = f.path /\ then.ino = f.ino /\ then.pos = end /\ then.len = len
        /\ then = RecFile(then.path, then.ino, then.pos, then.len, then.append)
    BY <2>4 DEF RecFile
  <2> QED BY <1>3, <2>1, <2>2, <2>5, <2>6 DEF HandleOK
<1> HIDE DEF op, p, then
<1>10. HasEffect(op, real, real')
  BY <1>7, <1>8 DEF HasEffect, Effect
<1>11. Uses(t, c) = {p}
  BY <1>1 DEF Uses, HandleCalls, p, f
<1>12. OpOK(op, Uses(t, c)) /\ Uses(t, c) \subseteq Seq(Names)
  BY <1>1, <1>3, <1>5, <1>8, <1>11 DEF OpOK, DirectoryOp, OpPaths, p
<1> QED BY <1>4, <1>7, <1>9, <1>10, <1>12, PerformTurn

LEMMA SetLenTurn ==
    ASSUME RecorderInv, NEW t \in Threads, NEW c \in Calls, MayStart(t, c), SetLen1(t, c), UNCHANGED vars
    PROVE  Turn(t, Uses(t, c))
<1> DEFINE f == file[t]
           p == f.path
           op == [op |-> "truncate", path |-> p, len |-> c.len]
           then == [f EXCEPT !.len = c.len]
<1>1. c.name = "set_len" /\ f # NoFile /\ c.len \in Nat
  BY CallsAssumption DEF SetLen1
<1>2. Current(f)
  BY <1>1, StartIsFree
<1>3. /\ f = RecFile(f.path, f.ino, f.pos, f.len, f.append)
      /\ f.path \in Seq(Names) /\ f.pos \in Nat /\ f.len \in Nat
      /\ f.ino \in 1..Len(real) /\ real[f.ino].kind = "file"
      /\ f.ino = Lookup(real, f.path) /\ IsFile(real, f.ino)
  BY <1>1, <1>2, HandleIsCurrent
<1>4. /\ v' = v /\ failed' = failed /\ file' = file /\ Performed(t, c, op, then)
      /\ real' = Sized(real, f.ino, c.len)
  BY DEF vars, SetLen1
<1> HIDE DEF f
<1>5. Disk(real)
  BY DEF RecorderInv
<1>6. /\ Disk(real') /\ Grows(real', real)
      /\ \A q \in Seq(Names) :
            Sees(real', q) = IF q = p THEN FileEntry(Paths!Fit(Sees(real, q).data, c.len))
                             ELSE Sees(real, q)
  BY <1>1, <1>3, <1>4, <1>5, SizedShows
<1>7. op.op = "truncate" /\ op.path = p /\ op.len = c.len
  OBVIOUS
<1>8. HandleOK(then, real')
  <2>1. f.ino \in 1..Len(real') /\ real'[f.ino].kind = "file"
    BY <1>3, <1>6 DEF Grows
  <2>2. /\ then.path = f.path /\ then.ino = f.ino /\ then.append = f.append
        /\ then.pos = f.pos /\ then.len = c.len
        /\ then = RecFile(f.path, f.ino, f.pos, c.len, f.append)
    BY <1>3 DEF RecFile
  <2> QED BY <1>1, <1>3, <2>1, <2>2 DEF HandleOK
<1> HIDE DEF op, p, then
<1>9. HasEffect(op, real, real')
  BY <1>6, <1>7 DEF HasEffect, Effect
<1>10. Uses(t, c) = {p}
  BY <1>1 DEF Uses, HandleCalls, p, f
<1>11. OpOK(op, Uses(t, c)) /\ Uses(t, c) \subseteq Seq(Names)
  BY <1>1, <1>3, <1>7, <1>10 DEF OpOK, DirectoryOp, OpPaths, p
<1> QED BY <1>4, <1>6, <1>8, <1>9, <1>11, PerformTurn

-----------------------------------------------------------------------------
(* The other calls *)

\* A call that changes nothing but the handle of its thread, which is idle.
LEMMA HandleTurn ==
    ASSUME RecorderInv, NEW t \in Threads, doing[t] = Idle, NEW f, HandleOK(f, real),
           file' = [file EXCEPT ![t] = f], doing' = doing, real' = real, v' = v, failed' = failed
    PROVE  Turn(t, {})
<1>1. t \notin Busy /\ doing'[t] = Idle
  BY DEF Busy
<1>2. PerThread' /\ file'[t] = f /\ \A u \in Threads : u # t => doing'[u] = doing[u] /\ file'[u] = file[u]
  BY DEF RecorderInv, PerThread
<1>3. Disk(real) /\ Grows(real', real) /\ Kept(v)
  BY DiskIsKept DEF RecorderInv, Grows
<1>4. Reach({}) = {}
  BY DEF Reach
<1>5. \A Q : ~Conflict({}, Q)
  BY DEF Conflict
<1> QED BY <1>1, <1>2, <1>3, <1>4, <1>5 DEF Turn

LEMMA OpenTurn ==
    ASSUME RecorderInv, NEW t \in Threads, NEW c \in Calls, MayStart(t, c),
           Open(t, c) \/ Seek(t, c), UNCHANGED vars
    PROVE  Turn(t, {})
<1>1. doing[t] = Idle
  BY StartIsFree
<1>2. doing' = doing /\ real' = real /\ v' = v /\ failed' = failed
  BY DEF Open, Seek, disk, vars
<1>3. CASE Open(t, c)
  <2> DEFINE ino == Lookup(real, c.path)
             f == RecFile(c.path, ino, 0, real[ino].len, FALSE)
  <2>1. c.path \in Seq(Names) /\ IsFile(real, ino) /\ file' = [file EXCEPT ![t] = f]
    BY <1>3, CallsAssumption DEF Open
  <2>2. Treelike(real) /\ FilesWhole(real)
    BY DEF RecorderInv, Disk
  <2>3. ino \in 0..Len(real) /\ Len(real) \in Nat
    BY <2>1, <2>2, SeesIs
  <2>4. ino \in 1..Len(real) /\ real[ino].kind = "file"
    BY <2>1, <2>3 DEF IsFile, NoIno
  <2>5. real[ino].len \in Nat
    BY <2>2, <2>4 DEF FilesWhole, Whole, TypedFile
  <2>6. HandleOK(f, real)
    <3>1. /\ f.path = c.path /\ f.ino = ino /\ f.pos = 0 /\ f.len = real[ino].len
          /\ f = RecFile(f.path, f.ino, f.pos, f.len, f.append)
      BY DEF RecFile
    <3> HIDE DEF f, ino
    <3>2. /\ f.path \in Seq(Names) /\ f.ino \in 1..Len(real) /\ real[f.ino].kind = "file"
          /\ f.pos \in Nat /\ f.len \in Nat
      BY <2>1, <2>4, <2>5, <3>1
    <3> QED BY <3>1, <3>2 DEF HandleOK
  <2> HIDE DEF f
  <2> QED BY <1>1, <1>2, <2>1, <2>6, HandleTurn
<1>4. CASE Seek(t, c)
  <2> DEFINE f == [file[t] EXCEPT !.pos = c.pos]
  <2>1. c.pos \in Nat /\ file[t] # NoFile
    BY <1>4, CallsAssumption DEF Seek
  <2>2. file' = [file EXCEPT ![t] = f]
    BY <1>4 DEF Seek
  <2>3. HandleOK(f, real)
    <3>1. HandleOK(file[t], real)
      BY DEF RecorderInv
    <3>2. /\ f.path = file[t].path /\ f.ino = file[t].ino /\ f.pos = c.pos /\ f.len = file[t].len
          /\ f = RecFile(f.path, f.ino, f.pos, f.len, f.append)
      BY <2>1, <3>1 DEF HandleOK, RecFile
    <3> QED BY <2>1, <3>1, <3>2 DEF HandleOK
  <2> HIDE DEF f
  <2> QED BY <1>1, <1>2, <2>2, <2>3, HandleTurn
<1> QED BY <1>3, <1>4

\* The calls that are under way are on the paths they were started with.
LEMMA BusyCall ==
    ASSUME RecorderInv, NEW t \in Threads, doing[t] # Idle
    PROVE  /\ t \in Busy /\ CallOK(doing[t], PathsOf(t), real) /\ PathsOf(t) \subseteq Seq(Names)
           /\ \A u \in Busy : u # t => ~Conflict(PathsOf(t), PathsOf(u))
           /\ ~failed => Agrees(doing[t], PathsOf(t), v, real)
<1>1. t \in Busy
  BY DEF Busy
<1> QED BY <1>1 DEF RecorderInv, Apart, CallOK

\* Logging an op keeps the view, and changes it at the paths of the op.
LEMMA LogIsLocal ==
    ASSUME RecorderInv, NEW op, NEW P, OpOK(op, P), CompileOp(op)
    PROVE  /\ ~failed /\ Kept(v')
           /\ ~failed' =>
                 /\ HasEffect(op, v, v')
                 /\ op.op = "truncate" => Sees(v, op.path).kind = "file"
                 /\ \A q \in Seq(Names) : q \notin Reach(P) => Sees(v', q) = Sees(v, q)
<1>1. ~failed /\ Kept(v) /\ DirectoryOp(op) /\ OpPaths(op) = P
  BY DEF CompileOp, RecorderInv, OpOK
<1>2. CASE failed'
  BY <1>1, <1>2, FailureLeaves
<1>3. CASE ~failed'
  <2>1. Kept(v') /\ HasEffect(op, v, v') /\ (op.op = "truncate" => Sees(v, op.path).kind = "file")
    BY <1>1, <1>3, LogHasEffect
  <2>2. \A q \in Seq(Names) : q \notin Reach(P) => Sees(v', q) = Sees(v, q)
    BY <1>1, <2>1, EffectIsLocal DEF HasEffect
  <2> QED BY <1>1, <2>1, <2>2
<1> QED BY <1>2, <1>3

\* The op is logged: the view shows at the paths of the call what the disk does.
LEMMA LogAndReturnTurn ==
    ASSUME RecorderInv, NEW t \in Threads, LogAndReturn(t)
    PROVE  Turn(t, PathsOf(t))
<1> DEFINE P == PathsOf(t)
           d == doing[t]
<1>1. d.at = "log" /\ d # Idle
  BY DEF LogAndReturn, Idle
<1>2. /\ t \in Busy /\ CallOK(d, P, real) /\ P \subseteq Seq(Names)
      /\ \A u \in Busy : u # t => ~Conflict(P, PathsOf(u))
      /\ ~failed => Agrees(d, P, v, real)
  BY <1>1, BusyCall
<1>3. OpOK(d.op, P) /\ HandleOK(d.then, real) /\ CompileOp(d.op)
  BY <1>1, <1>2 DEF CallOK, LogAndReturn
<1>4. /\ PerThread' /\ doing'[t] = Idle /\ file'[t] = d.then /\ real' = real
      /\ \A u \in Threads : u # t => doing'[u] = doing[u] /\ file'[u] = file[u]
  BY DEF LogAndReturn, disk, RecorderInv, PerThread
<1> HIDE DEF P, d
<1>5. /\ ~failed /\ Kept(v')
      /\ ~failed' => /\ HasEffect(d.op, v, v')
                     /\ \A q \in Seq(Names) : q \notin Reach(P) => Sees(v', q) = Sees(v, q)
  BY <1>3, LogIsLocal
<1>6. Disk(real') /\ Grows(real', real)
  BY <1>4, DiskIsKept DEF RecorderInv, Grows
<1>7. ASSUME ~failed', NEW q \in Reach(P) PROVE Sees(v', q) = Sees(real', q)
  <2>1. q \in Seq(Names) /\ Sees(real, q) = Effect(d.op, v, q)
    BY <1>1, <1>2, <1>5, <1>7 DEF Agrees, Reach
  <2> QED BY <1>4, <1>5, <1>7, <2>1 DEF HasEffect
<1>8. P = PathsOf(t)
  BY DEF P
<1>9. Turn(t, P)
  BY <1>2, <1>3, <1>4, <1>5, <1>6, <1>7, <1>8 DEF Turn
<1> QED BY <1>8, <1>9

\* A mark is logged at once.
LEMMA MarkTurn ==
    ASSUME RecorderInv, NEW t \in Threads, NEW c \in Calls, MayStart(t, c), MarkNow(t, c)
    PROVE  Turn(t, {})
<1> DEFINE op == [op |-> "mark"]
<1>1. OpOK(op, {}) /\ CompileOp(op)
  BY DEF MarkNow, OpOK, DirectoryOp, OpPaths
<1>2. doing[t] = Idle /\ t \notin Busy
  BY StartIsFree
<1>3. doing' = doing /\ file' = file /\ real' = real
  BY DEF MarkNow, disk
<1> HIDE DEF op
<1>4. /\ ~failed /\ Kept(v')
      /\ ~failed' => \A q \in Seq(Names) : q \notin Reach({}) => Sees(v', q) = Sees(v, q)
  BY <1>1, LogIsLocal
<1>5. Disk(real') /\ Grows(real', real) /\ PerThread' /\ HandleOK(file'[t], real')
  BY <1>3, DiskIsKept DEF RecorderInv, Grows, PerThread
<1>6. Reach({}) = {} /\ \A Q : ~Conflict({}, Q)
  BY DEF Reach, Conflict
<1> QED BY <1>2, <1>3, <1>4, <1>5, <1>6 DEF Turn

LEMMA FitEmpty == ASSUME NEW d PROVE Paths!Fit(d, 0) = <<>>
<1>1. 1..0 = {}
  OBVIOUS
<1> QED BY <1>1 DEF Paths!Fit

\* What create and append find at a path fits what they will log.
LEMMA LookFinds ==
    ASSUME NEW name \in {"create", "append"}, NEW p \in Seq(Names), Disk(real),
           NEW op, op = IF name = "create" THEN CreateOp(p) ELSE AppendOp(p)
    PROVE  /\ op = NoOp => Openable(name, Sees(real, p), Sees(real, p))
           /\ op # NoOp => DirectoryOp(op) /\ OpPaths(op) = {p} /\ FirstOp(name, op, Sees(real, p))
<1> DEFINE ino == Lookup(real, p)
           make == [op |-> "create", path |-> p]
           cut == [op |-> "truncate", path |-> p, len |-> 0]
<1>1. /\ Treelike(real) /\ ino \in 0..Len(real) /\ Len(real) \in Nat
      /\ ino = NoIno <=> Sees(real, p) = Nothing
      /\ IsFile(real, ino) => Sees(real, p) = FileEntry(Content(real[ino]))
  BY SeesIs DEF Disk
<1>2. make # NoOp /\ cut # NoOp
  BY DEF NoOp
<1>3. CASE ino = NoIno
  <2>1. op = make
    BY <1>3 DEF CreateOp, AppendOp
  <2> QED BY <1>1, <1>2, <1>3, <2>1 DEF DirectoryOp, OpPaths, FirstOp
<1>4. CASE ino # NoIno /\ name = "append"
  <2>1. op = NoOp
    BY <1>4 DEF AppendOp
  <2> QED BY <1>1, <1>4, <2>1 DEF Openable
<1>5. CASE ino # NoIno /\ name = "create" /\ (IsDir(real, ino) \/ real[ino].len > 0)
  <2>1. op = cut
    BY <1>5 DEF CreateOp
  <2> QED BY <1>2, <1>5, <2>1 DEF DirectoryOp, OpPaths, FirstOp
<1>6. CASE ino # NoIno /\ name = "create" /\ ~(IsDir(real, ino) \/ real[ino].len > 0)
  <2>1. op = NoOp
    BY <1>6 DEF CreateOp
  <2>2. ino \in 1..Len(real) /\ real[ino].kind = "file" /\ IsFile(real, ino)
    BY <1>1, <1>6, ImageShape DEF Treelike, IsDir, IsFile, NoIno
  <2>3. Whole(real[ino])
    BY <2>2 DEF Disk, FilesWhole
  <2>4. real[ino].len = 0
    BY <1>6, <2>3 DEF Whole, TypedFile
  <2>5. Content(real[ino]) = <<>>
    <3>1. 1..0 = {}
      OBVIOUS
    <3> QED BY <2>4, <3>1 DEF Content, Resize
  <2>6. Sees(real, p) = FileEntry(<<>>) /\ FileEntry(<<>>).kind = "file"
    BY <1>1, <2>2, <2>5 DEF FileEntry
  <2> QED BY <1>6, <2>1, <2>6 DEF Openable
<1> QED BY <1>3, <1>4, <1>5, <1>6

\* create and append look at the path, and wait to log or to open.
LEMMA LookTurn ==
    ASSUME RecorderInv, NEW t \in Threads, NEW c \in Calls, MayStart(t, c), Look(t, c), UNCHANGED vars
    PROVE  Turn(t, Uses(t, c))
<1> DEFINE p == c.path
           op == IF c.name = "create" THEN CreateOp(p) ELSE AppendOp(p)
           at == IF op = NoOp THEN "open" ELSE "log first"
           d == [at |-> at, call |-> c, op |-> op, then |-> NoFile]
           P == {p}
<1>1. c.name \in {"create", "append"} /\ p \in Seq(Names) /\ Uses(t, c) = P
  BY CallsAssumption DEF Look, Uses, HandleCalls
<1>2. t \notin Busy /\ ~failed /\ \A u \in Busy : ~Conflict(Uses(t, c), PathsOf(u))
  BY StartIsFree
<1>3. /\ PerThread' /\ doing'[t] = d /\ file'[t] = file[t]
      /\ \A u \in Threads : u # t => doing'[u] = doing[u] /\ file'[u] = file[u]
  BY DEF Look, RecorderInv, PerThread
<1>4. v' = v /\ failed' = failed /\ real' = real
  BY DEF Look, disk, vars
<1>5. /\ op = NoOp => Openable(c.name, Sees(real, p), Sees(real, p))
      /\ op # NoOp => DirectoryOp(op) /\ OpPaths(op) = P /\ FirstOp(c.name, op, Sees(real, p))
  BY <1>1, LookFinds DEF RecorderInv
<1>6. /\ d.at = at /\ d.call = c /\ d.op = op /\ d.then = NoFile /\ d # Idle
      /\ d = [at |-> d.at, call |-> d.call, op |-> d.op, then |-> d.then]
  BY DEF Idle
<1>7. at = IF op = NoOp THEN "open" ELSE "log first"
  OBVIOUS
<1> HIDE DEF op, at, d
<1>8. PathsOf(t)' = P
  <2>1. c.name \notin HandleCalls \cup {"rename", "mark"}
    BY <1>1 DEF HandleCalls
  <2> QED BY <2>1, <1>3, <1>6 DEF PathsOf, Uses
<1> HIDE DEF P
<1>9. P \subseteq Seq(Names) /\ P = {c.path}
  BY <1>1 DEF P
<1>10. \A q \in Reach(P) : q \in Seq(Names) /\ Sees(v, q) = Sees(real, q)
  BY <1>1, <1>2, <1>9, FreeAgrees
<1>11. p \in Reach(P)
  BY <1>1, <1>9, OnWayOrder DEF Reach
<1>12. CallOK(d, P, real)
  BY <1>1, <1>5, <1>6, <1>7, <1>9 DEF CallOK, OpOK
<1>13. Agrees(d, P, v, real)
  BY <1>5, <1>6, <1>7, <1>10, <1>11 DEF Agrees
<1>14. Kept(v') /\ Disk(real') /\ Grows(real', real) /\ HandleOK(file'[t], real')
  BY <1>3, <1>4, DiskIsKept DEF RecorderInv, Grows
<1>15. \A u \in Busy : ~Conflict(P, PathsOf(u))
  BY <1>1, <1>2
<1>16. Turn(t, P)
  BY <1>2, <1>3, <1>4, <1>6, <1>8, <1>9, <1>12, <1>13, <1>14, <1>15 DEF Turn
<1> QED BY <1>1, <1>16

\* The op is logged: the view shows what the disk will.
LEMMA LogFirstTurn ==
    ASSUME RecorderInv, NEW t \in Threads, LogFirst(t)
    PROVE  Turn(t, PathsOf(t))
<1> DEFINE P == PathsOf(t)
           d == doing[t]
           p == d.call.path
           d2 == [d EXCEPT !.at = "open"]
<1>1. d.at = "log first" /\ d # Idle
  <2>1. d.at = "log first"
    BY DEF LogFirst
  <2> HIDE DEF d
  <2>2. Idle.at = "idle"
    BY DEF Idle
  <2> QED BY <2>1, <2>2
<1>2. /\ t \in Busy /\ CallOK(d, P, real) /\ P \subseteq Seq(Names)
      /\ \A u \in Busy : u # t => ~Conflict(P, PathsOf(u))
      /\ ~failed => Agrees(d, P, v, real)
  BY <1>1, BusyCall
<1>3. /\ OpOK(d.op, P) /\ CompileOp(d.op) /\ P = {p} /\ p \in Seq(Names)
      /\ d.call.name \in {"create", "append"}
      /\ d = [at |-> d.at, call |-> d.call, op |-> d.op, then |-> d.then]
  BY <1>1, <1>2 DEF CallOK, LogFirst
<1>4. /\ PerThread' /\ doing'[t] = d2 /\ file'[t] = file[t] /\ real' = real
      /\ \A u \in Threads : u # t => doing'[u] = doing[u] /\ file'[u] = file[u]
  BY DEF LogFirst, disk, RecorderInv, PerThread
<1> HIDE DEF d
<1>5. d2.at = "open" /\ d2.call = d.call /\ d2.op = d.op /\ d2.then = d.then
  BY <1>3
<1>6. d2 = [at |-> d2.at, call |-> d2.call, op |-> d2.op, then |-> d2.then]
  BY <1>3
<1>7. d2 # Idle
  BY <1>5 DEF Idle
<1>8. PathsOf(t)' = {p}
  <2>1. d.call.name \notin HandleCalls \cup {"rename", "mark"}
    BY <1>3 DEF HandleCalls
  <2> QED BY <2>1, <1>4, <1>5 DEF PathsOf, Uses
<1>9. P = PathsOf(t)
  OBVIOUS
<1> HIDE DEF P, d2
<1>10. CallOK(d2, P, real)
  BY <1>2, <1>3, <1>5, <1>6 DEF CallOK
<1>11. /\ ~failed /\ Kept(v')
       /\ ~failed' => /\ HasEffect(d.op, v, v')
                      /\ d.op.op = "truncate" => Sees(v, d.op.path).kind = "file"
                      /\ \A q \in Seq(Names) : q \notin Reach(P) => Sees(v', q) = Sees(v, q)
  BY <1>3, LogIsLocal
<1>12. /\ \A q \in Reach(P) : q \in Seq(Names) /\ Sees(v, q) = Sees(real, q)
       /\ FirstOp(d.call.name, d.op, Sees(real, p)) /\ p \in Reach(P)
  BY <1>1, <1>2, <1>3, <1>11, OnWayOrder DEF Agrees, Reach
<1>13. d.op.path = p /\ d.op.op \in {"create", "truncate"}
  BY <1>3, <1>12 DEF FirstOp, OpOK, OpPaths
<1>14. ASSUME ~failed', NEW q \in Reach(P), q # p PROVE Sees(v', q) = Sees(real, q)
  <2>1. Sees(v', q) = Effect(d.op, v, q) /\ Sees(v, q) = Sees(real, q)
    BY <1>11, <1>12, <1>14 DEF HasEffect
  <2> QED BY <1>13, <1>14, <2>1 DEF Effect
<1>15. ASSUME ~failed' PROVE Openable(d.call.name, Sees(v', p), Sees(real, p))
  <2>1. Sees(v', p) = Effect(d.op, v, p) /\ Sees(v, p) = Sees(real, p)
    BY <1>3, <1>11, <1>12, <1>15 DEF HasEffect
  <2>2. CASE d.op.op = "create"
    <3>1. Sees(real, p) = Nothing /\ Sees(v', p) = FileEntry(<<>>)
      BY <1>12, <1>13, <2>1, <2>2 DEF FirstOp, Effect
    <3>2. Nothing.kind = "nothing" /\ FileEntry(<<>>) # Nothing
      BY DEF Nothing, FileEntry
    <3> QED BY <3>1, <3>2 DEF Openable
  <2>3. CASE d.op.op = "truncate"
    <3>1. d.op.len = 0 /\ d.call.name = "create" /\ Sees(real, p).kind = "file"
      BY <1>11, <1>12, <1>13, <1>15, <2>1, <2>3 DEF FirstOp
    <3>2. Sees(v', p) = FileEntry(<<>>)
      BY <1>13, <2>1, <2>3, <3>1, FitEmpty DEF Effect
    <3> QED BY <3>1, <3>2 DEF Openable
  <2> QED BY <1>13, <2>2, <2>3
<1>16. ~failed' => Agrees(d2, P, v', real)
  BY <1>5, <1>14, <1>15 DEF Agrees
<1>17. Disk(real') /\ Grows(real', real) /\ HandleOK(file'[t], real')
  BY <1>4, DiskIsKept DEF RecorderInv, Grows
<1>18. Turn(t, P)
  BY <1>2, <1>3, <1>4, <1>7, <1>8, <1>9, <1>10, <1>11, <1>16, <1>17 DEF Turn
<1> QED BY <1>9, <1>18

\* What an open leaves on disk: what the view showed before it.
OpenShows(p, x, f) ==
    /\ Disk(x) /\ Grows(x, real) /\ HandleOK(f, x)
    /\ \A q \in Seq(Names) : q # p => Sees(x, q) = Sees(real, q)
    /\ ~failed => Sees(x, p) = Sees(v, p)

\* The handle that create or append returns.
OpenedFile(name, p, ino, len) ==
    IF name = "create" THEN RecFile(p, ino, 0, 0, FALSE) ELSE RecFile(p, ino, len, len, TRUE)

LEMMA OpenedIsOK ==
    ASSUME NEW name, NEW p \in Seq(Names), NEW x, NEW ino \in 1..Len(x), x[ino].kind = "file",
           NEW len \in Nat
    PROVE  HandleOK(OpenedFile(name, p, ino, len), x)
<1> DEFINE f == OpenedFile(name, p, ino, len)
<1>1. /\ f.path = p /\ f.ino = ino /\ f.pos \in Nat /\ f.len \in Nat
      /\ f = RecFile(f.path, f.ino, f.pos, f.len, f.append)
  BY DEF OpenedFile, RecFile
<1> HIDE DEF f
<1>2. HandleOK(f, x)
  BY <1>1 DEF HandleOK
<1> QED BY <1>2 DEF f

\* The open of a file that is there.
LEMMA OpenExisting ==
    ASSUME RecorderInv, NEW p \in Seq(Names), NEW name \in {"create", "append"},
           NEW ino, ino = Lookup(real, p), IsFile(real, ino),
           ~failed => Openable(name, Sees(v, p), Sees(real, p))
    PROVE  OpenShows(p, IF name = "create" THEN Sized(real, ino, 0) ELSE real,
                     OpenedFile(name, p, ino, real[ino].len))
<1> DEFINE x == IF name = "create" THEN Sized(real, ino, 0) ELSE real
           f == OpenedFile(name, p, ino, real[ino].len)
<1>1. /\ Disk(real) /\ ino \in 1..Len(real) /\ Len(real) \in Nat /\ real[ino].kind = "file"
      /\ Sees(real, p) = FileEntry(Content(real[ino]))
  BY SeesIs DEF RecorderInv, Disk, IsFile, NoIno
<1>2. real[ino].len \in Nat
  BY <1>1 DEF Disk, FilesWhole, Whole, TypedFile
<1>3. FileEntry(Content(real[ino])) # Nothing
  BY DEF FileEntry, Nothing
<1>4. CASE name = "create"
  <2>1. /\ Disk(x) /\ Grows(x, real)
        /\ \A q \in Seq(Names) :
              Sees(x, q) = IF q = p THEN FileEntry(Paths!Fit(Sees(real, q).data, 0)) ELSE Sees(real, q)
    <3>1. x = Sized(real, ino, 0)
      BY <1>4
    <3> HIDE DEF x
    <3> QED BY <1>1, <3>1, SizedShows
  <2>2. ino \in 1..Len(x) /\ x[ino].kind = "file"
    BY <1>1, <2>1 DEF Grows
  <2> HIDE DEF x
  <2>3. HandleOK(f, x)
    BY <1>2, <2>2, OpenedIsOK
  <2>4. Sees(x, p) = FileEntry(<<>>)
    BY <2>1, FitEmpty
  <2>5. ~failed => Sees(v, p) = FileEntry(<<>>)
    BY <1>4 DEF Openable
  <2>6. OpenShows(p, x, f)
    BY <2>1, <2>3, <2>4, <2>5 DEF OpenShows
  <2> QED BY <2>6 DEF x
<1>5. CASE name = "append"
  <2>1. x = real /\ Grows(real, real)
    BY <1>1, <1>5 DEF Grows
  <2> HIDE DEF x
  <2>2. HandleOK(f, x)
    BY <1>1, <1>2, <2>1, OpenedIsOK
  <2>3. ~failed => Sees(v, p) = Sees(real, p)
    BY <1>1, <1>3, <1>5 DEF Openable
  <2>4. OpenShows(p, x, f)
    BY <1>1, <2>1, <2>2, <2>3 DEF OpenShows
  <2> QED BY <2>4 DEF x
<1> QED BY <1>4, <1>5

\* The open of a file that is not.
LEMMA OpenNew ==
    ASSUME RecorderInv, NEW p \in Seq(Names), NEW name \in {"create", "append"}, CanMake(real, p),
           ~failed => Openable(name, Sees(v, p), Sees(real, p))
    PROVE  OpenShows(p, Made(real, p, EmptyFile), OpenedFile(name, p, Len(real) + 1, 0))
<1> DEFINE x == Made(real, p, EmptyFile)
           f == OpenedFile(name, p, Len(real) + 1, 0)
<1>1. Disk(real) /\ Len(real) \in Nat
  BY DiskIsKept DEF RecorderInv
<1>2. /\ Disk(x) /\ Grows(x, real) /\ Len(x) = Len(real) + 1 /\ x[Len(real) + 1] = EmptyFile
      /\ Sees(real, p) = Nothing
      /\ \A q \in Seq(Names) : Sees(x, q) = IF q = p THEN NodeEntry(EmptyFile) ELSE Sees(real, q)
  BY <1>1, MadeShows
<1>3. EmptyFile.kind = "file"
  BY DEF EmptyFile, File
<1> HIDE DEF x
<1>4. HandleOK(f, x)
  <2>1. Len(real) + 1 \in 1..Len(x) /\ x[Len(real) + 1].kind = "file"
    BY <1>1, <1>2, <1>3
  <2> QED BY <2>1, OpenedIsOK
<1>5. Sees(x, p) = FileEntry(<<>>)
  <2>1. NodeEntry(EmptyFile) = FileEntry(<<>>)
    BY NewEntry
  <2> QED BY <1>2, <2>1
<1>6. ~failed => Sees(v, p) = FileEntry(<<>>)
  BY <1>2 DEF Openable
<1>7. OpenShows(p, x, f)
  BY <1>2, <1>4, <1>5, <1>6 DEF OpenShows
<1> QED BY <1>7 DEF x

\* A path that shows in the view and not on disk can be made there: the directory
\* it lies in is no other call's.
LEMMA OpenIsPossible ==
    ASSUME RecorderInv, ~failed, NEW t \in Busy, NEW p \in Seq(Names), PathsOf(t) = {p},
           Sees(real, p) = Nothing, Sees(v, p) # Nothing
    PROVE  CanMake(real, p)
<1> DEFINE dir == Parent(p)
<1>1. Treelike(real) /\ Treelike(v)
  BY DEF RecorderInv, Disk, Kept
<1>2. p # <<>> /\ Lookup(real, p) = NoIno
  <2>1. Sees(real, <<>>) = DirEntry /\ (Lookup(real, p) = NoIno <=> Sees(real, p) = Nothing)
    BY <1>1, SeesIs
  <2>2. DirEntry # Nothing
    BY DEF DirEntry, Nothing
  <2> QED BY <2>1, <2>2
<1>3. dir \in Seq(Names) /\ Sees(v, dir).kind = "dir"
  BY <1>1, <1>2, ParentSeen
<1>4. ASSUME NEW u \in Busy PROVE dir \notin Reach(PathsOf(u))
  <2>1. CASE u = t
    <3>1. p = Append(dir, BaseName(p)) /\ BaseName(p) \in Names
      BY <1>2, PathEnds
    <3>2. ~OnWay(p, dir)
      BY <1>3, <3>1 DEF OnWay
    <3> QED BY <2>1, <3>2 DEF Reach
  <2>2. CASE u # t
    <3>1. ~Conflict({p}, PathsOf(u)) /\ PathsOf(u) \subseteq Seq(Names)
      BY <1>4, <2>2 DEF RecorderInv, Apart, CallOK
    <3>2. {p} \subseteq Seq(Names) /\ p \in {p}
      OBVIOUS
    <3> QED BY <1>2, <3>1, <3>2, ApartReach
  <2> QED BY <2>1, <2>2
<1>5. Sees(v, dir) = Sees(real, dir)
  BY <1>3, <1>4 DEF RecorderInv, Elsewhere
<1>6. IsDir(real, Lookup(real, dir))
  BY <1>1, <1>3, <1>5, SeesIs
<1> QED BY <1>2, <1>6 DEF CanMake

\* The file is opened: the disk shows at its path what the view does.
LEMMA OpenAfterLogTurn ==
    ASSUME ~OpenMayFail, RecorderInv, NEW t \in Threads, OpenAfterLog(t)
    PROVE  Turn(t, PathsOf(t))
<1> DEFINE P == PathsOf(t)
           d == doing[t]
           name == d.call.name
           p == d.call.path
           ino == Lookup(real, p)
<1>1. d.at = "open" /\ d # Idle
  <2>1. d.at = "open"
    BY DEF OpenAfterLog
  <2> HIDE DEF d
  <2>2. Idle.at = "idle"
    BY DEF Idle
  <2> QED BY <2>1, <2>2
<1>2. /\ t \in Busy /\ CallOK(d, P, real) /\ P \subseteq Seq(Names)
      /\ \A u \in Busy : u # t => ~Conflict(P, PathsOf(u))
      /\ ~failed => Agrees(d, P, v, real)
  BY <1>1, BusyCall
<1>3. P = {p} /\ p \in Seq(Names) /\ name \in {"create", "append"}
  BY <1>1, <1>2 DEF CallOK
<1>4. ~failed => /\ \A q \in Reach(P) : q # p => Sees(v, q) = Sees(real, q)
                 /\ Openable(name, Sees(v, p), Sees(real, p))
  BY <1>1, <1>2 DEF Agrees
<1>5. /\ PerThread' /\ doing'[t] = Idle /\ v' = v /\ failed' = failed
      /\ \A u \in Threads : u # t => doing'[u] = doing[u] /\ file'[u] = file[u]
  BY DEF OpenAfterLog, vars, disk, RecorderInv, PerThread
<1>6. \/ /\ IsFile(real, ino)
         /\ real' = IF name = "create" THEN Sized(real, ino, 0) ELSE real
         /\ file'[t] = OpenedFile(name, p, ino, real[ino].len)
      \/ /\ CanMake(real, p) /\ real' = Made(real, p, EmptyFile)
         /\ file'[t] = OpenedFile(name, p, Len(real) + 1, 0)
      \/ ~IsFile(real, ino) /\ ~CanMake(real, p) /\ real' = real /\ file'[t] = file[t]
  BY DEF OpenAfterLog, OpenedFile, disk, RecorderInv, PerThread
<1>7. P = PathsOf(t)
  OBVIOUS
<1> HIDE DEF P, d, name, p, ino
<1>8. OpenShows(p, real', file'[t])
  <2>1. CASE IsFile(real, ino) /\ real' = (IF name = "create" THEN Sized(real, ino, 0) ELSE real)
             /\ file'[t] = OpenedFile(name, p, ino, real[ino].len)
    <3>1. ino = Lookup(real, p)
      BY DEF ino
    <3> QED BY <1>3, <1>4, <2>1, <3>1, OpenExisting
  <2>2. CASE CanMake(real, p) /\ real' = Made(real, p, EmptyFile)
             /\ file'[t] = OpenedFile(name, p, Len(real) + 1, 0)
    BY <1>3, <1>4, <2>2, OpenNew
  <2>3. CASE ~IsFile(real, ino) /\ ~CanMake(real, p) /\ real' = real /\ file'[t] = file[t]
    <3>1. Disk(real) /\ Grows(real, real) /\ HandleOK(file[t], real)
      BY DiskIsKept DEF RecorderInv, Grows
    <3>2. ASSUME ~failed PROVE Sees(real, p) = Sees(v, p)
      <4>1. Sees(real, p) = Nothing => Sees(v, p) = Nothing
        BY <1>2, <1>3, <1>7, <2>3, <3>2, OpenIsPossible
      <4>2. Sees(real, p).kind # "file" /\ (Sees(real, p).kind = "nothing" <=> Sees(real, p) = Nothing)
        BY <1>3, <2>3, <3>1, SeesIs DEF Disk, ino
      <4>3. FileEntry(<<>>) # Nothing
        BY DEF FileEntry, Nothing
      <4> QED BY <1>3, <1>4, <3>2, <4>1, <4>2, <4>3 DEF Openable
    <3> QED BY <2>3, <3>1, <3>2 DEF OpenShows
  <2> QED BY <1>6, <2>1, <2>2, <2>3
<1>9. Kept(v') /\ Disk(real') /\ Grows(real', real) /\ HandleOK(file'[t], real')
  BY <1>5, <1>8 DEF RecorderInv, OpenShows
<1>10. p \in Reach(P)
  BY <1>3, OnWayOrder DEF Reach
<1>11. ASSUME NEW q \in Seq(Names), q \notin Reach(P) PROVE Sees(real', q) = Sees(real, q)
  BY <1>8, <1>10, <1>11 DEF OpenShows
<1>12. ASSUME ~failed', NEW q \in Reach(P) PROVE Sees(v', q) = Sees(real', q)
  <2>1. q \in Seq(Names)
    BY <1>12 DEF Reach
  <2> QED BY <1>4, <1>5, <1>8, <1>12, <2>1 DEF OpenShows
<1>13. Turn(t, P)
  BY <1>2, <1>5, <1>7, <1>9, <1>11, <1>12 DEF Turn
<1> QED BY <1>7, <1>13

\* The image of the snapshot shows the snapshot.
LEMMA InitRecorderInv == RecorderInit => RecorderInv
<1> SUFFICES ASSUME RecorderInit PROVE RecorderInv
  OBVIOUS
<1>1. Init /\ v = base /\ real = base
  BY DEF RecorderInit, Init
<1>2. Kept(v)
  BY <1>1, InitShows
<1>3. Disk(real)
  <2>1. PICK tree \in InitialTrees : base = FromTree(tree)
    BY <1>1 DEF Init
  <2>2. /\ IsFiniteSet(DOMAIN tree) /\ DOMAIN tree \subseteq Seq(Names) /\ IsSnapshot(tree)
        /\ \A p \in DOMAIN tree : tree[p].kind # "dir" => tree[p].data \in Seq(Nat)
    BY PathsAssumption, BytesAssumption, TreesAssumption
  <2>3. FilesWhole(base)
    BY <2>1, <2>2, FromTreeIsImage
  <2> QED BY <1>1, <1>2, <2>3 DEF Disk, Kept
<1>4. /\ file = [t \in Threads |-> NoFile] /\ doing = [t \in Threads |-> Idle]
  BY DEF RecorderInit
<1>5. PerThread /\ Busy = {} /\ \A t \in Threads : file[t] = NoFile
  BY <1>4 DEF PerThread, Busy
<1> QED BY <1>1, <1>2, <1>3, <1>5 DEF RecorderInv, Apart, Elsewhere, HandleOK

\* When no call is under way, the log and the disk show the same.
LEMMA InvLogIsReal == RecorderInv => LogIsReal
<1> SUFFICES ASSUME RecorderInv, Busy = {}, ~failed PROVE ToTree(v) = ToTree(real)
  BY DEF LogIsReal, AtRest
<1>1. \A q \in Seq(Names) : Sees(v, q) = Sees(real, q)
  BY DEF RecorderInv, Elsewhere
<1>2. Kept(v) /\ Kept(real)
  BY DiskIsKept DEF RecorderInv
<1>3. PathTree(v) = PathTree(real)
  BY <1>1, <1>2, SameSeen DEF Kept
<1> QED BY <1>2, <1>3, KeptTree

\* Every step is the turn of a thread.
LEMMA StepIsTurn ==
    ASSUME ~OpenMayFail, WritesSomething, RecorderInv, RecorderNext
    PROVE  \E t \in Threads : \E P : Turn(t, P)
<1>1. PICK t \in Threads : (\E c \in Calls : Start(t, c)) \/ LogFirst(t) \/ OpenAfterLog(t) \/ LogAndReturn(t)
  BY DEF RecorderNext
<1>2. CASE \E c \in Calls : Start(t, c)
  <2>1. PICK c \in Calls : Start(t, c)
    BY <1>2
  <2>2. MayStart(t, c)
    BY <2>1 DEF Start
  <2>3. CASE MarkNow(t, c)
    BY <2>2, <2>3, MarkTurn
  <2>4. CASE Perform(t, c) /\ UNCHANGED vars
    <3>1. CASE Rename1(t, c)
      BY <2>2, <2>4, <3>1, RenameTurn
    <3>2. CASE RemoveFile(t, c) \/ RemoveDir(t, c)
      BY <2>2, <2>4, <3>2, RemoveTurn
    <3>3. CASE CreateDir(t, c)
      BY <2>2, <2>4, <3>3, CreateDirTurn
    <3>4. CASE SyncDir(t, c) \/ SyncFile(t, c)
      BY <2>2, <2>4, <3>4, SyncTurn
    <3>5. CASE WriteFile(t, c)
      BY <2>2, <2>4, <3>5, WriteTurn
    <3>6. CASE SetLen1(t, c)
      BY <2>2, <2>4, <3>6, SetLenTurn
    <3>7. CASE Look(t, c)
      BY <2>2, <2>4, <3>7, LookTurn
    <3>8. CASE Open(t, c) \/ Seek(t, c)
      BY <2>2, <2>4, <3>8, OpenTurn
    <3> QED BY <2>4, <3>1, <3>2, <3>3, <3>4, <3>5, <3>6, <3>7, <3>8 DEF Perform
  <2> QED BY <2>1, <2>3, <2>4 DEF Start
<1>3. CASE LogFirst(t)
  BY <1>3, LogFirstTurn
<1>4. CASE OpenAfterLog(t)
  BY <1>4, OpenAfterLogTurn
<1>5. CASE LogAndReturn(t)
  BY <1>5, LogAndReturnTurn
<1> QED BY <1>1, <1>2, <1>3, <1>4, <1>5

LEMMA NextRecorderInv ==
    ASSUME ~OpenMayFail, WritesSomething, RecorderInv, [RecorderNext]_recorderVars
    PROVE  RecorderInv'
<1>1. CASE RecorderNext
  <2>1. PICK t \in Threads : \E P : Turn(t, P)
    BY <1>1, StepIsTurn
  <2>2. PICK P : Turn(t, P)
    BY <2>1
  <2> QED BY <2>2, TurnKeepsInv
<1>2. CASE UNCHANGED recorderVars
  <2>1. v' = v /\ failed' = failed /\ real' = real /\ file' = file /\ doing' = doing
    BY <1>2 DEF recorderVars, vars, disk
  <2>2. Busy' = Busy /\ \A t \in Threads : PathsOf(t)' = PathsOf(t)
    BY <2>1 DEF Busy, PathsOf, Uses
  <2> QED BY <2>1, <2>2 DEF RecorderInv, PerThread, Apart, Elsewhere, Busy
<1> QED BY <1>1, <1>2

\* Of any threads that order their conflicting calls, whatever they interleave
\* between doing a call and logging it (Recorder): when none is in a call, the
\* log replayed on the snapshot is the directory on disk, names, contents and
\* lengths.  Opens that the log promised succeed, and no write is of no bytes.
THEOREM RecordedIsReal ==
    ASSUME ~OpenMayFail, WritesSomething
    PROVE  RecorderSpec => []LogIsReal
<1>1. RecorderInv /\ [RecorderNext]_recorderVars => RecorderInv'
  BY NextRecorderInv
<1> QED BY InitRecorderInv, <1>1, InvLogIsReal, PTL DEF RecorderSpec

-----------------------------------------------------------------------------
(* What the log says is durable was synced *)

\* No data of inode i is in flight.
Flushed(M, i) ==
    \A j \in DOMAIN M : IsData(M[j].m) /\ M[j].m.ino = i => M[j].durable_at # NEVER

\* The log has a file at r whose content is durable.
Due(x, M, r) == IsFile(x, Lookup(x, r)) /\ Flushed(M, Lookup(x, r))

\* If the log has at r a durable file, it is what was last synced of the file at q.
SyncedAs(x, M, y, s, r, q) ==
    IsFile(y, Lookup(y, q)) /\ Due(x, M, r) => Sees(x, r).data = s[Lookup(y, q)]

\* The file at q was not changed since it was synced.
Saved(y, s, q) == IsFile(y, Lookup(y, q)) => s[Lookup(y, q)] = Sees(y, q).data

\* Where the node at q was before op.
Source(op, q) ==
    IF op.op = "rename" /\ op.from # op.to /\ OnWay(op.to, q) THEN Taken(q, op.to, op.from) ELSE q

LEMMA SourceReach ==
    ASSUME NEW op, DirectoryOp(op), NEW q \in Seq(Names)
    PROVE  /\ Source(op, q) \in Seq(Names)
           /\ q \in Reach(OpPaths(op)) => Source(op, q) \in Reach(OpPaths(op))
           /\ q \notin Reach(OpPaths(op)) => Source(op, q) = q
<1>1. CASE op.op = "rename" /\ op.from # op.to /\ OnWay(op.to, q)
  <2>1. /\ op.from \in Seq(Names) /\ op.to \in Seq(Names)
        /\ op.from \in OpPaths(op) /\ op.to \in OpPaths(op)
    BY <1>1 DEF DirectoryOp, OpPaths
  <2>2. Taken(q, op.to, op.from) \in Seq(Names) /\ OnWay(op.from, Taken(q, op.to, op.from))
    BY <1>1, <2>1, TakenOf
  <2> QED BY <1>1, <2>1, <2>2 DEF Source, Reach
<1>2. CASE ~(op.op = "rename" /\ op.from # op.to /\ OnWay(op.to, q))
  BY <1>2 DEF Source
<1> QED BY <1>1, <1>2

\* A file of x is the one that fs has at its source, but for one that op created.
Carried(op, x, fs) ==
    \A q \in Seq(Names) :
       IsFile(x, Lookup(x, q)) /\ ~(op.op = "create" /\ q = op.path) =>
          /\ IsFile(fs, Lookup(fs, Source(op, q)))
          /\ Lookup(x, q) = Lookup(fs, Source(op, q))

SameKinds(x, fs) == \A i \in 1..Len(fs) : x[i].kind = fs[i].kind

LEMMA FileBefore ==
    ASSUME NEW fs, Treelike(fs), NEW x, SameKinds(x, fs), NEW r \in Seq(Names),
           IsFile(x, Lookup(fs, r))
    PROVE  IsFile(fs, Lookup(fs, r))
<1>1. Lookup(fs, r) \in 0..Len(fs) /\ Len(fs) \in Nat
  BY SeesIs
<1> QED BY <1>1 DEF SameKinds, IsFile, NoIno

LEMMA GrownCarries ==
    ASSUME NEW fs, Treelike(fs), NEW op, op.op \in {"create", "mkdir"}, op.path \in Seq(Names),
           NEW node, op.op = "mkdir" => node = EmptyDir,
           NEW x, GrownAt(x, fs, op.path, node)
    PROVE  Carried(op, x, fs)
<1>1. SUFFICES ASSUME NEW q \in Seq(Names), IsFile(x, Lookup(x, q)), ~(op.op = "create" /\ q = op.path)
      PROVE  IsFile(fs, Lookup(fs, Source(op, q))) /\ Lookup(x, q) = Lookup(fs, Source(op, q))
  BY DEF Carried
<1>2. Source(op, q) = q
  BY DEF Source
<1>3. q # op.path
  <2>1. SUFFICES ASSUME q = op.path PROVE FALSE
    OBVIOUS
  <2>2. node = EmptyDir /\ Lookup(x, q) = Len(fs) + 1 /\ x[Len(fs) + 1] = node
    BY <1>1, <2>1 DEF GrownAt
  <2>3. x[Lookup(x, q)].kind = "dir"
    BY <2>2 DEF EmptyDir, Dir
  <2> QED BY <1>1, <2>3 DEF IsFile
<1>4. Lookup(x, q) = Lookup(fs, q) /\ SameKinds(x, fs)
  BY <1>3 DEF GrownAt, SameKinds
<1>5. IsFile(x, Lookup(fs, q))
  BY <1>1, <1>4
<1>6. IsFile(fs, Lookup(fs, q))
  BY <1>4, <1>5, FileBefore
<1> QED BY <1>2, <1>4, <1>6

LEMMA CutCarries ==
    ASSUME NEW fs, Treelike(fs), NEW op, op.op \in {"unlink", "rmdir"}, op.path \in Seq(Names),
           NEW x, CutAt(x, fs, op.path)
    PROVE  Carried(op, x, fs)
<1>1. SUFFICES ASSUME NEW q \in Seq(Names), IsFile(x, Lookup(x, q))
      PROVE  IsFile(fs, Lookup(fs, Source(op, q))) /\ Lookup(x, q) = Lookup(fs, Source(op, q))
  BY DEF Carried
<1>2. Source(op, q) = q /\ SameKinds(x, fs)
  BY DEF Source, CutAt, SameNodes, SameKinds
<1>3. Lookup(x, q) = Lookup(fs, q)
  BY <1>1 DEF CutAt, IsFile
<1> QED BY <1>1, <1>2, <1>3, FileBefore

LEMMA MoveCarries ==
    ASSUME NEW fs, Treelike(fs), NEW op, op.op = "rename", op.from # op.to,
           op.from \in Seq(Names), op.to \in Seq(Names), NEW x, MoveAt(x, fs, op.from, op.to)
    PROVE  Carried(op, x, fs)
<1>1. SUFFICES ASSUME NEW q \in Seq(Names), IsFile(x, Lookup(x, q))
      PROVE  IsFile(fs, Lookup(fs, Source(op, q))) /\ Lookup(x, q) = Lookup(fs, Source(op, q))
  BY DEF Carried
<1>2. SameKinds(x, fs)
  BY DEF MoveAt, SameNodes, SameKinds
<1>3. Lookup(x, q) = Lookup(fs, Source(op, q))
  BY <1>1 DEF MoveAt, IsFile, Source
<1>4. Source(op, q) \in Seq(Names)
  BY TakenOf DEF Source
<1> QED BY <1>1, <1>2, <1>3, <1>4, FileBefore

LEMMA SameCarries ==
    ASSUME NEW fs, Treelike(fs), NEW op, op.op = "rename" => op.from = op.to,
           NEW x, SameKinds(x, fs), \A q \in Seq(Names) : Lookup(x, q) = Lookup(fs, q)
    PROVE  Carried(op, x, fs)
<1>1. \A q : Source(op, q) = q
  BY DEF Source
<1> QED BY <1>1, FileBefore DEF Carried

\* On disk.
LEMMA MadeCarries ==
    ASSUME NEW fs, Disk(fs), NEW op, op.op \in {"create", "mkdir"}, op.path \in Seq(Names),
           CanMake(fs, op.path),
           NEW node, node = IF op.op = "mkdir" THEN EmptyDir ELSE EmptyFile,
           NEW x, x = Made(fs, op.path, node)
    PROVE  /\ Carried(op, x, fs) /\ Len(x) = Len(fs) + 1
           /\ \A q \in Seq(Names) : q # op.path => Lookup(x, q) = Lookup(fs, q)
           /\ Lookup(x, op.path) = Len(fs) + 1
<1>1. /\ Treelike(fs) /\ op.path # <<>> /\ Lookup(fs, op.path) = NoIno
      /\ IsDir(fs, Lookup(fs, Parent(op.path)))
  BY DEF Disk, CanMake
<1>2. node = EmptyDir \/ (node.kind = "file" /\ node = File(node.buf, node.len))
  BY NewEntry
<1>3. GrownAt(x, fs, op.path, node)
  BY <1>1, <1>2, PlantLooks DEF Made
<1>4. Carried(op, x, fs)
  BY <1>1, <1>3, GrownCarries
<1> QED BY <1>3, <1>4 DEF GrownAt

LEMMA RemovedCarries ==
    ASSUME NEW fs, Disk(fs), NEW op, op.op \in {"unlink", "rmdir"}, op.path \in Seq(Names),
           op.path # <<>>, Lookup(fs, op.path) # NoIno, NEW x, x = Removed(fs, op.path)
    PROVE  Carried(op, x, fs) /\ Len(x) = Len(fs)
<1>1. Treelike(fs)
  BY DEF Disk
<1>2. CutAt(x, fs, op.path)
  BY <1>1, CutLooks DEF Removed
<1> QED BY <1>1, <1>2, CutCarries DEF CutAt, SameNodes

LEMMA StillCarries ==
    ASSUME NEW fs, Disk(fs), NEW op, op.op = "rename" => op.from = op.to,
           NEW x, Grows(x, fs), SameWays(x, fs)
    PROVE  Carried(op, x, fs)
<1>1. Treelike(fs) /\ SameKinds(x, fs)
  BY DEF Disk, Grows, SameKinds
<1> QED BY <1>1, SameCarries DEF SameWays

LEMMA MovedCarries ==
    ASSUME NEW fs, Disk(fs), NEW op, op.op = "rename", op.from \in Seq(Names), op.to \in Seq(Names),
           CanMove(fs, op.from, op.to), NEW x, x = Moved(fs, op.from, op.to)
    PROVE  Carried(op, x, fs) /\ Len(x) = Len(fs)
<1>1. \/ op.from = op.to /\ x = fs
      \/ op.from # op.to /\ MoveAt(x, fs, op.from, op.to)
  BY MovedLooks
<1>2. CASE op.from = op.to /\ x = fs
  BY <1>2, StillCarries, DiskIsKept DEF Grows, SameWays
<1>3. CASE op.from # op.to /\ MoveAt(x, fs, op.from, op.to)
  BY <1>3, MoveCarries DEF Disk, MoveAt, SameNodes
<1> QED BY <1>1, <1>2, <1>3

\* In the log.
LEMMA CreateCarries ==
    ASSUME Kept(v), NEW op, DirectoryOp(op), CreateOrMkdir(op), ~failed'
    PROVE  Carried(op, v', v)
<1> DEFINE p == op.path
           node == IF op.op = "mkdir" THEN EmptyDir ELSE EmptyFile
           dir == Lookup(v, Parent(p))
           m == Link(dir, BaseName(p), Len(v) + 1)
<1>1. op.op \in {"create", "mkdir"} /\ p \in Seq(Names) /\ Treelike(v)
  BY DEF CreateOrMkdir, DirectoryOp, Kept
<1>2. \/ NoEffect
      \/ Lookup(v, p) = NoIno /\ IsDir(v, dir) /\ Emit(Append(v, node), <<m>>)
  BY DEF CreateOrMkdir, Err
<1>3. CASE NoEffect
  <2>1. v' = v
    BY <1>3, NoneFound
  <2> QED BY <1>1, <2>1, SameCarries DEF SameKinds
<1>4. CASE Lookup(v, p) = NoIno /\ IsDir(v, dir) /\ Emit(Append(v, node), <<m>>)
  <2>1. m.kind = "Link" /\ m.parent = dir /\ m.name = BaseName(p) /\ m.ino = Len(v) + 1
    BY DEF Link
  <2>2. /\ node = EmptyDir \/ (node.kind = "file" /\ node = File(node.buf, node.len))
        /\ op.op = "mkdir" => node = EmptyDir
    BY DEF EmptyDir, EmptyFile, File
  <2>3. p # <<>>
    BY <1>4, LookupRoot DEF Root, NoIno
  <2>4. Emit(Append(v, node), <<m>>)
    BY <1>4
  <2> HIDE DEF m, node
  <2>5. v' = Apply(Append(v, node), m)
    BY <2>4, ShortReplay DEF Emit
  <2>6. v' = SetEntry(Append(v, node), dir, BaseName(p), Len(v) + 1)
    BY <2>1, <2>5 DEF Apply
  <2>7. GrownAt(v', v, p, node)
    BY <1>1, <1>4, <2>2, <2>3, <2>6, PlantLooks
  <2> QED BY <1>1, <2>2, <2>7, GrownCarries
<1> QED BY <1>2, <1>3, <1>4

LEMMA UnlinkCarries ==
    ASSUME Kept(v), NEW op, DirectoryOp(op), UnlinkOrRmdir(op), ~failed'
    PROVE  Carried(op, v', v)
<1> DEFINE p == op.path
           dir == Lookup(v, Parent(p))
           m == Unlink(dir, BaseName(p))
<1>1. op.op \in {"unlink", "rmdir"} /\ p \in Seq(Names) /\ p # <<>> /\ Treelike(v)
  BY DEF UnlinkOrRmdir, DirectoryOp, Kept
<1>2. Lookup(v, p) # NoIno /\ Emit(v, <<m>>)
  BY DEF UnlinkOrRmdir, Err
<1>3. m.kind = "Unlink" /\ m.parent = dir /\ m.name = BaseName(p)
  BY DEF Unlink
<1> HIDE DEF m
<1>4. v' = Apply(v, m)
  BY <1>2, ShortReplay DEF Emit
<1>5. v' = SetEntry(v, dir, BaseName(p), NoIno)
  BY <1>3, <1>4 DEF Apply
<1>6. CutAt(v', v, p)
  BY <1>1, <1>2, <1>5, CutLooks
<1> QED BY <1>1, <1>6, CutCarries

LEMMA RenameCarries ==
    ASSUME Kept(v), NEW op, DirectoryOp(op), RenameOp(op), ~failed'
    PROVE  Carried(op, v', v)
<1> DEFINE from == op.from
           to == op.to
           tp == Lookup(v, Parent(to))
           m == Rename(Lookup(v, Parent(from)), BaseName(from), tp, BaseName(to),
                       Lookup(v, from), Lookup(v, to) # NoIno)
<1>1. /\ op.op = "rename" /\ from \in Seq(Names) /\ to \in Seq(Names)
      /\ from # <<>> /\ to # <<>> /\ Treelike(v)
  BY DEF RenameOp, DirectoryOp, Kept
<1>2. \/ NoEffect /\ Lookup(v, from) # NoIno /\ (from = to \/ Lookup(v, to) = Lookup(v, from))
      \/ /\ Lookup(v, from) # NoIno /\ from # to /\ ~Inside(from, to) /\ IsDir(v, tp)
         /\ Emit(v, <<m>>)
  BY DEF RenameOp, Err
<1>3. CASE NoEffect /\ Lookup(v, from) # NoIno /\ (from = to \/ Lookup(v, to) = Lookup(v, from))
  <2>1. v' = v
    BY <1>3, NoneFound
  <2>2. from = to
    BY <1>1, <1>3, SameInode
  <2> QED BY <1>1, <2>1, <2>2, SameCarries DEF SameKinds
<1>4. CASE /\ Lookup(v, from) # NoIno /\ from # to /\ ~Inside(from, to) /\ IsDir(v, tp)
           /\ Emit(v, <<m>>)
  <2>1. v' = Apply(v, m)
    BY <1>4, ShortReplay DEF Emit
  <2>2. Relinked(v', v, from, to)
    <3> DEFINE replaces == Lookup(v, to) # NoIno
    <3>1. m = Rename(Lookup(v, Parent(from)), BaseName(from), tp, BaseName(to),
                     Lookup(v, from), replaces)
      OBVIOUS
    <3> HIDE DEF m, replaces
    <3> QED BY <1>1, <1>4, <2>1, <3>1, RenameRelinks
  <2>3. ~OnWay(from, to)
    BY <1>1, <1>4, OnWayMeans
  <2>4. MoveAt(v', v, from, to)
    BY <1>1, <1>4, <2>2, <2>3, MoveLooks
  <2> QED BY <1>1, <1>4, <2>4, MoveCarries
<1> QED BY <1>2, <1>3, <1>4

\* A write and a truncation put data of their file in flight.
LEMMA DataEmits ==
    ASSUME NEW op, DirectoryOp(op), WriteOp(op) \/ Truncate(op), ~failed'
    PROVE  /\ op.op \in {"write", "truncate"} /\ op.path \in Seq(Names) /\ IsFile(v, Lookup(v, op.path))
           /\ \E ms : DataOps(ms, Lookup(v, op.path)) /\ Len(ms) \in Nat \ {0} /\ Emit(v, ms)
<1> DEFINE ino == Lookup(v, op.path)
<1>1. CASE WriteOp(op)
  <2> DEFINE ms == Chunks(ino, op.offset, op.data) \o Grown(ino, op.offset + Len(op.data))
  <2>1. /\ op.op = "write" /\ op.path \in Seq(Names)
        /\ op.offset \in Nat /\ op.data \in Seq(Nat) /\ op.data # <<>>
    BY <1>1 DEF WriteOp, DirectoryOp
  <2>2. IsFile(v, ino) /\ Emit(v, ms)
    BY <1>1 DEF WriteOp, Err, Grown
  <2>3. ms = Chunks(ino, op.offset, op.data) \o Grown(ino, op.offset + Len(op.data))
    OBVIOUS
  <2> HIDE DEF ms, ino
  <2>4. DataOps(ms, ino)
    BY <2>1, <2>3, PutsOps
  <2>5. PICK c : /\ Pieces(ms, c, ino, op.offset, op.data)
                 /\ EndsWith(ms, Len(ms), c, ino, v[ino].len, op.offset + Len(op.data))
    BY <2>1, <2>3, PutsOps
  <2>6. c \in Nat /\ c # 0
    <3>1. 1 \in 1..Len(op.data)
      BY <2>1
    <3>2. c \in Nat /\ \E k \in 1..c : Covers(ms[k], op.offset + 1)
      BY <2>5, <3>1 DEF Pieces
    <3> QED BY <3>2
  <2>7. Len(ms) \in Nat \ {0}
    <3> DEFINE more == op.offset + Len(op.data) > v[ino].len
    <3>1. IF more THEN Len(ms) = c + 1 ELSE Len(ms) = c
      BY <2>5 DEF EndsWith
    <3> HIDE DEF more
    <3> QED BY <2>6, <3>1
  <2>8. \E mt : DataOps(mt, ino) /\ Len(mt) \in Nat \ {0} /\ Emit(v, mt)
    BY <2>2, <2>4, <2>7
  <2> QED BY <2>1, <2>2, <2>8 DEF ino
<1>2. CASE Truncate(op)
  <2> DEFINE m == SetLen(ino, op.len, FALSE)
             ms == <<m>>
  <2>1. op.op = "truncate" /\ op.path \in Seq(Names)
    BY <1>2 DEF Truncate, DirectoryOp
  <2>2. IsFile(v, ino) /\ Emit(v, ms)
    BY <1>2 DEF Truncate, Err
  <2>3. ToFile(m, ino)
    BY DEF SetLen, ToFile
  <2> HIDE DEF m
  <2>4. ms \in Seq(Range(ms)) /\ Len(ms) = 1 /\ ms[1] = m
    BY ShortSeqs
  <2> HIDE DEF ms
  <2>5. DataOps(ms, ino) /\ Len(ms) \in Nat \ {0}
    BY <2>3, <2>4 DEF DataOps
  <2>6. \E mt : DataOps(mt, ino) /\ Len(mt) \in Nat \ {0} /\ Emit(v, mt)
    BY <2>2, <2>5
  <2> QED BY <2>1, <2>2, <2>6
<1> QED BY <1>1, <1>2

LEMMA DataCarries ==
    ASSUME Kept(v), NEW op, DirectoryOp(op), WriteOp(op) \/ Truncate(op), ~failed'
    PROVE  Carried(op, v', v)
<1> DEFINE ino == Lookup(v, op.path)
<1>1. op.op \in {"write", "truncate"} /\ op.path \in Seq(Names) /\ IsFile(v, ino)
  BY DataEmits
<1>2. PICK ms : DataOps(ms, ino) /\ Emit(v, ms)
  BY DataEmits
<1>3. IsImage(v) /\ ino \in 1..Len(v) /\ v[ino].kind = "file" /\ Treelike(v)
  BY <1>1, FileAt DEF Kept
<1> HIDE DEF ino
<1>4. OtherFile(v', v, ino)
  BY <1>2, <1>3, DataRun DEF Emit
<1>5. FileSet(v', v, ino, v'[ino])
  BY <1>3, <1>4, FileLooks DEF OtherFile
<1>6. SameKinds(v', v) /\ \A q \in Seq(Names) : Lookup(v', q) = Lookup(v, q)
  BY <1>5 DEF FileSet, SameKinds
<1> QED BY <1>1, <1>3, <1>6, SameCarries

LEMMA LogCarries ==
    ASSUME Kept(v), NEW op, DirectoryOp(op), CompileOp(op), ~failed'
    PROVE  Carried(op, v', v)
<1>1. CASE Fsync(op) \/ Sync(op) \/ Mark(op)
  <2>1. v' = v /\ op.op # "rename"
    BY <1>1 DEF Fsync, Sync, Mark, EndOp, Err
  <2> QED BY <2>1, SameCarries DEF SameKinds, Kept
<1> QED BY <1>1, CreateCarries, DataCarries, RenameCarries, UnlinkCarries DEF CompileOp

\* An op leaves the data of a file durable or not, but for an fsync of that file.
LEMMA LogDurable ==
    ASSUME TypeOK, PendingOK, profile # "ext4", NEW op, DirectoryOp(op), op.op # "sync",
           CompileOp(op), ~failed', NEW i, Flushed(micro', i),
           ~(op.op = "fsync" /\ i = Lookup(v, op.path))
    PROVE  Flushed(micro, i)
<1>1. OpIndex < MaxOps /\ ~Stops /\ PlacesData(op)
  BY DEF CompileOp, Stops, DirectoryOp, PlacesData
<1>2. CASE \/ CreateOrMkdir(op) \/ WriteOp(op) \/ Truncate(op) \/ RenameOp(op)
           \/ UnlinkOrRmdir(op)
  <2>1. PICK fs, ms : ms \in Seq(Range(ms)) /\ Emit(fs, ms)
    BY <1>1, <1>2, ChangesEmit DEF Emits
  <2>2. /\ DOMAIN micro' = 1..(Len(micro) + Len(ms)) /\ Len(ms) \in Nat
        /\ \A j \in DOMAIN micro : micro'[j] = micro[j]
    BY <2>1, EmitMicro
  <2>3. DOMAIN micro \subseteq DOMAIN micro'
    BY <2>2, TablesType
  <2> QED BY <2>2, <2>3 DEF Flushed
<1>3. CASE Fsync(op)
  <2> DEFINE ino == Lookup(v, op.path)
  <2>1. op.op = "fsync" /\ i # ino
    BY <1>3 DEF Fsync
  <2>2. Flush(FsyncList(ino))
    BY <1>1, <1>3, FsyncFlushes DEF Flushes
  <2> HIDE DEF ino
  <2>3. /\ DOMAIN micro' = DOMAIN micro
        /\ \A j \in DOMAIN micro :
              /\ micro'[j].m = micro[j].m
              /\ j \notin FsyncList(ino) => micro'[j].durable_at = micro[j].durable_at
    BY <2>2, FlushMicro
  <2>4. ASSUME NEW j \in DOMAIN micro, IsData(micro[j].m), micro[j].m.ino = i
        PROVE  j \notin FsyncList(ino)
    <3>1. FlushedWith(micro[j].m) = i
      BY <2>4 DEF FlushedWith
    <3>2. <<ino, j>> \notin pending_data \cup pending_dir
      <4>1. SUFFICES ASSUME <<ino, j>> \in pending_data \cup pending_dir PROVE FALSE
        OBVIOUS
      <4>2. <<ino, j>>[1] = FlushedWith(micro[<<ino, j>>[2]].m)
        BY <4>1 DEF PendingOK
      <4> QED BY <2>1, <3>1, <4>2
    <3>3. \A e \in pending_data \cup pending_dir : e[1] = ino => e[2] # j
      <4>1. ASSUME NEW e \in pending_data \cup pending_dir, e[1] = ino, e[2] = j PROVE FALSE
        <5>1. e[1] = FlushedWith(micro[e[2]].m)
          BY <4>1 DEF PendingOK
        <5> QED BY <2>1, <3>1, <4>1, <5>1
      <4> QED BY <4>1
    <3>4. JournalCommit = {}
      BY DEF JournalCommit
    <3> QED BY <3>3, <3>4 DEF FsyncList, ListedFor
  <2> QED BY <2>3, <2>4 DEF Flushed
<1>4. CASE Mark(op)
  BY <1>4 DEF Mark
<1>5. CASE Sync(op)
  BY <1>5 DEF Sync
<1> QED BY <1>2, <1>3, <1>4, <1>5 DEF CompileOp

LEMMA DataInFlight ==
    ASSUME TypeOK, NEW op, DirectoryOp(op), op.op \in {"write", "truncate"}, CompileOp(op), ~failed'
    PROVE  ~Flushed(micro', Lookup(v, op.path))
<1> DEFINE ino == Lookup(v, op.path)
<1>1. WriteOp(op) \/ Truncate(op)
  BY DEF CompileOp, CreateOrMkdir, RenameOp, UnlinkOrRmdir, Fsync, Sync, Mark
<1>2. PICK ms : DataOps(ms, ino) /\ Len(ms) \in Nat \ {0} /\ Emit(v, ms)
  BY <1>1, DataEmits
<1> DEFINE j == Len(micro) + 1
<1>3. /\ DOMAIN micro' = 1..(Len(micro) + Len(ms)) /\ Len(micro) \in Nat
      /\ \A k \in New(ms) : micro'[k] = [m |-> NewMicro(ms, k), op |-> OpIndex, durable_at |-> NEVER]
  BY <1>2, EmitMicro, TablesType DEF DataOps
<1>4. j \in New(ms) /\ j \in DOMAIN micro' /\ NewMicro(ms, j) = ms[1]
  BY <1>2, <1>3 DEF New, NewMicro
<1>5. IsData(ms[1]) /\ ms[1].ino = ino
  BY <1>2 DEF DataOps, ToFile, IsData
<1>6. micro'[j] = [m |-> ms[1], op |-> OpIndex, durable_at |-> NEVER]
  BY <1>3, <1>4
<1>7. micro'[j].m = ms[1] /\ micro'[j].durable_at = NEVER
  BY <1>6
<1> QED BY <1>4, <1>5, <1>7 DEF Flushed

\* What op leaves of a file is what was at its source.
LEMMA EffectOfFile ==
    ASSUME NEW op, NEW fs, NEW q, Effect(op, fs, q).kind = "file",
           ~(op.op \in {"create", "write", "truncate"} /\ q = op.path)
    PROVE  Effect(op, fs, q) = Sees(fs, Source(op, q))
<1>1. DirEntry.kind # "file" /\ Nothing.kind # "file"
  BY DEF DirEntry, Nothing
<1>2. CASE op.op = "rename"
  BY <1>1, <1>2 DEF Effect, Source
<1>3. CASE op.op # "rename"
  BY <1>1, <1>3 DEF Effect, Source
<1> QED BY <1>2, <1>3

\* What is durable after op was durable before it, but for what an fsync made so.
LEMMA LogDue ==
    ASSUME Kept(v), TypeOK, PendingOK, profile # "ext4", NEW op, DirectoryOp(op), op.op # "sync",
           CompileOp(op), ~failed', NEW q \in Seq(Names), Due(v', micro', q),
           ~(op.op = "create" /\ q = op.path)
    PROVE  /\ ~(op.op \in {"write", "truncate"} /\ q = op.path)
           /\ Sees(v', q).data = Sees(v, Source(op, q)).data
           /\ ~(op.op = "fsync" /\ q = op.path) => Due(v, micro, Source(op, q))
<1>1. IsFile(v', Lookup(v', q)) /\ Flushed(micro', Lookup(v', q))
  BY DEF Due
<1>2. IsFile(v, Lookup(v, Source(op, q))) /\ Lookup(v', q) = Lookup(v, Source(op, q))
  BY <1>1, LogCarries DEF Carried
<1>3. Source(op, q) \in Seq(Names) /\ Treelike(v)
  BY SourceReach DEF Kept
<1>4. ~(op.op \in {"write", "truncate"} /\ q = op.path)
  <2>1. SUFFICES ASSUME op.op \in {"write", "truncate"}, q = op.path PROVE FALSE
    OBVIOUS
  <2>2. Source(op, q) = op.path
    BY <2>1 DEF Source
  <2> QED BY <1>1, <1>2, <2>1, <2>2, DataInFlight
<1>5. Sees(v', q).data = Sees(v, Source(op, q)).data
  <2>1. Kept(v') /\ Sees(v', q) = Effect(op, v, q)
    BY LogHasEffect DEF HasEffect
  <2>2. Sees(v', q).kind = "file"
    BY <1>1, <2>1, SeesIs DEF Kept
  <2> QED BY <1>4, <2>1, <2>2, EffectOfFile
<1>6. ASSUME ~(op.op = "fsync" /\ q = op.path) PROVE Due(v, micro, Source(op, q))
  <2>1. ~(op.op = "fsync" /\ Lookup(v', q) = Lookup(v, op.path))
    <3>1. SUFFICES ASSUME op.op = "fsync", Lookup(v', q) = Lookup(v, op.path) PROVE FALSE
      OBVIOUS
    <3>2. Source(op, q) = q /\ op.path \in Seq(Names)
      BY <3>1 DEF Source, DirectoryOp
    <3>3. Lookup(v, q) # NoIno /\ Lookup(v, q) = Lookup(v, op.path)
      BY <1>2, <3>1, <3>2 DEF IsFile
    <3> QED BY <1>3, <1>6, <3>1, <3>2, <3>3, SameInode
  <2>2. Flushed(micro, Lookup(v', q))
    BY <1>1, <2>1, LogDurable
  <2> QED BY <1>2, <2>2 DEF Due
<1> QED BY <1>4, <1>5, <1>6

\* What is owed at q, on a path of the call d: a call that is still to be logged
\* has moved, synced or changed the file on disk.
Owed(d, x, M, y, s, q) ==
    IF d.at # "log" THEN SyncedAs(x, M, y, s, q, q)
    ELSE IF d.op.op = "fsync" /\ q = d.op.path THEN Saved(y, s, q)
    ELSE (d.op.op \in {"write", "truncate"} /\ q = d.op.path) \/ SyncedAs(x, M, y, s, Source(d.op, q), q)

\* The ops that are logged after they were done for real.
Changes == {"mkdir", "write", "truncate", "rename", "unlink", "rmdir", "fsync"}

AllSynced ==
    \A q \in Seq(Names) :
       (\A t \in Busy : q \notin Reach(PathsOf(t))) => SyncedAs(v, micro, real, synced, q, q)

\* The inductive invariant: a file that is durable in the log is on disk what it
\* was at its last sync, up to what the calls under way owe.
SyncInv ==
    /\ TypeOK /\ PendingOK /\ profile # "ext4"
    /\ synced \in Seq(Range(synced)) /\ Len(synced) = Len(real)
    /\ \A t \in Busy : doing[t].at = "log" => doing[t].op.op \in Changes
    /\ ~failed => AllSynced /\ \A t \in Busy : \A q \in Reach(PathsOf(t)) :
                                 Owed(doing[t], v, micro, real, synced, q)

\* What a turn of thread t at P owes leaves the other paths as they were.
LeavesSynced(P) ==
    \A q \in Seq(Names) \ Reach(P) :
       /\ \A r \in Seq(Names) \ Reach(P) :
             SyncedAs(v, micro, real, synced, r, q) => SyncedAs(v', micro', real', synced', r, q)
       /\ Saved(real, synced, q) => Saved(real', synced', q)

TablesKept ==
    /\ TypeOK' /\ PendingOK' /\ profile' = profile
    /\ synced' \in Seq(Range(synced')) /\ Len(synced') = Len(real')

Owes(t, P) ==
    /\ TablesKept
    /\ doing'[t] # Idle /\ doing'[t].at = "log" => doing'[t].op.op \in Changes
    /\ ~failed' =>
          /\ LeavesSynced(P)
          /\ doing'[t] = Idle => \A q \in Reach(P) : SyncedAs(v', micro', real', synced', q, q)
          /\ doing'[t] # Idle => \A q \in Reach(P) : Owed(doing'[t], v', micro', real', synced', q)

\* What a call owes does not change while its paths are left alone.
LEMMA OwedStays ==
    ASSUME NEW d, NEW P, NEW z, CallOK(d, P, z),
           NEW x, NEW M, NEW y, NEW s, NEW x2, NEW M2, NEW y2, NEW s2,
           \A q \in Reach(P) :
              /\ \A r \in Reach(P) : SyncedAs(x, M, y, s, r, q) => SyncedAs(x2, M2, y2, s2, r, q)
              /\ Saved(y, s, q) => Saved(y2, s2, q),
           NEW q \in Reach(P), Owed(d, x, M, y, s, q)
    PROVE  Owed(d, x2, M2, y2, s2, q)
<1>1. CASE d.at = "log"
  <2>1. DirectoryOp(d.op) /\ OpPaths(d.op) = P /\ q \in Seq(Names)
    BY <1>1 DEF CallOK, OpOK, Reach
  <2>2. Source(d.op, q) \in Reach(P)
    BY <2>1, SourceReach
  <2> QED BY <1>1, <2>2 DEF Owed
<1>2. CASE d.at # "log"
  BY <1>2 DEF Owed
<1> QED BY <1>1, <1>2

LEMMA SyncTurnKeeps ==
    ASSUME RecorderInv, SyncInv, NEW t \in Threads, NEW P, Turn(t, P), Owes(t, P)
    PROVE  SyncInv'
<1>1. \A u \in Threads : u # t => doing'[u] = doing[u] /\ PathsOf(u)' = PathsOf(u)
  BY DEF Turn, PathsOf, Uses
<1>2. \A u \in Threads : u # t => (u \in Busy' <=> u \in Busy)
  BY <1>1 DEF Busy
<1>3. t \in Busy' => PathsOf(t)' = P /\ doing'[t] # Idle
  BY DEF Busy, Turn
<1>4. ASSUME NEW u \in Busy', u # t
      PROVE  /\ u \in Busy /\ u \in Threads /\ PathsOf(u)' = PathsOf(u) /\ doing'[u] = doing[u]
             /\ CallOK(doing[u], PathsOf(u), real)
             /\ \A q \in Reach(PathsOf(u)) : q \in Seq(Names) \ Reach(P)
  <2>1. u \in Busy /\ u \in Threads
    BY <1>2, <1>4 DEF Busy
  <2>2. ~Conflict(P, PathsOf(u)) /\ P \subseteq Seq(Names)
    BY <1>4, <2>1 DEF Turn
  <2>3. CallOK(doing[u], PathsOf(u), real) /\ PathsOf(u) \subseteq Seq(Names)
    BY <2>1 DEF RecorderInv, CallOK
  <2>4. \A q \in Reach(PathsOf(u)) : q \in Seq(Names) \ Reach(P)
    BY <2>2, <2>3, ApartReach DEF Reach
  <2> QED BY <1>1, <1>4, <2>1, <2>3, <2>4
<1>5. TablesKept /\ profile' # "ext4"
  BY DEF Owes, TablesKept, SyncInv
<1>6. ASSUME NEW u \in Busy', doing'[u].at = "log" PROVE doing'[u].op.op \in Changes
  <2>1. CASE u = t
    BY <1>3, <1>6, <2>1 DEF Owes
  <2>2. CASE u # t
    BY <1>4, <1>6, <2>2 DEF SyncInv
  <2> QED BY <2>1, <2>2
<1>7. ASSUME ~failed' PROVE ~failed /\ LeavesSynced(P)
  BY <1>7 DEF Turn, Owes
<1>8. ASSUME ~failed', NEW u \in Busy', NEW q \in Reach(PathsOf(u)')
      PROVE  Owed(doing'[u], v', micro', real', synced', q)
  <2>1. CASE u = t
    BY <1>3, <1>8, <2>1 DEF Owes
  <2>2. CASE u # t
    <3>1. q \in Reach(PathsOf(u)) /\ Owed(doing[u], v, micro, real, synced, q)
      BY <1>4, <1>7, <1>8, <2>2 DEF SyncInv
    <3>2. \A k \in Reach(PathsOf(u)) :
             /\ \A r \in Reach(PathsOf(u)) :
                   SyncedAs(v, micro, real, synced, r, k) => SyncedAs(v', micro', real', synced', r, k)
             /\ Saved(real, synced, k) => Saved(real', synced', k)
      BY <1>4, <1>7, <1>8, <2>2 DEF LeavesSynced
    <3>3. Owed(doing[u], v', micro', real', synced', q)
      BY <1>4, <1>8, <2>2, <3>1, <3>2, OwedStays
    <3> QED BY <1>4, <1>8, <2>2, <3>3
  <2> QED BY <2>1, <2>2
<1>9. ASSUME ~failed', NEW q \in Seq(Names), \A u \in Busy' : q \notin Reach(PathsOf(u)')
      PROVE  SyncedAs(v', micro', real', synced', q, q)
  <2>1. CASE q \in Reach(P)
    <3>1. t \notin Busy'
      BY <1>3, <1>9, <2>1
    <3>2. doing'[t] = Idle
      BY <3>1 DEF Busy
    <3> QED BY <1>9, <2>1, <3>2 DEF Owes
  <2>2. CASE q \notin Reach(P)
    <3>1. ASSUME NEW u \in Busy PROVE q \notin Reach(PathsOf(u))
      <4>1. CASE u = t
        BY <2>2, <3>1, <4>1 DEF Turn
      <4>2. CASE u # t
        <5>1. u \in Threads /\ u \in Busy'
          BY <1>2, <3>1, <4>2 DEF Busy
        <5> QED BY <1>1, <1>9, <4>2, <5>1
      <4> QED BY <4>1, <4>2
    <3>2. SyncedAs(v, micro, real, synced, q, q)
      BY <1>7, <1>9, <3>1 DEF SyncInv, AllSynced
    <3> QED BY <1>7, <1>9, <2>2, <3>2 DEF LeavesSynced
  <2> QED BY <2>1, <2>2
<1>10. AllSynced' \/ failed'
  BY <1>9 DEF AllSynced
<1> QED BY <1>5, <1>6, <1>8, <1>10 DEF SyncInv, TablesKept

LEMMA SameTables ==
    ASSUME TypeOK, PendingOK, UNCHANGED vars
    PROVE  TypeOK' /\ PendingOK' /\ profile' = profile /\ micro' = micro /\ v' = v /\ failed' = failed
  BY DEF vars, pendings, TypeOK, PendingOK, OpIndex

\* On paths that no call is about, nothing is owed.
LEMMA FreeSynced ==
    ASSUME RecorderInv, SyncInv, ~failed, NEW P, P \subseteq Seq(Names),
           \A u \in Busy : ~Conflict(P, PathsOf(u))
    PROVE  \A q \in Reach(P) : SyncedAs(v, micro, real, synced, q, q)
<1>1. ASSUME NEW q \in Reach(P), NEW u \in Busy PROVE q \notin Reach(PathsOf(u))
  <2>1. PathsOf(u) \subseteq Seq(Names)
    BY <1>1 DEF RecorderInv, CallOK
  <2> QED BY <1>1, <2>1, ApartReach
<1>2. \A q \in Reach(P) : q \in Seq(Names)
  BY DEF Reach
<1> QED BY <1>1, <1>2 DEF SyncInv, AllSynced

\* What the real call leaves: the files it keeps were synced when they were, but
\* for one that it creates or syncs.
LeavesFiles(op) ==
    /\ Carried(op, real', real)
    /\ \A q \in Seq(Names) :
          IsFile(real', Lookup(real', q)) /\ ~(op.op \in {"create", "fsync"} /\ q = op.path) =>
             synced'[Lookup(real', q)] = synced[Lookup(real', q)]
    /\ op.op = "fsync" => Saved(real', synced', op.path)

\* A file that op carries is owed what it was owed at its source.
LEMMA CarriedSynced ==
    ASSUME NEW op, LeavesFiles(op), v' = v, micro' = micro, NEW q \in Seq(Names),
           ~(op.op = "create" /\ q = op.path), ~(op.op = "fsync" /\ q = op.path),
           NEW r, SyncedAs(v, micro, real, synced, r, Source(op, q))
    PROVE  SyncedAs(v', micro', real', synced', r, q)
<1>1. SUFFICES ASSUME IsFile(real', Lookup(real', q)), Due(v, micro, r)
      PROVE  Sees(v, r).data = synced'[Lookup(real', q)]
  BY DEF SyncedAs
<1>2. IsFile(real, Lookup(real, Source(op, q))) /\ Lookup(real', q) = Lookup(real, Source(op, q))
  BY <1>1 DEF LeavesFiles, Carried
<1>3. synced'[Lookup(real', q)] = synced[Lookup(real', q)]
  BY <1>1 DEF LeavesFiles
<1> QED BY <1>1, <1>2, <1>3 DEF SyncedAs

LEMMA CarriedSaved ==
    ASSUME NEW op, LeavesFiles(op), NEW q \in Seq(Names), Source(op, q) = q,
           ~(op.op = "create" /\ q = op.path), ~(op.op = "fsync" /\ q = op.path),
           Sees(real', q) = Sees(real, q), Saved(real, synced, q)
    PROVE  Saved(real', synced', q)
<1>1. SUFFICES ASSUME IsFile(real', Lookup(real', q))
      PROVE  synced'[Lookup(real', q)] = Sees(real', q).data
  BY DEF Saved
<1>2. IsFile(real, Lookup(real, q)) /\ Lookup(real', q) = Lookup(real, q)
  BY <1>1 DEF LeavesFiles, Carried
<1>3. synced'[Lookup(real', q)] = synced[Lookup(real', q)]
  BY <1>1 DEF LeavesFiles
<1> QED BY <1>1, <1>2, <1>3 DEF Saved

LEMMA PerformOwes ==
    ASSUME RecorderInv, SyncInv, NEW t \in Threads, NEW c, MayStart(t, c), NEW op, NEW then,
           Performed(t, c, op, then), UNCHANGED vars, Turn(t, Uses(t, c)),
           OpOK(op, Uses(t, c)), Uses(t, c) \subseteq Seq(Names), op.op \in Changes,
           LeavesFiles(op), synced' \in Seq(Range(synced')), Len(synced') = Len(real')
    PROVE  Owes(t, Uses(t, c))
<1> DEFINE P == Uses(t, c)
           d == [at |-> "log", call |-> c, op |-> op, then |-> then]
<1>1. /\ ~failed /\ \A u \in Busy : ~Conflict(P, PathsOf(u))
  BY StartIsFree
<1>2. doing'[t] = d
  BY DEF RecorderInv, PerThread, Performed
<1>3. d # Idle /\ d.at = "log" /\ d.op = op
  BY DEF Idle
<1>4. TypeOK' /\ PendingOK' /\ profile' = profile /\ micro' = micro /\ v' = v /\ failed' = failed
  BY SameTables DEF SyncInv
<1>5. \A q \in Reach(P) : q \in Seq(Names) /\ SyncedAs(v, micro, real, synced, q, q)
  BY <1>1, FreeSynced DEF Reach
<1>6. DirectoryOp(op) /\ OpPaths(op) = P /\ op.op # "create"
  BY DEF OpOK, Changes
<1>7. P = Uses(t, c) /\ Turn(t, P)
  OBVIOUS
<1> HIDE DEF P, d
<1>8. ASSUME NEW q \in Seq(Names), q \notin Reach(P) PROVE Source(op, q) = q /\ ~(op.op = "fsync" /\ q = op.path)
  <2>1. Source(op, q) = q
    BY <1>6, <1>8, SourceReach
  <2>2. op.op = "fsync" => op.path \in P
    BY <1>6 DEF OpPaths
  <2> QED BY <1>6, <1>8, <2>1, <2>2, OnWayOrder DEF Reach
<1>9. LeavesSynced(P)
  <2>1. ASSUME NEW q \in Seq(Names) \ Reach(P), NEW r, SyncedAs(v, micro, real, synced, r, q)
        PROVE  SyncedAs(v', micro', real', synced', r, q)
    BY <1>4, <1>6, <1>8, <2>1, CarriedSynced
  <2>2. ASSUME NEW q \in Seq(Names) \ Reach(P), Saved(real, synced, q)
        PROVE  Saved(real', synced', q)
    <3>1. Sees(real', q) = Sees(real, q)
      BY <1>1, <1>4, <1>7, <2>2 DEF Turn
    <3> QED BY <1>6, <1>8, <2>2, <3>1, CarriedSaved
  <2> QED BY <2>1, <2>2 DEF LeavesSynced
<1>10. ASSUME NEW q \in Reach(P) PROVE Owed(d, v', micro', real', synced', q)
  <2>1. CASE op.op = "fsync" /\ q = op.path
    BY <1>3, <2>1 DEF Owed, LeavesFiles
  <2>2. CASE ~(op.op = "fsync" /\ q = op.path)
    <3>1. q \in Seq(Names) /\ Source(op, q) \in Reach(P)
      BY <1>5, <1>6, <1>10, SourceReach
    <3>2. SyncedAs(v, micro, real, synced, Source(op, q), Source(op, q))
      BY <1>5, <3>1
    <3>3. SyncedAs(v', micro', real', synced', Source(op, q), q)
      BY <1>4, <1>6, <2>2, <3>1, <3>2, CarriedSynced
    <3> QED BY <1>3, <2>2, <3>3 DEF Owed
  <2> QED BY <2>1, <2>2
<1>11. TablesKept
  BY <1>4 DEF TablesKept
<1>12. Owes(t, P)
  BY <1>2, <1>3, <1>9, <1>10, <1>11 DEF Owes
<1> QED BY <1>7, <1>12

\* A call that leaves synced alone.
LEMMA SameSynced ==
    ASSUME SyncInv, synced' = synced, Len(real') = Len(real), NEW op, op.op # "fsync",
           Carried(op, real', real)
    PROVE  LeavesFiles(op) /\ synced' \in Seq(Range(synced')) /\ Len(synced') = Len(real')
  BY DEF SyncInv, LeavesFiles

LEMMA RenameOwes ==
    ASSUME RecorderInv, SyncInv, NEW t \in Threads, NEW c \in Calls, MayStart(t, c), Rename1(t, c),
           UNCHANGED vars
    PROVE  Owes(t, Uses(t, c))
<1> DEFINE op == [op |-> "rename", from |-> c.from, to |-> c.to]
<1>1. c.name = "rename" /\ c.from \in Seq(Names) /\ c.to \in Seq(Names) /\ CanMove(real, c.from, c.to)
  BY CallsAssumption DEF Rename1
<1>2. Disk(real) /\ real' = Moved(real, c.from, c.to) /\ synced' = synced
  BY DEF RecorderInv, Rename1
<1>3. op.op = "rename" /\ op.from = c.from /\ op.to = c.to
  OBVIOUS
<1>4. Performed(t, c, op, file[t])
  BY DEF Rename1
<1> HIDE DEF op
<1>5. Carried(op, real', real) /\ Len(real') = Len(real)
  BY <1>1, <1>2, <1>3, MovedCarries
<1>6. Uses(t, c) = {c.from, c.to}
  BY <1>1 DEF Uses, HandleCalls
<1>7. OpOK(op, Uses(t, c)) /\ Uses(t, c) \subseteq Seq(Names) /\ op.op \in Changes
  BY <1>1, <1>3, <1>6 DEF OpOK, DirectoryOp, OpPaths, CanMove, Changes
<1>8. LeavesFiles(op) /\ synced' \in Seq(Range(synced')) /\ Len(synced') = Len(real')
  BY <1>2, <1>3, <1>5, SameSynced
<1> QED BY <1>4, <1>7, <1>8, RenameTurn, PerformOwes

LEMMA RemoveOwes ==
    ASSUME RecorderInv, SyncInv, NEW t \in Threads, NEW c \in Calls, MayStart(t, c),
           RemoveFile(t, c) \/ RemoveDir(t, c), UNCHANGED vars
    PROVE  Owes(t, Uses(t, c))
<1> DEFINE op == [op |-> IF c.name = "remove_file" THEN "unlink" ELSE "rmdir", path |-> c.path]
<1>1. /\ c.name \in {"remove_file", "remove_dir"} /\ c.path \in Seq(Names)
      /\ c.path # <<>> /\ Lookup(real, c.path) # NoIno
  BY CallsAssumption DEF RemoveFile, RemoveDir, CanUnlink, CanRmdir, IsFile, IsDir
<1>2. Disk(real) /\ real' = Removed(real, c.path) /\ synced' = synced
  BY DEF RecorderInv, RemoveFile, RemoveDir
<1>3. op.op \in {"unlink", "rmdir"} /\ op.path = c.path
  OBVIOUS
<1>4. Performed(t, c, op, file[t])
  BY DEF RemoveFile, RemoveDir
<1> HIDE DEF op
<1>5. Carried(op, real', real) /\ Len(real') = Len(real)
  BY <1>1, <1>2, <1>3, RemovedCarries
<1>6. Uses(t, c) = {c.path}
  BY <1>1 DEF Uses, HandleCalls
<1>7. OpOK(op, Uses(t, c)) /\ Uses(t, c) \subseteq Seq(Names) /\ op.op \in Changes
  BY <1>1, <1>3, <1>6 DEF OpOK, DirectoryOp, OpPaths, Changes
<1>8. LeavesFiles(op) /\ synced' \in Seq(Range(synced')) /\ Len(synced') = Len(real')
  BY <1>2, <1>3, <1>5, SameSynced
<1> QED BY <1>4, <1>7, <1>8, RemoveTurn, PerformOwes

LEMMA AppendedTo ==
    ASSUME NEW s, s \in Seq(Range(s)), NEW x, NEW y, y = Append(s, x)
    PROVE  y \in Seq(Range(y)) /\ Len(y) = Len(s) + 1 /\ \A i \in 1..Len(s) : y[i] = s[i]
<1>1. y \in Seq(Range(s) \cup {x})
  OBVIOUS
<1>2. y \in Seq(Range(y))
  BY <1>1, SeqOfValues
<1> QED BY <1>2

LEMMA ReplacedAt ==
    ASSUME NEW s, s \in Seq(Range(s)), NEW i \in 1..Len(s), NEW x, NEW y, Refilled(y, s, i, x)
    PROVE  /\ y \in Seq(Range(y)) /\ Len(y) = Len(s) /\ y[i] = x
           /\ \A j \in 1..Len(s) : j # i => y[j] = s[j]
<1>1. y \in Seq(Range(s) \cup {x})
  BY DEF Refilled
<1>2. y \in Seq(Range(y))
  BY <1>1, SeqOfValues
<1> QED BY <1>2 DEF Refilled

\* A file that is made is no file that was synced.
LEMMA MadeSynced ==
    ASSUME RecorderInv, SyncInv, synced' = Append(synced, <<>>), Len(real') = Len(real) + 1
    PROVE  /\ synced' \in Seq(Range(synced')) /\ Len(synced') = Len(real')
           /\ \A i \in 1..Len(real) : synced'[i] = synced[i]
<1>1. synced \in Seq(Range(synced)) /\ Len(synced) = Len(real)
  BY DEF SyncInv
<1>2. PICK s : s = synced
  OBVIOUS
<1>3. PICK y : y = synced'
  OBVIOUS
<1>4. s \in Seq(Range(s)) /\ y = Append(s, <<>>)
  BY <1>1, <1>2, <1>3
<1>5. y \in Seq(Range(y)) /\ Len(y) = Len(s) + 1 /\ \A i \in 1..Len(s) : y[i] = s[i]
  BY <1>4, AppendedTo
<1> QED BY <1>1, <1>2, <1>3, <1>5

LEMMA CreateDirOwes ==
    ASSUME RecorderInv, SyncInv, NEW t \in Threads, NEW c \in Calls, MayStart(t, c), CreateDir(t, c),
           UNCHANGED vars
    PROVE  Owes(t, Uses(t, c))
<1> DEFINE op == [op |-> "mkdir", path |-> c.path]
<1>1. c.name = "create_dir" /\ c.path \in Seq(Names) /\ CanMake(real, c.path)
  BY CallsAssumption DEF CreateDir
<1>2. Disk(real) /\ real' = Made(real, c.path, EmptyDir) /\ synced' = Append(synced, <<>>)
  BY DEF RecorderInv, CreateDir
<1>3. op.op = "mkdir" /\ op.path = c.path
  OBVIOUS
<1>4. Performed(t, c, op, file[t])
  BY DEF CreateDir
<1> HIDE DEF op
<1>5. Carried(op, real', real) /\ Len(real') = Len(real) + 1
  <2> DEFINE node == EmptyDir
  <2>1. node = IF op.op = "mkdir" THEN EmptyDir ELSE EmptyFile
    BY <1>3
  <2> QED BY <1>1, <1>2, <1>3, <2>1, MadeCarries
<1>6. Uses(t, c) = {c.path}
  BY <1>1 DEF Uses, HandleCalls
<1>7. OpOK(op, Uses(t, c)) /\ Uses(t, c) \subseteq Seq(Names) /\ op.op \in Changes
  BY <1>1, <1>3, <1>6 DEF OpOK, DirectoryOp, OpPaths, Changes
<1>8. /\ synced' \in Seq(Range(synced')) /\ Len(synced') = Len(real')
      /\ \A i \in 1..Len(real) : synced'[i] = synced[i]
  BY <1>2, <1>5, MadeSynced
<1>9. ASSUME NEW q \in Seq(Names), IsFile(real', Lookup(real', q))
      PROVE  synced'[Lookup(real', q)] = synced[Lookup(real', q)]
  <2>1. IsFile(real, Lookup(real, Source(op, q))) /\ Lookup(real', q) = Lookup(real, Source(op, q))
    BY <1>3, <1>5, <1>9 DEF Carried
  <2>2. Source(op, q) = q
    BY <1>3 DEF Source
  <2>3. Lookup(real, q) \in 0..Len(real) /\ Len(real) \in Nat
    BY <1>2, <1>9, SeesIs DEF Disk
  <2>4. Lookup(real, q) \in 1..Len(real)
    BY <2>1, <2>2, <2>3 DEF IsFile, NoIno
  <2> QED BY <1>8, <2>1, <2>2, <2>4
<1>10. LeavesFiles(op)
  BY <1>3, <1>5, <1>9 DEF LeavesFiles
<1> QED BY <1>4, <1>7, <1>8, <1>10, CreateDirTurn, PerformOwes

LEMMA WriteOwes ==
    ASSUME WritesSomething, RecorderInv, SyncInv, NEW t \in Threads, NEW c \in Calls, MayStart(t, c),
           WriteFile(t, c), UNCHANGED vars
    PROVE  Owes(t, Uses(t, c))
<1> DEFINE f == file[t]
           p == f.path
           offset == Offset(f)
           op == [op |-> "write", path |-> p, offset |-> offset, data |-> c.data]
           end == offset + Len(c.data)
           then == [f EXCEPT !.pos = end, !.len = IF @ < end THEN end ELSE @]
<1>1. c.name = "write" /\ f # NoFile /\ c.data \in Seq(Nat) /\ c.data # <<>>
  BY CallsAssumption DEF WriteFile, WritesSomething
<1>2. Current(f)
  BY <1>1, StartIsFree
<1>3. /\ f.path \in Seq(Names) /\ f.pos \in Nat /\ f.len \in Nat
      /\ f.ino = Lookup(real, f.path) /\ IsFile(real, f.ino)
      /\ f.append => f.len = real[f.ino].len
  BY <1>1, <1>2, HandleIsCurrent
<1>4. /\ Performed(t, c, op, then) /\ synced' = synced
      /\ real' = Wrote(real, f.ino, IF f.append THEN real[f.ino].len ELSE f.pos, c.data)
  BY DEF WriteFile
<1> HIDE DEF f
<1>5. offset \in Nat /\ real' = Wrote(real, f.ino, offset, c.data)
  BY <1>3, <1>4 DEF Offset
<1>6. Disk(real)
  BY DEF RecorderInv
<1> HIDE DEF offset
<1>7. Grows(real', real) /\ SameWays(real', real)
  BY <1>1, <1>3, <1>5, <1>6, WroteShows
<1>8. op.op = "write" /\ op.path = p /\ op.offset = offset /\ op.data = c.data
  OBVIOUS
<1> HIDE DEF op, p, then
<1>9. Carried(op, real', real) /\ Len(real') = Len(real)
  BY <1>6, <1>7, <1>8, StillCarries DEF SameWays
<1>10. Uses(t, c) = {p}
  BY <1>1 DEF Uses, HandleCalls, p, f
<1>11. OpOK(op, Uses(t, c)) /\ Uses(t, c) \subseteq Seq(Names) /\ op.op \in Changes
  BY <1>1, <1>3, <1>5, <1>8, <1>10 DEF OpOK, DirectoryOp, OpPaths, Changes, p
<1>12. LeavesFiles(op) /\ synced' \in Seq(Range(synced')) /\ Len(synced') = Len(real')
  BY <1>4, <1>8, <1>9, SameSynced
<1> QED BY <1>4, <1>11, <1>12, WriteTurn, PerformOwes

LEMMA SetLenOwes ==
    ASSUME RecorderInv, SyncInv, NEW t \in Threads, NEW c \in Calls, MayStart(t, c), SetLen1(t, c),
           UNCHANGED vars
    PROVE  Owes(t, Uses(t, c))
<1> DEFINE f == file[t]
           p == f.path
           op == [op |-> "truncate", path |-> p, len |-> c.len]
           then == [f EXCEPT !.len = c.len]
<1>1. c.name = "set_len" /\ f # NoFile /\ c.len \in Nat
  BY CallsAssumption DEF SetLen1
<1>2. Current(f)
  BY <1>1, StartIsFree
<1>3. f.path \in Seq(Names) /\ f.ino = Lookup(real, f.path) /\ IsFile(real, f.ino)
  BY <1>1, <1>2, HandleIsCurrent
<1>4. Performed(t, c, op, then) /\ synced' = synced /\ real' = Sized(real, f.ino, c.len)
  BY DEF SetLen1
<1> HIDE DEF f
<1>5. Disk(real)
  BY DEF RecorderInv
<1>6. Grows(real', real) /\ SameWays(real', real)
  BY <1>1, <1>3, <1>4, <1>5, SizedShows
<1>7. op.op = "truncate" /\ op.path = p /\ op.len = c.len
  OBVIOUS
<1> HIDE DEF op, p, then
<1>8. Carried(op, real', real) /\ Len(real') = Len(real)
  BY <1>5, <1>6, <1>7, StillCarries DEF SameWays
<1>9. Uses(t, c) = {p}
  BY <1>1 DEF Uses, HandleCalls, p, f
<1>10. OpOK(op, Uses(t, c)) /\ Uses(t, c) \subseteq Seq(Names) /\ op.op \in Changes
  BY <1>1, <1>3, <1>7, <1>9 DEF OpOK, DirectoryOp, OpPaths, Changes, p
<1>11. LeavesFiles(op) /\ synced' \in Seq(Range(synced')) /\ Len(synced') = Len(real')
  BY <1>4, <1>7, <1>8, SameSynced
<1> QED BY <1>4, <1>10, <1>11, SetLenTurn, PerformOwes

LEMMA SyncOwes ==
    ASSUME RecorderInv, SyncInv, NEW t \in Threads, NEW c \in Calls, MayStart(t, c),
           SyncDir(t, c) \/ SyncFile(t, c), UNCHANGED vars
    PROVE  Owes(t, Uses(t, c))
<1> DEFINE p == IF c.name = "sync_dir" THEN c.path ELSE file[t].path
           op == [op |-> "fsync", path |-> p]
<1>1. Disk(real) /\ real' = real /\ Treelike(real)
  BY DEF RecorderInv, SyncDir, SyncFile, disk, Disk
<1>2. op.op = "fsync" /\ op.path = p /\ Performed(t, c, op, file[t])
  BY DEF SyncDir, SyncFile
<1>3. /\ p \in Seq(Names) /\ Uses(t, c) = {p} /\ synced' \in Seq(Range(synced')) /\ Len(synced') = Len(synced)
      /\ Saved(real, synced', p)
      /\ \A q \in Seq(Names) : IsFile(real, Lookup(real, q)) /\ q # p =>
            synced'[Lookup(real, q)] = synced[Lookup(real, q)]
  <2> HIDE DEF op
  <2>1. CASE SyncDir(t, c)
    <3>1. /\ c.name = "sync_dir" /\ c.path \in Seq(Names) /\ p = c.path
          /\ IsDir(real, Lookup(real, p)) /\ synced' = synced
      BY <2>1, CallsAssumption DEF SyncDir, disk
    <3>2. ~IsFile(real, Lookup(real, p))
      BY <3>1 DEF IsDir, IsFile
    <3>3. Uses(t, c) = {p}
      BY <3>1 DEF Uses, HandleCalls
    <3> HIDE DEF p
    <3> QED BY <3>1, <3>2, <3>3 DEF SyncInv, Saved
  <2>2. CASE SyncFile(t, c)
    <3>1. c.name = "sync" /\ file[t] # NoFile /\ p = file[t].path
      BY <2>2 DEF SyncFile
    <3>2. Current(file[t])
      BY <3>1, StartIsFree
    <3>3. p \in Seq(Names) /\ file[t].ino = Lookup(real, p) /\ IsFile(real, file[t].ino)
      BY <3>1, <3>2, HandleIsCurrent
    <3>4. Uses(t, c) = {p}
      BY <3>1 DEF Uses, HandleCalls
    <3> DEFINE ino == Lookup(real, p)
    <3>5. synced' = [synced EXCEPT ![ino] = Content(real[ino])]
      BY <2>2, <3>3 DEF SyncFile, SyncedNow
    <3> HIDE DEF p
    <3>6. /\ Sees(real, p) = FileEntry(Content(real[ino])) /\ IsFile(real, ino)
          /\ ino \in 0..Len(real) /\ Len(real) \in Nat
      BY <1>1, <3>3, SeesIs
    <3>7. ino \in 1..Len(real)
      BY <3>6 DEF IsFile, NoIno
    <3>8. synced \in Seq(Range(synced)) /\ Len(synced) = Len(real)
      BY DEF SyncInv
    <3>9. /\ Len(synced') = Len(synced) /\ synced'[ino] = Content(real[ino])
          /\ \A i \in 1..Len(synced) : i # ino => synced'[i] = synced[i]
          /\ synced' \in Seq(Range(synced'))
      <4> DEFINE new == Content(real[ino])
      <4> HIDE DEF ino, new
      <4>1. synced' = [synced EXCEPT ![ino] = new] /\ ino \in 1..Len(synced)
        BY <3>5, <3>7, <3>8 DEF new
      <4>2. /\ Len(synced') = Len(synced) /\ synced'[ino] = new
            /\ \A i \in 1..Len(synced) : i # ino => synced'[i] = synced[i]
            /\ synced' \in Seq(Range(synced'))
        <5>1. PICK s : s = synced
          OBVIOUS
        <5>2. PICK y : y = synced'
          OBVIOUS
        <5>3. s \in Seq(Range(s)) /\ Refilled(y, s, ino, new) /\ ino \in 1..Len(s)
          BY <3>8, <4>1, <5>1, <5>2 DEF Refilled
        <5>4. /\ y \in Seq(Range(y)) /\ Len(y) = Len(s) /\ y[ino] = new
              /\ \A j \in 1..Len(s) : j # ino => y[j] = s[j]
          BY <5>3, ReplacedAt
        <5> QED BY <5>1, <5>2, <5>4
      <4> QED BY <4>2 DEF new
    <3>11. Saved(real, synced', p)
      <4>1. Sees(real, p).data = Content(real[ino])
        BY <3>6 DEF FileEntry
      <4> QED BY <3>9, <4>1 DEF Saved
    <3>12. ASSUME NEW q \in Seq(Names), IsFile(real, Lookup(real, q)), q # p
           PROVE  synced'[Lookup(real, q)] = synced[Lookup(real, q)]
      <4>1. Lookup(real, q) \in 0..Len(real) /\ Lookup(real, q) # NoIno
        BY <1>1, <3>12, SeesIs DEF IsFile
      <4>2. Lookup(real, q) \in 1..Len(synced)
        BY <3>6, <3>8, <4>1 DEF NoIno
      <4>3. Lookup(real, q) # ino
        BY <1>1, <3>3, <3>12, <4>1, SameInode
      <4> QED BY <3>9, <4>2, <4>3
    <3> QED BY <3>3, <3>4, <3>9, <3>11, <3>12
  <2> QED BY <2>1, <2>2
<1> HIDE DEF op, p
<1>4. Grows(real, real) /\ SameWays(real, real)
  BY <1>1, DiskIsKept DEF Grows, SameWays
<1>5. Carried(op, real', real)
  BY <1>1, <1>2, <1>4, StillCarries
<1>6. OpOK(op, Uses(t, c)) /\ Uses(t, c) \subseteq Seq(Names) /\ op.op \in Changes
  BY <1>2, <1>3 DEF OpOK, DirectoryOp, OpPaths, Changes
<1>7. LeavesFiles(op) /\ Len(synced') = Len(real')
  BY <1>1, <1>2, <1>3, <1>5 DEF LeavesFiles, SyncInv
<1> QED BY <1>2, <1>3, <1>6, <1>7, SyncTurn, PerformOwes

LEMMA LogTables ==
    ASSUME SyncInv, NEW op, DirectoryOp(op), CompileOp(op)
    PROVE  TypeOK' /\ PendingOK' /\ profile' = profile /\ profile # "ext4"
<1>1. PlacesData(op)
  BY DEF DirectoryOp, PlacesData
<1>2. TypeOK' /\ PendingOK'
  BY <1>1, OpKeeps DEF SyncInv
<1>3. profile' = profile
  BY DEF CompileOp, CreateOrMkdir, NoEffect, Emit, WriteOp, Truncate, RenameOp,
         UnlinkOrRmdir, Fsync, Sync, Mark, EndOp, Err
<1> QED BY <1>2, <1>3 DEF SyncInv

\* Logging an op leaves what is owed at other paths.
LEMMA LogLeavesSynced ==
    ASSUME RecorderInv, SyncInv, NEW op, NEW P, OpOK(op, P), op.op # "sync", CompileOp(op), ~failed',
           real' = real, synced' = synced
    PROVE  LeavesSynced(P)
<1>1. /\ Kept(v) /\ TypeOK /\ PendingOK /\ profile # "ext4" /\ DirectoryOp(op) /\ OpPaths(op) = P
  BY DEF RecorderInv, SyncInv, OpOK
<1>2. ASSUME NEW q, NEW r \in Seq(Names), r \notin Reach(P), SyncedAs(v, micro, real, synced, r, q)
      PROVE  SyncedAs(v', micro', real', synced', r, q)
  <2>1. Source(op, r) = r
    BY <1>1, <1>2, SourceReach
  <2>2. ~(op.op \in {"create", "fsync"} /\ r = op.path)
    BY <1>1, <1>2, OnWayOrder DEF OpPaths, Reach
  <2>3. Due(v', micro', r) => Due(v, micro, r) /\ Sees(v', r).data = Sees(v, r).data
    BY <1>1, <1>2, <2>1, <2>2, LogDue
  <2> QED BY <1>2, <2>3 DEF SyncedAs
<1>3. ASSUME NEW q, Saved(real, synced, q) PROVE Saved(real', synced', q)
  BY <1>3 DEF Saved, Sees
<1> QED BY <1>2, <1>3 DEF LeavesSynced

LEMMA LogAndReturnOwes ==
    ASSUME RecorderInv, SyncInv, NEW t \in Threads, LogAndReturn(t)
    PROVE  Owes(t, PathsOf(t))
<1> DEFINE P == PathsOf(t)
           d == doing[t]
           op == d.op
<1>1. d.at = "log" /\ d # Idle
  BY DEF LogAndReturn, Idle
<1>2. /\ t \in Busy /\ CallOK(d, P, real) /\ P \subseteq Seq(Names)
  BY <1>1, BusyCall
<1>3. OpOK(op, P) /\ CompileOp(op) /\ DirectoryOp(op) /\ OpPaths(op) = P
  BY <1>1, <1>2 DEF CallOK, LogAndReturn, OpOK
<1>4. doing'[t] = Idle /\ real' = real /\ synced' = synced
  BY DEF LogAndReturn, disk, RecorderInv, PerThread
<1>5. op.op \in Changes
  BY <1>1, <1>2 DEF SyncInv
<1>6. op.op # "sync" /\ op.op # "create"
  BY <1>5 DEF Changes
<1>7. TypeOK' /\ PendingOK' /\ profile' = profile /\ profile # "ext4"
  BY <1>3, LogTables
<1>8. TablesKept
  BY <1>4, <1>7 DEF TablesKept, SyncInv
<1>9. ~failed' => LeavesSynced(P)
  BY <1>3, <1>4, <1>6, LogLeavesSynced
<1>10. ~failed /\ \A q \in Reach(P) : q \in Seq(Names) /\ Owed(d, v, micro, real, synced, q)
  BY <1>2, <1>3 DEF CompileOp, SyncInv, Reach
<1>11. P = PathsOf(t) /\ Turn(t, P)
  BY LogAndReturnTurn
<1> HIDE DEF P, op, d
<1>12. ASSUME ~failed', NEW q \in Reach(P)
       PROVE  SyncedAs(v', micro', real', synced', q, q)
  <2>1. SUFFICES ASSUME IsFile(real, Lookup(real, q)), Due(v', micro', q)
        PROVE  Sees(v', q).data = synced[Lookup(real, q)]
    BY <1>4 DEF SyncedAs
  <2>2. q \in Seq(Names) /\ Owed(d, v, micro, real, synced, q)
    BY <1>10, <1>12
  <2>3. /\ ~(op.op \in {"write", "truncate"} /\ q = op.path)
        /\ Sees(v', q).data = Sees(v, Source(op, q)).data
        /\ ~(op.op = "fsync" /\ q = op.path) => Due(v, micro, Source(op, q))
    BY <1>3, <1>6, <1>12, <2>1, <2>2, LogDue DEF RecorderInv, SyncInv
  <2>4. CASE op.op = "fsync" /\ q = op.path
    <3>1. Saved(real, synced, q)
      BY <1>1, <2>2, <2>4 DEF Owed, op
    <3>2. Sees(v', q) = Sees(real', q)
      BY <1>4, <1>11, <1>12 DEF Turn
    <3>3. Sees(real', q) = Sees(real, q)
      BY <1>4 DEF Sees
    <3> QED BY <2>1, <3>1, <3>2, <3>3 DEF Saved
  <2>5. CASE ~(op.op = "fsync" /\ q = op.path)
    <3>1. SyncedAs(v, micro, real, synced, Source(op, q), q)
      BY <1>1, <2>2, <2>3, <2>5 DEF Owed, op
    <3> QED BY <2>1, <2>3, <2>5, <3>1 DEF SyncedAs
  <2> QED BY <2>4, <2>5
<1>13. Owes(t, P)
  BY <1>4, <1>8, <1>9, <1>12 DEF Owes
<1> QED BY <1>11, <1>13

LEMMA MarkOwes ==
    ASSUME RecorderInv, SyncInv, NEW t \in Threads, NEW c \in Calls, MayStart(t, c), MarkNow(t, c)
    PROVE  Owes(t, {})
<1> DEFINE op == [op |-> "mark"]
<1>1. OpOK(op, {}) /\ CompileOp(op) /\ DirectoryOp(op) /\ op.op # "sync"
  BY DEF MarkNow, OpOK, DirectoryOp, OpPaths
<1>2. doing[t] = Idle
  BY StartIsFree
<1>3. doing' = doing /\ real' = real /\ synced' = synced
  BY DEF MarkNow, disk
<1> HIDE DEF op
<1>4. TypeOK' /\ PendingOK' /\ profile' = profile /\ profile # "ext4"
  BY <1>1, LogTables
<1>5. TablesKept
  BY <1>3, <1>4 DEF TablesKept, SyncInv
<1>6. ~failed' => LeavesSynced({})
  BY <1>1, <1>3, LogLeavesSynced
<1>7. Reach({}) = {}
  BY DEF Reach
<1> QED BY <1>2, <1>3, <1>5, <1>6, <1>7 DEF Owes

\* An op that is logged first makes a file of the log that is not on disk, or
\* puts data of one in flight.
LEMMA LogFirstOwes ==
    ASSUME RecorderInv, SyncInv, NEW t \in Threads, LogFirst(t)
    PROVE  Owes(t, PathsOf(t))
<1> DEFINE P == PathsOf(t)
           d == doing[t]
           p == d.call.path
           op == d.op
           d2 == [d EXCEPT !.at = "open"]
<1>1. d.at = "log first" /\ d # Idle
  <2>1. d.at = "log first"
    BY DEF LogFirst
  <2> HIDE DEF d
  <2>2. Idle.at = "idle"
    BY DEF Idle
  <2> QED BY <2>1, <2>2
<1>2. /\ CallOK(d, P, real) /\ P \subseteq Seq(Names) /\ t \in Busy
      /\ ~failed => Agrees(d, P, v, real)
  BY <1>1, BusyCall
<1>3. /\ OpOK(op, P) /\ CompileOp(op) /\ P = {p} /\ p \in Seq(Names) /\ DirectoryOp(op) /\ OpPaths(op) = P
      /\ d = [at |-> d.at, call |-> d.call, op |-> d.op, then |-> d.then]
  BY <1>1, <1>2 DEF CallOK, LogFirst, OpOK
<1>4. doing'[t] = d2 /\ real' = real /\ synced' = synced
  BY DEF LogFirst, disk, RecorderInv, PerThread
<1>5. ~failed /\ \A q \in Reach(P) : q \in Seq(Names) /\ Owed(d, v, micro, real, synced, q)
  BY <1>2, <1>3 DEF CompileOp, SyncInv, Reach
<1>6. FirstOp(d.call.name, op, Sees(real, p))
  BY <1>1, <1>2, <1>5 DEF Agrees
<1>7. d2.at = "open" /\ P = PathsOf(t)
  <2> HIDE DEF d
  <2> QED BY <1>3
<1>8. op.op \in {"create", "truncate"} /\ op.path = p
  BY <1>3, <1>6 DEF FirstOp, OpPaths
<1> HIDE DEF P, d, op, p, d2
<1>9. TypeOK' /\ PendingOK' /\ profile' = profile /\ profile # "ext4"
  BY <1>3, LogTables
<1>10. TablesKept
  BY <1>4, <1>9 DEF TablesKept, SyncInv
<1>11. ~failed' => LeavesSynced(P)
  BY <1>3, <1>4, <1>8, LogLeavesSynced
<1>12. ASSUME ~failed', NEW q \in Reach(P)
       PROVE  SyncedAs(v', micro', real', synced', q, q)
  <2>1. SUFFICES ASSUME IsFile(real, Lookup(real, q)), Due(v', micro', q)
        PROVE  Sees(v', q).data = synced[Lookup(real, q)]
    BY <1>4 DEF SyncedAs
  <2>2. q \in Seq(Names) /\ Owed(d, v, micro, real, synced, q)
    BY <1>5, <1>12
  <2>3. ~(op.op = "create" /\ q = op.path)
    <3>1. SUFFICES ASSUME op.op = "create", q = p PROVE FALSE
      BY <1>8
    <3>2. Sees(real, p) = Nothing
      BY <1>6, <3>1 DEF FirstOp
    <3>3. Lookup(real, p) = NoIno
      BY <2>2, <3>1, <3>2, SeesIs DEF RecorderInv, Disk
    <3> QED BY <2>1, <3>1, <3>3 DEF IsFile
  <2>4. /\ Sees(v', q).data = Sees(v, Source(op, q)).data /\ Due(v, micro, Source(op, q))
    BY <1>3, <1>8, <1>12, <2>1, <2>2, <2>3, LogDue DEF RecorderInv, SyncInv
  <2>5. Source(op, q) = q
    BY <1>8 DEF Source
  <2>6. SyncedAs(v, micro, real, synced, q, q)
    BY <1>1, <2>2 DEF Owed
  <2> QED BY <2>1, <2>4, <2>5, <2>6 DEF SyncedAs
<1>13. ~failed' => \A q \in Reach(P) : Owed(d2, v', micro', real', synced', q)
  BY <1>7, <1>12 DEF Owed
<1>14. doing'[t] # Idle
  BY <1>4, <1>7 DEF Idle
<1>15. Owes(t, P)
  BY <1>4, <1>7, <1>10, <1>11, <1>13, <1>14 DEF Owes
<1> QED BY <1>7, <1>15

LEMMA SameLeaves ==
    ASSUME v' = v, micro' = micro, real' = real, synced' = synced, NEW P
    PROVE  LeavesSynced(P)
<1>1. ASSUME NEW q, NEW r, SyncedAs(v, micro, real, synced, r, q)
      PROVE  SyncedAs(v', micro', real', synced', r, q)
  BY <1>1 DEF SyncedAs, Due, Flushed, Sees
<1>2. ASSUME NEW q, Saved(real, synced, q) PROVE Saved(real', synced', q)
  BY <1>2 DEF Saved, Sees
<1> QED BY <1>1, <1>2 DEF LeavesSynced

LEMMA LookOwes ==
    ASSUME RecorderInv, SyncInv, NEW t \in Threads, NEW c \in Calls, MayStart(t, c), Look(t, c),
           UNCHANGED vars
    PROVE  Owes(t, Uses(t, c))
<1> DEFINE P == Uses(t, c)
           p == c.path
           op == IF c.name = "create" THEN CreateOp(p) ELSE AppendOp(p)
           at == IF op = NoOp THEN "open" ELSE "log first"
           d == [at |-> at, call |-> c, op |-> op, then |-> NoFile]
<1>1. c.name \in {"create", "append"} /\ p \in Seq(Names) /\ Uses(t, c) = {p}
  BY CallsAssumption DEF Look, Uses, HandleCalls
<1>2. ~failed /\ \A u \in Busy : ~Conflict(P, PathsOf(u))
  BY StartIsFree
<1>3. doing'[t] = d
  BY DEF Look, RecorderInv, PerThread
<1>4. TypeOK' /\ PendingOK' /\ profile' = profile /\ micro' = micro /\ v' = v /\ failed' = failed
  BY SameTables DEF SyncInv
<1>5. real' = real /\ synced' = synced
  BY DEF Look, disk
<1>6. \A q \in Reach(P) : SyncedAs(v, micro, real, synced, q, q)
  BY <1>1, <1>2, FreeSynced
<1>7. d.at = at /\ at # "log"
  OBVIOUS
<1>8. P = Uses(t, c)
  OBVIOUS
<1> HIDE DEF at, d, P
<1>9. doing'[t].at # "log"
  BY <1>3, <1>7
<1>10. LeavesSynced(P)
  BY <1>4, <1>5, SameLeaves
<1>11. \A q \in Reach(P) : SyncedAs(v', micro', real', synced', q, q)
  <2>1. TAKE q \in Reach(P)
  <2>2. SyncedAs(v, micro, real, synced, q, q)
    BY <1>6
  <2> QED BY <1>4, <1>5, <2>2 DEF SyncedAs, Due, Flushed, Sees
<1>12. TablesKept
  BY <1>4, <1>5 DEF TablesKept, SyncInv
<1>13. \A q \in Reach(P) : Owed(doing'[t], v', micro', real', synced', q)
  BY <1>9, <1>11 DEF Owed
<1>14. Owes(t, P)
  BY <1>9, <1>10, <1>11, <1>12, <1>13 DEF Owes
<1> QED BY <1>8, <1>14

LEMMA OpenOwes ==
    ASSUME RecorderInv, SyncInv, NEW t \in Threads, NEW c \in Calls, MayStart(t, c),
           Open(t, c) \/ Seek(t, c), UNCHANGED vars
    PROVE  Owes(t, {})
<1>1. doing'[t] = Idle
  BY StartIsFree DEF Open, Seek
<1>2. TypeOK' /\ PendingOK' /\ profile' = profile /\ micro' = micro /\ v' = v /\ failed' = failed
  BY SameTables DEF SyncInv
<1>3. real' = real /\ synced' = synced
  BY DEF Open, Seek, disk
<1>4. LeavesSynced({}) /\ TablesKept
  BY <1>2, <1>3, SameLeaves DEF TablesKept, SyncInv
<1>5. Reach({}) = {}
  BY DEF Reach
<1> QED BY <1>1, <1>4, <1>5 DEF Owes

\* What an open leaves of the disk.
OpenLeaves(p, op) ==
    /\ LeavesFiles(op) /\ op.op \in {"none", "create"} /\ (op.op = "create" => op.path = p)
    /\ synced' \in Seq(Range(synced')) /\ Len(synced') = Len(real')
    /\ op.op = "create" => Sees(real', p).data = <<>> /\ synced'[Lookup(real', p)] = <<>>

LEMMA ExistingLeaves ==
    ASSUME RecorderInv, SyncInv, NEW p \in Seq(Names), IsFile(real, Lookup(real, p)),
           real' = Sized(real, Lookup(real, p), 0) \/ real' = real, synced' = synced
    PROVE  OpenLeaves(p, NoOp)
<1>1. Disk(real)
  BY DEF RecorderInv
<1>2. Grows(real', real) /\ SameWays(real', real)
  <2>1. CASE real' = real
    BY <1>1, <2>1, DiskIsKept DEF Grows, SameWays
  <2>2. CASE real' = Sized(real, Lookup(real, p), 0)
    BY <1>1, <2>2, SizedShows
  <2> QED BY <2>1, <2>2
<1>3. NoOp.op = "none"
  BY DEF NoOp
<1>4. Carried(NoOp, real', real) /\ Len(real') = Len(real)
  BY <1>1, <1>2, <1>3, StillCarries DEF SameWays
<1>5. LeavesFiles(NoOp) /\ synced' \in Seq(Range(synced')) /\ Len(synced') = Len(real')
  BY <1>3, <1>4, SameSynced
<1> QED BY <1>3, <1>5 DEF OpenLeaves

LEMMA NewLeaves ==
    ASSUME RecorderInv, SyncInv, NEW p \in Seq(Names), CanMake(real, p),
           real' = Made(real, p, EmptyFile), synced' = Append(synced, <<>>)
    PROVE  OpenLeaves(p, [op |-> "create", path |-> p])
<1> DEFINE op == [op |-> "create", path |-> p]
           node == EmptyFile
<1>1. Disk(real) /\ Len(real) \in Nat
  BY DiskIsKept DEF RecorderInv
<1>2. op.op = "create" /\ op.path = p /\ node = IF op.op = "mkdir" THEN EmptyDir ELSE EmptyFile
  OBVIOUS
<1> HIDE DEF op
<1>3. /\ Carried(op, real', real) /\ Len(real') = Len(real) + 1
      /\ Lookup(real', p) = Len(real) + 1
  <2>1. real' = Made(real, op.path, node)
    BY <1>2
  <2> QED BY <1>1, <1>2, <2>1, MadeCarries
<1>4. /\ synced' \in Seq(Range(synced')) /\ Len(synced') = Len(real')
      /\ \A i \in 1..Len(real) : synced'[i] = synced[i]
  BY <1>3, MadeSynced
<1>5. ASSUME NEW q \in Seq(Names), IsFile(real', Lookup(real', q)), q # p
      PROVE  synced'[Lookup(real', q)] = synced[Lookup(real', q)]
  <2>1. IsFile(real, Lookup(real, Source(op, q))) /\ Lookup(real', q) = Lookup(real, Source(op, q))
    BY <1>2, <1>3, <1>5 DEF Carried
  <2>2. Source(op, q) = q
    BY <1>2 DEF Source
  <2>3. Lookup(real, q) \in 0..Len(real)
    BY <1>1, <1>5, SeesIs DEF Disk
  <2>4. Lookup(real, q) \in 1..Len(real)
    BY <1>1, <2>1, <2>2, <2>3 DEF IsFile, NoIno
  <2> QED BY <1>4, <2>1, <2>2, <2>4
<1>6. LeavesFiles(op)
  BY <1>2, <1>3, <1>5 DEF LeavesFiles
<1>7. Sees(real', p).data = <<>>
  <2>1. Sees(real', p) = NodeEntry(node)
    BY <1>1, MadeShows
  <2>2. NodeEntry(node) = FileEntry(<<>>)
    BY NewEntry
  <2> QED BY <2>1, <2>2 DEF FileEntry
<1>8. synced'[Lookup(real', p)] = <<>>
  <2>1. Len(synced) = Len(real) /\ synced \in Seq(Range(synced))
    BY DEF SyncInv
  <2> QED BY <1>1, <1>3, <2>1
<1>9. OpenLeaves(p, op)
  BY <1>2, <1>3, <1>4, <1>6, <1>7, <1>8 DEF OpenLeaves
<1> QED BY <1>9 DEF op

\* The opened file, when it is a new one, is empty in the log and as synced.
LEMMA OpenAfterLogOwes ==
    ASSUME ~OpenMayFail, RecorderInv, SyncInv, NEW t \in Threads, OpenAfterLog(t)
    PROVE  Owes(t, PathsOf(t))
<1> DEFINE P == PathsOf(t)
           d == doing[t]
           name == d.call.name
           p == d.call.path
           ino == Lookup(real, p)
<1>1. d.at = "open" /\ d # Idle
  <2>1. d.at = "open"
    BY DEF OpenAfterLog
  <2> HIDE DEF d
  <2>2. Idle.at = "idle"
    BY DEF Idle
  <2> QED BY <2>1, <2>2
<1>2. t \in Busy /\ CallOK(d, P, real)
  BY <1>1, BusyCall
<1>3. P = {p} /\ p \in Seq(Names)
  BY <1>1, <1>2 DEF CallOK
<1>4. doing'[t] = Idle /\ UNCHANGED vars
  BY DEF OpenAfterLog, RecorderInv, PerThread
<1>5. \/ /\ IsFile(real, ino) /\ synced' = synced
         /\ real' = Sized(real, ino, 0) \/ real' = real
      \/ /\ CanMake(real, p) /\ real' = Made(real, p, EmptyFile) /\ synced' = Append(synced, <<>>)
      \/ real' = real /\ synced' = synced
  BY DEF OpenAfterLog, disk
<1>6. TypeOK' /\ PendingOK' /\ profile' = profile /\ micro' = micro /\ v' = v /\ failed' = failed
  BY <1>4, SameTables DEF SyncInv
<1>7. P = PathsOf(t) /\ Turn(t, P) /\ ino = Lookup(real, p)
  BY OpenAfterLogTurn
<1> HIDE DEF P, d, name, p, ino
<1>8. ASSUME NEW q \in Reach(P), ~failed PROVE SyncedAs(v, micro, real, synced, q, q)
  <2>1. Owed(d, v, micro, real, synced, q)
    BY <1>2, <1>7, <1>8 DEF SyncInv, d
  <2> QED BY <1>1, <2>1 DEF Owed
<1>9. ASSUME NEW op, OpenLeaves(p, op) PROVE Owes(t, P)
  <2>1. TablesKept
    BY <1>6, <1>9 DEF TablesKept, OpenLeaves
  <2>2. \A q : Source(op, q) = q
    BY <1>9 DEF OpenLeaves, Source
  <2>3. LeavesFiles(op) /\ op.op # "fsync" /\ (op.op = "create" => op.path = p)
    BY <1>9 DEF OpenLeaves
  <2>4. p \in Reach(P)
    BY <1>3, OnWayOrder DEF Reach
  <2>5. ASSUME ~failed' PROVE LeavesSynced(P)
    <3>1. ASSUME NEW q \in Seq(Names) \ Reach(P), NEW r, SyncedAs(v, micro, real, synced, r, q)
          PROVE  SyncedAs(v', micro', real', synced', r, q)
      BY <1>6, <2>2, <2>3, <2>4, <3>1, CarriedSynced
    <3>2. ASSUME NEW q \in Seq(Names) \ Reach(P), Saved(real, synced, q)
          PROVE  Saved(real', synced', q)
      <4>1. Sees(real', q) = Sees(real, q)
        BY <1>7, <2>5, <3>2 DEF Turn
      <4> QED BY <2>2, <2>3, <2>4, <3>2, <4>1, CarriedSaved
    <3> QED BY <3>1, <3>2 DEF LeavesSynced
  <2>6. ASSUME ~failed', NEW q \in Reach(P) PROVE SyncedAs(v', micro', real', synced', q, q)
    <3>1. q \in Seq(Names) /\ SyncedAs(v, micro, real, synced, q, q)
      BY <1>6, <1>8, <2>6 DEF Reach
    <3>2. CASE op.op = "create" /\ q = p
      <4>1. Sees(v', p) = Sees(real', p)
        BY <1>4, <1>7, <2>6, <3>2 DEF Turn
      <4>2. Sees(real', p).data = <<>> /\ synced'[Lookup(real', p)] = <<>>
        BY <1>9, <3>2 DEF OpenLeaves
      <4> QED BY <3>2, <4>1, <4>2 DEF SyncedAs
    <3>3. CASE ~(op.op = "create" /\ q = p)
      BY <1>6, <2>2, <2>3, <3>1, <3>3, CarriedSynced
    <3> QED BY <3>2, <3>3
  <2> QED BY <1>4, <2>1, <2>5, <2>6 DEF Owes
<1>10. CASE IsFile(real, ino) /\ synced' = synced /\ (real' = Sized(real, ino, 0) \/ real' = real)
  <2>1. OpenLeaves(p, NoOp)
    BY <1>3, <1>7, <1>10, ExistingLeaves
  <2> QED BY <1>7, <1>9, <2>1
<1>11. CASE CanMake(real, p) /\ real' = Made(real, p, EmptyFile) /\ synced' = Append(synced, <<>>)
  <2>1. OpenLeaves(p, [op |-> "create", path |-> p])
    BY <1>3, <1>11, NewLeaves
  <2> QED BY <1>7, <1>9, <2>1
<1>12. CASE real' = real /\ synced' = synced
  <2>1. LeavesSynced(P) /\ TablesKept
    BY <1>6, <1>12, SameLeaves DEF TablesKept, SyncInv
  <2>2. ASSUME ~failed', NEW q \in Reach(P) PROVE SyncedAs(v', micro', real', synced', q, q)
    <3>1. SyncedAs(v, micro, real, synced, q, q)
      BY <1>6, <1>8, <2>2
    <3> QED BY <1>6, <1>12, <3>1 DEF SyncedAs, Due, Flushed, Sees
  <2>3. Owes(t, P)
    BY <1>4, <2>1, <2>2 DEF Owes
  <2> QED BY <1>7, <2>3
<1> QED BY <1>5, <1>10, <1>11, <1>12

LEMMA InitSyncInv ==
    ASSUME RecorderInit, "ext4" \notin Profiles
    PROVE  SyncInv
<1>1. Init /\ v = base /\ real = base
  BY DEF RecorderInit, Init
<1>2. TypeOK /\ PendingOK
  BY <1>1, InitKeeps
<1>3. profile # "ext4"
  BY <1>2 DEF TypeOK
<1>4. RecorderInv
  BY InitRecorderInv
<1>5. Disk(real) /\ Treelike(real) /\ Len(real) \in Nat /\ DOMAIN base = 1..Len(real)
  BY <1>1, <1>4, DiskIsKept, ImageShape DEF RecorderInv, Disk, Treelike
<1>6. synced = [i \in DOMAIN base |-> IF IsFile(base, i) THEN Content(base[i]) ELSE <<>>]
  BY DEF RecorderInit
<1>7. synced = [i \in 1..Len(real) |-> synced[i]]
  BY <1>5, <1>6
<1>8. synced \in Seq(Range(synced)) /\ Len(synced) = Len(real)
  BY <1>5, <1>7, FunctionIsSeq
<1>9. Busy = {}
  BY DEF RecorderInit, Busy
<1>10. ASSUME NEW q \in Seq(Names) PROVE SyncedAs(v, micro, real, synced, q, q)
  <2>1. SUFFICES ASSUME IsFile(real, Lookup(real, q)) PROVE Sees(v, q).data = synced[Lookup(real, q)]
    BY DEF SyncedAs
  <2>2. Lookup(real, q) \in 0..Len(real) /\ Sees(real, q) = FileEntry(Content(real[Lookup(real, q)]))
    BY <1>5, <2>1, SeesIs
  <2>3. Lookup(real, q) \in 1..Len(real)
    BY <1>5, <2>1, <2>2 DEF IsFile, NoIno
  <2>4. synced[Lookup(real, q)] = Content(real[Lookup(real, q)])
    BY <1>1, <1>5, <1>6, <2>1, <2>3
  <2> QED BY <1>1, <2>2, <2>4 DEF FileEntry
<1> QED BY <1>2, <1>3, <1>8, <1>9, <1>10 DEF SyncInv, AllSynced

\* When no call is under way, nothing is owed.
LEMMA InvDurable == RecorderInv /\ SyncInv => DurableWasSynced
<1> SUFFICES ASSUME RecorderInv, SyncInv, Busy = {}, ~failed, NEW p \in DOMAIN ToTree(v),
                    IsFile(v, Lookup(v, p)),
                    \A j \in DataOf(Lookup(v, p)) : micro[j].durable_at # NEVER
             PROVE  Content(v[Lookup(v, p)]) = synced[Lookup(real, p)]
  BY DEF DurableWasSynced, AtRest
<1>1. Kept(v) /\ Treelike(v) /\ Treelike(real)
  BY DEF RecorderInv, Kept, Disk
<1>2. p \in Seq(Names)
  <2>1. p \in DOMAIN PathTree(v)
    BY <1>1, KeptTree
  <2> QED BY <1>1, <2>1, TreePaths
<1>3. Sees(v, p) = FileEntry(Content(v[Lookup(v, p)])) /\ Sees(v, p).kind = "file"
  BY <1>1, <1>2, SeesIs
<1>4. Sees(v, p) = Sees(real, p)
  BY <1>2 DEF RecorderInv, Elsewhere
<1>5. IsFile(real, Lookup(real, p))
  BY <1>1, <1>2, <1>3, <1>4, SeesIs
<1>6. Due(v, micro, p)
  BY DEF Due, Flushed, DataOf
<1>7. SyncedAs(v, micro, real, synced, p, p)
  BY <1>2 DEF SyncInv, AllSynced
<1> QED BY <1>3, <1>5, <1>6, <1>7 DEF SyncedAs, FileEntry

LEMMA StepOwes ==
    ASSUME ~OpenMayFail, WritesSomething, RecorderInv, SyncInv, RecorderNext
    PROVE  \E t \in Threads : \E P : Turn(t, P) /\ Owes(t, P)
<1>1. PICK t \in Threads : (\E c \in Calls : Start(t, c)) \/ LogFirst(t) \/ OpenAfterLog(t) \/ LogAndReturn(t)
  BY DEF RecorderNext
<1>2. CASE \E c \in Calls : Start(t, c)
  <2>1. PICK c \in Calls : Start(t, c)
    BY <1>2
  <2>2. MayStart(t, c)
    BY <2>1 DEF Start
  <2>3. CASE MarkNow(t, c)
    BY <2>2, <2>3, MarkTurn, MarkOwes
  <2>4. CASE Perform(t, c) /\ UNCHANGED vars
    <3>1. CASE Rename1(t, c)
      BY <2>2, <2>4, <3>1, RenameTurn, RenameOwes
    <3>2. CASE RemoveFile(t, c) \/ RemoveDir(t, c)
      BY <2>2, <2>4, <3>2, RemoveTurn, RemoveOwes
    <3>3. CASE CreateDir(t, c)
      BY <2>2, <2>4, <3>3, CreateDirTurn, CreateDirOwes
    <3>4. CASE SyncDir(t, c) \/ SyncFile(t, c)
      BY <2>2, <2>4, <3>4, SyncTurn, SyncOwes
    <3>5. CASE WriteFile(t, c)
      BY <2>2, <2>4, <3>5, WriteTurn, WriteOwes
    <3>6. CASE SetLen1(t, c)
      BY <2>2, <2>4, <3>6, SetLenTurn, SetLenOwes
    <3>7. CASE Look(t, c)
      BY <2>2, <2>4, <3>7, LookTurn, LookOwes
    <3>8. CASE Open(t, c) \/ Seek(t, c)
      BY <2>2, <2>4, <3>8, OpenTurn, OpenOwes
    <3> QED BY <2>4, <3>1, <3>2, <3>3, <3>4, <3>5, <3>6, <3>7, <3>8 DEF Perform
  <2> QED BY <2>1, <2>3, <2>4 DEF Start
<1>3. CASE LogFirst(t)
  BY <1>3, LogFirstTurn, LogFirstOwes
<1>4. CASE OpenAfterLog(t)
  BY <1>4, OpenAfterLogTurn, OpenAfterLogOwes
<1>5. CASE LogAndReturn(t)
  BY <1>5, LogAndReturnTurn, LogAndReturnOwes
<1> QED BY <1>1, <1>2, <1>3, <1>4, <1>5

LEMMA NextSyncInv ==
    ASSUME ~OpenMayFail, WritesSomething, RecorderInv, SyncInv, [RecorderNext]_recorderVars
    PROVE  SyncInv'
<1>1. CASE RecorderNext
  <2>1. PICK t \in Threads : \E P : Turn(t, P) /\ Owes(t, P)
    BY <1>1, StepOwes
  <2>2. PICK P : Turn(t, P) /\ Owes(t, P)
    BY <2>1
  <2> QED BY <2>2, SyncTurnKeeps
<1>2. CASE UNCHANGED recorderVars
  <2>1. UNCHANGED vars /\ real' = real /\ synced' = synced /\ file' = file /\ doing' = doing
    BY <1>2 DEF recorderVars, disk
  <2>2. TypeOK' /\ PendingOK' /\ profile' = profile /\ micro' = micro /\ v' = v /\ failed' = failed
    BY <2>1, SameTables DEF SyncInv
  <2>3. Busy' = Busy /\ \A t \in Threads : PathsOf(t)' = PathsOf(t)
    BY <2>1 DEF Busy, PathsOf, Uses
  <2> QED BY <2>1, <2>2, <2>3 DEF SyncInv, AllSynced, Busy
<1> QED BY <1>1, <1>2

\* Of the same programs, on a file system whose journal does not commit the size
\* of one file with the fsync of another: when no call is under way, a file of
\* the log that has no data in flight has the content of its last sync_all or
\* sync_data on disk, although the barrier is logged after it was done and by
\* the path the file then has (Recorder, fsync).
THEOREM RecordedIsSynced ==
    ASSUME ~OpenMayFail, WritesSomething, "ext4" \notin Profiles
    PROVE  RecorderSpec => []DurableWasSynced
<1> DEFINE Both == RecorderInv /\ SyncInv
<1>1. RecorderInit => Both
  BY InitRecorderInv, InitSyncInv
<1>2. Both /\ [RecorderNext]_recorderVars => Both'
  BY NextRecorderInv, NextSyncInv
<1>3. Both => DurableWasSynced
  BY InvDurable
<1> QED BY <1>1, <1>2, <1>3, PTL DEF RecorderSpec
=============================================================================
