--------------------------- MODULE RecoveryProofs ---------------------------
(***************************************************************************)
(* Proofs about check_with_recovery.                                       *)
(***************************************************************************)
EXTENDS Recovery, Induction

\* A first crash carries the marks before its point.
LEMMA CrashMarks ==
    ASSUME NEW c \in FirstCrashes
    PROVE  c.marks = MarksBefore[c.point + 1] /\ c.tree \in Trees
BY DEF FirstCrashes, Crash

AtWork == [crash : FirstCrashes, step : {"insert", "push", "verify"}]

\* What the threads hold.
RecoveryTypeOK ==
    /\ jobs \in Seq(FirstCrashes) /\ next \in Nat
    /\ worker \in [Workers -> {Idle} \cup AtWork]

\* Of a thread's state: past the insert, a recovery that wrote is noted in s.
Noted(at, s) ==
    (at.step \in {"push", "verify"} /\ at.crash.tree \in Writing) => at.crash.tree \in s

\* A recovery that writes is noted before its crash state is verified, so
\* before the checker's call on it ends.
NotedFirst ==
    /\ \A t \in Writing : (\E m : <<t, m>> \in called) => t \in seen
    /\ \A w \in Workers : Noted(worker[w], seen)

RecoveryInv == RecoveryTypeOK /\ NotedFirst /\ RecoveryMarksAreReal

\* Noting more takes nothing off.
LEMMA NotedMore ==
    ASSUME NEW at, NEW s, NEW t, s \subseteq t, Noted(at, s) PROVE Noted(at, t)
BY DEF Noted

\* Before the first call nothing was seen and nobody is at work.
LEMMA InitRecoveryInv == RecoveryInit => RecoveryInv
<1> SUFFICES ASSUME RecoveryInit PROVE RecoveryInv OBVIOUS
<1>1. RecoveryTypeOK
  BY RecoveryAssumption DEF RecoveryInit, RecoveryTypeOK
<1>2. NotedFirst
  BY DEF RecoveryInit, NotedFirst, Noted, Idle
<1>3. RecoveryMarksAreReal
  BY DEF RecoveryInit, RecoveryMarksAreReal
<1> QED BY <1>1, <1>2, <1>3 DEF RecoveryInv

\* Each step of check_with_recovery keeps the types and what was noted.
LEMMA NextRecoveryInv == RecoveryInv /\ [RecoveryNext]_recoveryVars => RecoveryInv'
<1> SUFFICES ASSUME RecoveryInv, [RecoveryNext]_recoveryVars PROVE RecoveryInv' OBVIOUS
<1> USE DEF RecoveryInv
<1>s. ASSUME NEW w \in Workers, StartJob(w) PROVE RecoveryInv'
  <2> DEFINE c == jobs[next + 1]
  <2>1. c \in FirstCrashes /\ c.tree \in Trees
    BY <1>s, CrashMarks DEF StartJob, RecoveryTypeOK
  <2>2. RecoveryTypeOK'
    <3>1. [crash |-> c, step |-> "verify"] \in AtWork /\ [crash |-> c, step |-> "insert"] \in AtWork
      BY <2>1 DEF AtWork
    <3>2. worker' \in [Workers -> {Idle} \cup AtWork]
      BY <1>s, <3>1 DEF StartJob, RecoveryTypeOK
    <3> QED BY <1>s, <3>2 DEF StartJob, RecoveryTypeOK
  <2>3. NotedFirst'
    <3>1. CASE Recover[c.tree] = "fails"
      BY <1>s, <2>1, <3>1 DEF StartJob, NotedFirst, Call, Writing
    <3>2. CASE Recover[c.tree] = "quiet"
      <4>1. /\ worker' = [worker EXCEPT ![w] = [crash |-> c, step |-> "verify"]]
            /\ called' = called /\ seen' = seen
        BY <1>s, <3>2 DEF StartJob
      <4>2. \A u \in Workers : u # w => worker'[u] = worker[u]
        BY <4>1 DEF RecoveryTypeOK
      <4>3. worker'[w] = [crash |-> c, step |-> "verify"]
        BY <4>1 DEF RecoveryTypeOK
      <4>4. Noted(worker'[w], seen')
        BY <4>3, <3>2 DEF Writing, Noted
      <4>5. \A u \in Workers : Noted(worker'[u], seen')
        BY <4>1, <4>2, <4>4 DEF NotedFirst
      <4> QED BY <4>1, <4>5 DEF NotedFirst
    <3>3. CASE Recover[c.tree] = "writes"
      <4>1. /\ worker' = [worker EXCEPT ![w] = [crash |-> c, step |-> "insert"]]
            /\ called' = called /\ seen' = seen
        BY <1>s, <3>3 DEF StartJob
      <4>2. \A u \in Workers : u # w => worker'[u] = worker[u]
        BY <4>1 DEF RecoveryTypeOK
      <4>3. worker'[w] = [crash |-> c, step |-> "insert"]
        BY <4>1 DEF RecoveryTypeOK
      <4>4. Noted(worker'[w], seen')
        BY <4>3, <3>3 DEF Writing, Noted
      <4>5. \A u \in Workers : Noted(worker'[u], seen')
        BY <4>1, <4>2, <4>4 DEF NotedFirst
      <4> QED BY <4>1, <4>5 DEF NotedFirst
    <3> QED BY <1>s, <3>1, <3>2, <3>3 DEF StartJob
  <2>4. RecoveryMarksAreReal'
    BY <1>s DEF StartJob, RecoveryMarksAreReal
  <2> QED BY <2>2, <2>3, <2>4
<1>m. ASSUME NEW w \in Workers, Insert(w) \/ Push(w) \/ Verify(w) PROVE RecoveryInv'
  <2>1. worker[w] \in AtWork /\ worker[w].crash \in FirstCrashes
    BY <1>m DEF RecoveryTypeOK, Insert, Push, Verify, At, Idle, AtWork
  <2>2. RecoveryTypeOK'
    <3>1. CASE Insert(w)
      BY <2>1, <3>1 DEF Insert, Goto, RecoveryTypeOK, AtWork
    <3>2. CASE Push(w)
      BY <2>1, <3>2 DEF Push, Goto, RecoveryTypeOK, AtWork
    <3>3. CASE Verify(w)
      BY <2>1, <3>3 DEF Verify, RecoveryTypeOK
    <3> QED BY <1>m, <3>1, <3>2, <3>3
  <2>3. NotedFirst'
    <3>1. CASE Insert(w)
      <4> DEFINE c == worker[w].crash
      <4>1. /\ seen' = seen \cup {c.tree} /\ called' = called
            /\ \A u \in Workers : u # w => worker'[u] = worker[u]
            /\ worker'[w].crash = c
        BY <2>1, <3>1 DEF Insert, Goto, RecoveryTypeOK, TraceHash, AtWork
      <4>2. Noted(worker'[w], seen')
        BY <4>1 DEF Noted
      <4>3. \A u \in Workers : Noted(worker'[u], seen')
        BY <4>1, <4>2, NotedMore DEF NotedFirst
      <4> QED BY <4>1, <4>3 DEF NotedFirst
    <3>2. CASE Push(w)
      <4>1. /\ seen' = seen /\ called' = called
            /\ \A u \in Workers : u # w => worker'[u] = worker[u]
            /\ worker'[w].crash = worker[w].crash
        BY <2>1, <3>2 DEF Push, Goto, RecoveryTypeOK, AtWork
      <4>2. worker[w].crash.tree \in Writing => worker[w].crash.tree \in seen
        BY <3>2 DEF Push, At, NotedFirst, Noted
      <4>3. Noted(worker'[w], seen')
        BY <4>1, <4>2 DEF Noted
      <4>4. \A u \in Workers : Noted(worker'[u], seen')
        BY <4>1, <4>3 DEF NotedFirst
      <4> QED BY <4>1, <4>4 DEF NotedFirst
    <3>3. CASE Verify(w)
      BY <2>1, <3>3 DEF Verify, At, Call, RecoveryTypeOK, NotedFirst, Noted, Idle
    <3> QED BY <1>m, <3>1, <3>2, <3>3
  <2>4. RecoveryMarksAreReal'
    BY <1>m, <2>1, CrashMarks DEF Insert, Push, Verify, RecoveryMarksAreReal
  <2> QED BY <2>2, <2>3, <2>4
<1>e. ASSUME Explain PROVE RecoveryInv'
  <2>1. PICK c \in Trials \cup Unacknowledged :
           LET new == Recover[c.tree] = "writes" /\ TraceHash(c) \notin seen
           IN  /\ Call(c)
               /\ seen' = IF new THEN seen \cup {TraceHash(c)} ELSE seen
               /\ recoveries' = IF new THEN recoveries \cup {c} ELSE recoveries
    BY <1>e DEF Explain
  <2>2. CASE c \in Trials
    <3>1. c \in FirstCrashes
      BY <2>2, RecoveryAssumption
    <3>2. RecoveryTypeOK'
      BY <1>e DEF Explain, RecoveryTypeOK
    <3>3. NotedFirst'
      <4>1. /\ called' = called \cup {<<c.tree, c.marks>>} /\ worker' = worker
            /\ seen \subseteq seen'
        BY <1>e, <2>1 DEF Explain, Call
      <4>2. c.tree \in Writing => c.tree \in seen'
        BY <2>1 DEF TraceHash, Writing
      <4>3. \A w \in Workers : Noted(worker'[w], seen')
        BY <4>1, NotedMore DEF NotedFirst
      <4>4. \A t \in Writing : (\E m : <<t, m>> \in called') => t \in seen'
        BY <4>1, <4>2 DEF NotedFirst
      <4> QED BY <4>3, <4>4 DEF NotedFirst
    <3>4. RecoveryMarksAreReal'
      BY <1>e, <2>1, <3>1, CrashMarks DEF Explain, RecoveryMarksAreReal
    <3> QED BY <3>2, <3>3, <3>4
  <2>3. CASE c \in Unacknowledged
    <3>1. PICK d \in Trials \cup {jobs[i] : i \in DOMAIN jobs} :
             <<d.tree, d.marks>> \in called /\ c = [d EXCEPT !.marks = 0]
      BY <2>3 DEF Unacknowledged
    <3>2. d \in FirstCrashes /\ d.tree \in Trees
      BY RecoveryAssumption, CrashMarks DEF RecoveryTypeOK
    <3>3. c.tree = d.tree
      BY <3>1, <3>2 DEF FirstCrashes, Crash
    <3>4. Recover[c.tree] = "writes" => TraceHash(c) \in seen
      BY <3>1, <3>2, <3>3 DEF NotedFirst, Writing, TraceHash
    <3>5. seen' = seen /\ recoveries' = recoveries
      BY <2>1, <3>4
    <3>6. RecoveryTypeOK'
      BY <1>e DEF Explain, RecoveryTypeOK
    <3>7. NotedFirst'
      BY <1>e, <2>1, <3>4, <3>5 DEF Explain, NotedFirst, Call, TraceHash, Writing
    <3>8. RecoveryMarksAreReal'
      BY <1>e, <3>5 DEF Explain, RecoveryMarksAreReal
    <3> QED BY <3>6, <3>7, <3>8
  <2> QED BY <2>2, <2>3
<1>x. CASE Explore
  BY <1>x DEF Explore, RecoveryTypeOK, NotedFirst, RecoveryMarksAreReal
<1>o. CASE \/ PoolEnds \/ CheckEnds \/ CheckFails \/ ExploreFails
           \/ OutOfBudget \/ Finish \/ Done \/ UNCHANGED recoveryVars
  BY <1>o DEF PoolEnds, CheckEnds, CheckFails, ExploreFails, OutOfBudget, Finish, Done,
              recoveryVars, RecoveryTypeOK, NotedFirst, RecoveryMarksAreReal
<1> QED BY <1>s, <1>m, <1>e, <1>x, <1>o DEF RecoveryNext, Thread

\* Every recovery that check_with_recovery explores is verified with the marks
\* of its crash point, for every workload, recovery, verifier and schedule.
THEOREM RecoveryMarks == RecoverySpec => []RecoveryMarksAreReal
<1>1. RecoveryInv => RecoveryMarksAreReal
  BY DEF RecoveryInv
<1> QED BY InitRecoveryInv, NextRecoveryInv, <1>1, PTL DEF RecoverySpec
-----------------------------------------------------------------------------
(* The budget *)

\* Only a recovery that wrote something is on its way to being noted, or noted.
OnlyWriting ==
    /\ \A r \in recoveries : r.tree \in Writing
    /\ \A w \in Workers : worker[w].step \in {"insert", "push"} => worker[w].crash.tree \in Writing

\* What the phases keep of the budget; the fields are those the last step sets.
BudgetOK ==
    /\ phase \in {"pool", "explain", "explore", "done"}
    /\ phase # "pool" => AllIdle
    /\ phase = "explore" => /\ {"recovery_states", "truncated", "vulnerabilities"} \subseteq DOMAIN report
                            /\ report.recovery_states \in 0..MaxStates
    /\ phase = "done" => \/ report = Err
                         \/ /\ report.recovery_states \in 0..MaxStates
                            /\ recoveries # {} => report.truncated

BudgetInv == RecoveryInv /\ OnlyWriting /\ BudgetOK

\* The lesser of two numbers.
LEMMA MinOfTwo ==
    ASSUME NEW a \in Nat, NEW b \in Nat
    PROVE  Min({a, b}) \in Nat /\ Min({a, b}) <= a /\ Min({a, b}) <= b
<1>1. \E x \in {a, b} : \A y \in {a, b} : x <= y
  OBVIOUS
<1>2. Min({a, b}) \in {a, b} /\ \A y \in {a, b} : Min({a, b}) <= y
  BY <1>1 DEF Min
<1> QED BY <1>2

\* The states of one recovery stay within what is left.
LEMMA TakenFits ==
    ASSUME NEW r, r.tree \in Writing, NEW budget \in Nat
    PROVE  Len(Taken(r, budget)) \in 0..budget
<1> DEFINE all == SecondCrash[r.tree]
           n   == Min({budget, Len(all)})
<1>1. all \in Seq(Trees) /\ Len(all) \in Nat
  BY RecoveryAssumption
<1>2. n \in 0..budget /\ n <= Len(all)
  BY <1>1, MinOfTwo
<1>3. Len(SubSeq(all, 1, n)) = n
  BY <1>1, <1>2
<1> QED BY <1>2, <1>3 DEF Taken

\* The first check starts with nothing to explain and nothing spent.
LEMMA InitBudgetInv == RecoveryInit => BudgetInv
<1> SUFFICES ASSUME RecoveryInit PROVE BudgetInv OBVIOUS
<1>1. OnlyWriting
  BY DEF RecoveryInit, OnlyWriting, Idle
<1>2. BudgetOK
  BY DEF RecoveryInit, BudgetOK
<1> QED BY <1>1, <1>2, InitRecoveryInv DEF BudgetInv

\* Only recoveries that write are pushed.
LEMMA NextOnlyWriting ==
    ASSUME RecoveryInv, OnlyWriting, [RecoveryNext]_recoveryVars
    PROVE  OnlyWriting'
<1>t. RecoveryTypeOK
  BY DEF RecoveryInv
<1>s. ASSUME NEW w \in Workers, StartJob(w) PROVE OnlyWriting'
  <2> DEFINE c == jobs[next + 1]
  <2>1. c.tree \in Trees
    BY <1>s, <1>t, CrashMarks DEF StartJob, RecoveryTypeOK
  <2>2. /\ \A u \in Workers : u # w => worker'[u] = worker[u]
        /\ recoveries' = recoveries
    BY <1>s, <1>t DEF StartJob, RecoveryTypeOK
  <2>3. \/ worker'[w] = worker[w]
        \/ worker'[w] = [crash |-> c, step |-> "verify"]
        \/ worker'[w] = [crash |-> c, step |-> "insert"] /\ c.tree \in Writing
    BY <1>s, <1>t, <2>1 DEF StartJob, RecoveryTypeOK, Writing
  <2> QED BY <2>2, <2>3 DEF OnlyWriting
<1>m. ASSUME NEW w \in Workers, Insert(w) \/ Push(w) \/ Verify(w) PROVE OnlyWriting'
  <2>1. worker[w] \in AtWork
    BY <1>m, <1>t DEF RecoveryTypeOK, Insert, Push, Verify, At, Idle, AtWork
  <2>2. \A u \in Workers : u # w => worker'[u] = worker[u]
    BY <1>m, <1>t DEF Insert, Push, Verify, Goto, RecoveryTypeOK
  <2>3. CASE Insert(w)
    BY <1>t, <2>1, <2>2, <2>3 DEF Insert, At, Goto, RecoveryTypeOK, AtWork, OnlyWriting
  <2>4. CASE Push(w)
    <3>1. worker[w].crash.tree \in Writing
      BY <2>4 DEF Push, At, OnlyWriting
    <3>2. worker'[w].step = "verify"
      BY <1>t, <2>1, <2>4 DEF Push, Goto, RecoveryTypeOK, AtWork
    <3> QED BY <2>2, <2>4, <3>1, <3>2 DEF Push, OnlyWriting
  <2>5. CASE Verify(w)
    BY <1>t, <2>2, <2>5 DEF Verify, RecoveryTypeOK, OnlyWriting, Idle
  <2> QED BY <1>m, <2>3, <2>4, <2>5
<1>e. ASSUME Explain PROVE OnlyWriting'
  <2>1. PICK c \in Trials \cup Unacknowledged :
           LET new == Recover[c.tree] = "writes" /\ TraceHash(c) \notin seen
           IN  recoveries' = IF new THEN recoveries \cup {c} ELSE recoveries
    BY <1>e DEF Explain
  <2>2. c.tree \in Trees
    <3>1. CASE c \in Trials
      BY <3>1, RecoveryAssumption, CrashMarks
    <3>2. CASE c \in Unacknowledged
      <4>1. PICK d \in Trials \cup {jobs[i] : i \in DOMAIN jobs} : c = [d EXCEPT !.marks = 0]
        BY <3>2 DEF Unacknowledged
      <4>2. d \in FirstCrashes /\ d.tree \in Trees
        BY <1>t, RecoveryAssumption, CrashMarks DEF RecoveryTypeOK
      <4> QED BY <4>1, <4>2 DEF FirstCrashes, Crash
    <3> QED BY <3>1, <3>2
  <2>3. worker' = worker
    BY <1>e DEF Explain
  <2> QED BY <2>1, <2>2, <2>3 DEF OnlyWriting, Writing
<1>x. CASE Explore
  BY <1>x DEF Explore, OnlyWriting
<1>o. CASE \/ PoolEnds \/ CheckEnds \/ CheckFails \/ ExploreFails
           \/ OutOfBudget \/ Finish \/ Done \/ UNCHANGED recoveryVars
  BY <1>o DEF PoolEnds, CheckEnds, CheckFails, ExploreFails, OutOfBudget, Finish, Done,
              recoveryVars, OnlyWriting
<1> QED BY <1>s, <1>m, <1>e, <1>x, <1>o DEF RecoveryNext, Thread

\* Threads work in the pool only.
LEMMA ThreadInPool ==
    ASSUME BudgetOK, NEW w \in Workers, Thread(w)
    PROVE  phase = "pool" /\ phase' = phase
<1>1. worker[w] = Idle => StartJob(w)
  BY DEF Thread, Insert, Push, Verify, At, Idle
<1>2. phase = "pool"
  BY <1>1 DEF BudgetOK, AllIdle, StartJob
<1>3. phase' = phase
  BY DEF Thread, StartJob, Insert, Push, Verify
<1> QED BY <1>2, <1>3

\* Each step keeps what is left of the budget and the report in step.
LEMMA NextBudgetOK ==
    ASSUME OnlyWriting, BudgetOK, [RecoveryNext]_recoveryVars
    PROVE  BudgetOK'
<1>0. MaxStates \in Nat
  BY RecoveryAssumption
<1>t. ASSUME NEW w \in Workers, Thread(w) PROVE BudgetOK'
  <2>1. phase = "pool" /\ phase' = phase
    BY <1>t, ThreadInPool
  <2> QED BY <2>1 DEF BudgetOK
<1>e. CASE Explain
  BY <1>e DEF Explain, BudgetOK, AllIdle
<1>p. CASE PoolEnds
  BY <1>p DEF PoolEnds, BudgetOK, AllIdle
<1>c. CASE CheckEnds
  BY <1>c, <1>0 DEF CheckEnds, BudgetOK, AllIdle
<1>f. CASE CheckFails \/ ExploreFails
  BY <1>f DEF CheckFails, ExploreFails, BudgetOK, AllIdle
<1>x. ASSUME Explore PROVE BudgetOK'
  <2>1. report.recovery_states \in 0..MaxStates /\ phase = "explore"
    BY <1>x DEF Explore, BudgetOK
  <2>2. Budget \in Nat /\ report.recovery_states + Budget <= MaxStates
    BY <1>0, <2>1 DEF Budget
  <2>3. PICK r \in recoveries :
           /\ DOMAIN report' = {"recovery_states", "failures", "truncated", "vulnerabilities"}
           /\ report'.recovery_states = report.recovery_states + Len(Taken(r, Budget))
    BY <1>x DEF Explore
  <2>4. Len(Taken(r, Budget)) \in 0..Budget
    BY <2>2, TakenFits DEF OnlyWriting
  <2>5. report'.recovery_states \in 0..MaxStates
    BY <1>0, <2>1, <2>2, <2>3, <2>4
  <2>6. phase' = "explore"
    BY <1>x, <2>1 DEF Explore
  <2>7. AllIdle'
    BY <1>x, <2>1 DEF Explore, BudgetOK, AllIdle
  <2> QED BY <2>3, <2>5, <2>6, <2>7 DEF BudgetOK
<1>b. CASE OutOfBudget
  BY <1>b DEF OutOfBudget, BudgetOK, AllIdle
<1>n. CASE Finish \/ Done \/ UNCHANGED recoveryVars
  BY <1>n DEF Finish, Done, recoveryVars, BudgetOK, AllIdle
<1> QED BY <1>t, <1>e, <1>p, <1>c, <1>f, <1>x, <1>b, <1>n DEF RecoveryNext

\* All recoveries together use at most max_states, and a report that left some
\* unexplored says it was truncated (check_with_recovery, budget).
THEOREM RecoveryWithinBudget == RecoverySpec => []WithinBudget
<1>1. BudgetInv /\ [RecoveryNext]_recoveryVars => BudgetInv'
  BY NextRecoveryInv, NextOnlyWriting, NextBudgetOK DEF BudgetInv
<1>2. BudgetInv => WithinBudget
  BY RecoveryAssumption DEF BudgetInv, BudgetOK, WithinBudget, Returned
<1> QED BY InitBudgetInv, <1>1, <1>2, PTL DEF RecoverySpec
-----------------------------------------------------------------------------
(* The order of the recoveries *)

Found == {v \in DOMAIN report.vulnerabilities : v[1] = "recovery"}

\* What the checks named, and of the recoveries after which crash.
NamedInRecovery(s) == s \in reported /\ s.where = "recovery"

\* The vulnerabilities found so far are those the checks named, each with the
\* first crash of one that named it, and with none later than any that did.
FoundEarly ==
    /\ \A v \in Found : /\ v = <<"recovery", v[2]>>
                        /\ "in_recovery" \in DOMAIN report.vulnerabilities[v]
    /\ \A s \in reported : \A c \in s.named : <<s.where, c>> \in DOMAIN report.vulnerabilities
    /\ \A v \in Found : \E s : /\ NamedInRecovery(s) /\ v[2] \in s.named
                               /\ report.vulnerabilities[v].in_recovery = s.point
    /\ \A v \in Found, s \in reported :
          (NamedInRecovery(s) /\ v[2] \in s.named) => report.vulnerabilities[v].in_recovery <= s.point

\* The recoveries left are no earlier than those checked.
LeftLater ==
    \A s \in reported : s.where = "recovery" =>
        /\ s.point \in Nat
        /\ \A q \in recoveries : s.point <= q.point

EarlyOK ==
    /\ \A r \in recoveries : r.point \in Nat
    /\ phase = "explore" => FoundEarly /\ LeftLater
    /\ phase = "done" => report = Err \/ FoundEarly

EarlyInv == BudgetInv /\ EarlyOK

\* What Merge does: new vulnerabilities get this point, old ones keep theirs.
Merged(new, tally, point) ==
    /\ DOMAIN new = DOMAIN report.vulnerabilities \cup {<<"recovery", c>> : c \in DOMAIN tally}
    /\ \A v \in DOMAIN new \ DOMAIN report.vulnerabilities :
          /\ v = <<"recovery", v[2]>>
          /\ "in_recovery" \in DOMAIN new[v] /\ new[v].in_recovery = point
    /\ \A v \in Found :
          /\ "in_recovery" \in DOMAIN new[v]
          /\ new[v].in_recovery = report.vulnerabilities[v].in_recovery

\* Merging a recovery's tally drops no vulnerability and no earlier first crash,
\* and gives the new ones the point they are found at.
LEMMA MergeKeeps ==
    ASSUME NEW tally, NEW point, FoundEarly
    PROVE  Merged(Merge(tally, point), tally, point)
<1> DEFINE old == report.vulnerabilities
           new == Merge(tally, point)
           hit == {<<"recovery", c>> : c \in DOMAIN tally}
<1>1. new = [v \in DOMAIN old \cup hit |->
               IF v \notin DOMAIN old THEN [occurrences |-> tally[v[2]], in_recovery |-> point]
               ELSE IF v \in hit THEN [old[v] EXCEPT !.occurrences = @ + tally[v[2]]]
               ELSE old[v]]
  BY DEF Merge, Slot
<1>2. DOMAIN new = DOMAIN old \cup hit
  BY <1>1
<1>3. ASSUME NEW v \in DOMAIN new \ DOMAIN old
      PROVE  /\ v = <<"recovery", v[2]>>
             /\ "in_recovery" \in DOMAIN new[v] /\ new[v].in_recovery = point
  <2>1. new[v] = [occurrences |-> tally[v[2]], in_recovery |-> point]
    BY <1>1, <1>2
  <2>2. PICK c \in DOMAIN tally : v = <<"recovery", c>>
    BY <1>2
  <2> QED BY <2>1, <2>2
<1>4. ASSUME NEW v \in Found
      PROVE  "in_recovery" \in DOMAIN new[v] /\ new[v].in_recovery = old[v].in_recovery
  <2>1. v \in DOMAIN old /\ "in_recovery" \in DOMAIN old[v]
    BY DEF Found, FoundEarly
  <2>2. CASE v \in hit
    <3>1. new[v] = [old[v] EXCEPT !.occurrences = old[v].occurrences + tally[v[2]]]
      BY <1>1, <1>2, <2>1, <2>2
    <3> QED BY <2>1, <3>1
  <2>3. CASE v \notin hit
    <3>1. new[v] = old[v]
      BY <1>1, <1>2, <2>1, <2>3
    <3> QED BY <2>1, <3>1
  <2> QED BY <2>2, <2>3
<1> QED BY <1>2, <1>3, <1>4 DEF Merged

\* What a check says of its failures: each is put down to one cause or, where
\* the limit was met, to none.
LEMMA ExplanationIs ==
    ASSUME NEW failing, NEW e \in Explanations(failing)
    PROVE  \E kept \in SUBSET failing : \E cause \in [kept -> Causes] :
              e.tally = Tally(cause) /\ (~e.limit_met => kept = failing)
<1> DEFINE causes == UNION {[kept -> Causes] : kept \in SUBSET failing}
<1>1. PICK m \in SUBSET failing, cause \in causes :
         /\ Attributed(failing, m, cause)
         /\ e = [tally |-> Tally(cause), limit_met |-> Cardinality(m) = ExplainLimit]
  BY DEF Explanations
<1>2. PICK kept \in SUBSET failing : cause \in [kept -> Causes]
  OBVIOUS
<1>3. e.tally = Tally(cause) /\ e.limit_met = (Cardinality(m) = ExplainLimit)
  BY <1>1
<1>4. ASSUME ~e.limit_met PROVE kept = failing
  <2>1. m \subseteq kept /\ \A i \in failing \ m : i \in kept
    BY <1>1, <1>2, <1>3, <1>4 DEF Attributed
  <2> QED BY <2>1
<1> QED BY <1>2, <1>3, <1>4

\* Before the first check no vulnerability is found.
LEMMA InitEarlyInv == RecoveryInit => EarlyInv
<1> SUFFICES ASSUME RecoveryInit PROVE EarlyInv OBVIOUS
<1>1. EarlyOK
  BY DEF RecoveryInit, EarlyOK
<1> QED BY <1>1, InitBudgetInv DEF EarlyInv

\* Exploring the next recovery keeps what is found early.
LEMMA ExploreKeepsEarly ==
    ASSUME EarlyOK, Explore
    PROVE  EarlyOK'
<1>1. phase = "explore" /\ phase' = "explore" /\ FoundEarly /\ LeftLater
  BY DEF Explore, EarlyOK
<1>2. PICK r \in recoveries : \E e :
         /\ NextRecovery(r)
         /\ recoveries' = recoveries \ {r}
         /\ report'.vulnerabilities = Merge(e.tally, r.point)
         /\ reported' = reported \cup {[where |-> "recovery", point |-> r.point,
                                        named |-> DOMAIN e.tally, limit_met |-> e.limit_met]}
  BY DEF Explore
<1>3. PICK e :
         /\ NextRecovery(r)
         /\ recoveries' = recoveries \ {r}
         /\ report'.vulnerabilities = Merge(e.tally, r.point)
         /\ reported' = reported \cup {[where |-> "recovery", point |-> r.point,
                                        named |-> DOMAIN e.tally, limit_met |-> e.limit_met]}
  BY <1>2
<1> DEFINE tally == e.tally
           old   == report.vulnerabilities
           new   == report'.vulnerabilities
           this  == [where |-> "recovery", point |-> r.point,
                     named |-> DOMAIN e.tally, limit_met |-> e.limit_met]
<1>4. /\ this.where = "recovery" /\ this.point = r.point /\ this.named = DOMAIN tally
      /\ reported' = reported \cup {this}
  BY <1>3
<1>5. /\ \A q \in recoveries : q.point \in Nat /\ r.point <= q.point
      /\ \A s \in reported : s.where = "recovery" => s.point \in Nat /\ s.point <= r.point
  BY <1>1, <1>3 DEF EarlyOK, NextRecovery, LeftLater
<1>6. Merged(new, tally, r.point)
  <2>1. new = Merge(tally, r.point)
    BY <1>3
  <2>2. Merged(Merge(tally, r.point), tally, r.point)
    BY <1>1, MergeKeeps
  <2> QED BY <2>1, <2>2
<1> HIDE DEF tally, new, this
<1>7. /\ DOMAIN new = DOMAIN old \cup {<<"recovery", c>> : c \in DOMAIN tally}
      /\ \A v \in DOMAIN new \ DOMAIN old :
            /\ v = <<"recovery", v[2]>>
            /\ "in_recovery" \in DOMAIN new[v] /\ new[v].in_recovery = r.point
      /\ \A v \in Found : /\ "in_recovery" \in DOMAIN new[v]
                          /\ new[v].in_recovery = old[v].in_recovery
  BY <1>6 DEF Merged
<1>8. Found' = {v \in DOMAIN new : v[1] = "recovery"}
  BY DEF Found, new
<1>9. \A v \in Found' : v \in Found \/ v \in DOMAIN new \ DOMAIN old
  BY <1>7, <1>8 DEF Found
<1>10. ASSUME NEW v \in DOMAIN new \ DOMAIN old PROVE v[2] \in DOMAIN tally
  BY <1>7
<1>11. FoundEarly'
  <2>1. ASSUME NEW v \in Found'
        PROVE  v = <<"recovery", v[2]>> /\ "in_recovery" \in DOMAIN new[v]
    BY <1>1, <1>7, <1>9 DEF FoundEarly
  <2>2. ASSUME NEW s \in reported', NEW c \in s.named PROVE <<s.where, c>> \in DOMAIN new
    BY <1>1, <1>4, <1>7 DEF FoundEarly
  <2>3. ASSUME NEW v \in Found'
        PROVE  \E s : /\ NamedInRecovery(s)' /\ v[2] \in s.named
                      /\ new[v].in_recovery = s.point
    <3>1. CASE v \in Found
      BY <1>1, <1>4, <1>7, <3>1 DEF FoundEarly, NamedInRecovery
    <3>2. CASE v \in DOMAIN new \ DOMAIN old
      BY <1>4, <1>7, <1>10, <3>2 DEF NamedInRecovery
    <3> QED BY <1>9, <3>1, <3>2
  <2>4. ASSUME NEW v \in Found', NEW s \in reported', NamedInRecovery(s)', v[2] \in s.named
        PROVE  new[v].in_recovery <= s.point
    <3>1. CASE v \in Found /\ s \in reported
      BY <1>1, <1>7, <2>4, <3>1 DEF FoundEarly, NamedInRecovery
    <3>2. CASE v \in Found /\ s \notin reported
      <4>1. s.point = r.point
        BY <1>4, <3>2
      <4>2. PICK q : NamedInRecovery(q) /\ old[v].in_recovery = q.point
        BY <1>1, <3>2 DEF FoundEarly
      <4>3. q.point <= r.point
        BY <1>5, <4>2 DEF NamedInRecovery
      <4> QED BY <1>7, <3>2, <4>1, <4>2, <4>3
    <3>3. CASE v \notin Found /\ s \in reported
      <4>1. s.where = "recovery" /\ v = <<"recovery", v[2]>>
        BY <2>1, <2>4 DEF NamedInRecovery
      <4>2. <<"recovery", v[2]>> \in DOMAIN old
        BY <1>1, <2>4, <3>3, <4>1 DEF FoundEarly
      <4> QED BY <1>8, <3>3, <4>1, <4>2 DEF Found
    <3>4. CASE v \notin Found /\ s \notin reported
      BY <1>4, <1>5, <1>7, <1>9, <3>4
    <3> QED BY <3>1, <3>2, <3>3, <3>4
  <2> QED BY <2>1, <2>2, <2>3, <2>4 DEF FoundEarly, new
<1>12. LeftLater'
  BY <1>3, <1>4, <1>5, <1>1 DEF LeftLater
<1> QED BY <1>1, <1>3, <1>11, <1>12 DEF EarlyOK

\* Each step keeps the earliest first crash of every vulnerability.
LEMMA NextEarlyOK ==
    ASSUME BudgetInv, EarlyOK, [RecoveryNext]_recoveryVars
    PROVE  EarlyOK'
<1>0. \A c \in FirstCrashes : c.point \in Nat
  BY DEF FirstCrashes, Crash
<1>r. RecoveryTypeOK
  BY DEF BudgetInv, RecoveryInv
<1>t. ASSUME NEW w \in Workers, Thread(w) PROVE EarlyOK'
  <2>1. phase = "pool" /\ phase' = phase
    BY <1>t, ThreadInPool DEF BudgetInv
  <2>2. \A r \in recoveries' : r.point \in Nat
    <3>1. CASE Push(w)
      <4>1. worker[w].crash \in FirstCrashes
        BY <1>r, <3>1 DEF RecoveryTypeOK, Push, At, Idle, AtWork
      <4> QED BY <1>0, <3>1, <4>1 DEF Push, EarlyOK
    <3>2. CASE StartJob(w) \/ Insert(w) \/ Verify(w)
      BY <3>2 DEF StartJob, Insert, Verify, EarlyOK
    <3> QED BY <1>t, <3>1, <3>2 DEF Thread
  <2> QED BY <2>1, <2>2 DEF EarlyOK
<1>e. ASSUME Explain PROVE EarlyOK'
  <2>1. PICK c \in Trials \cup Unacknowledged :
           recoveries' = recoveries \/ recoveries' = recoveries \cup {c}
    BY <1>e DEF Explain
  <2>2. c.point \in Nat
    <3>1. CASE c \in Trials
      BY <1>0, <3>1, RecoveryAssumption
    <3>2. CASE c \in Unacknowledged
      <4>1. PICK d \in Trials \cup {jobs[i] : i \in DOMAIN jobs} : c = [d EXCEPT !.marks = 0]
        BY <3>2 DEF Unacknowledged
      <4>2. d \in FirstCrashes
        BY <1>r, RecoveryAssumption DEF RecoveryTypeOK
      <4> QED BY <1>0, <4>1, <4>2 DEF FirstCrashes, Crash
    <3> QED BY <3>1, <3>2
  <2>3. phase = "explain" /\ phase' = phase
    BY <1>e DEF Explain
  <2> QED BY <2>1, <2>2, <2>3 DEF EarlyOK
<1>p. CASE PoolEnds
  BY <1>p DEF PoolEnds, EarlyOK
<1>c. CASE CheckEnds
  <2>1. phase' = "explore" /\ recoveries' = recoveries
    BY <1>c DEF CheckEnds
  <2>2. PICK e \in Explanations(FailingJobs) :
           /\ DOMAIN report'.vulnerabilities = {<<"workload", c>> : c \in DOMAIN e.tally}
           /\ reported' = {[where |-> "workload", named |-> DOMAIN e.tally,
                            limit_met |-> e.limit_met]}
    BY <1>c DEF CheckEnds
  <2>3. \A s \in reported' : s.where = "workload" /\ s.named = DOMAIN e.tally
    BY <2>2
  <2>4. Found' = {}
    <3>1. \A v \in DOMAIN report'.vulnerabilities : v[1] = "workload"
      BY <2>2
    <3> QED BY <3>1 DEF Found
  <2>5. FoundEarly' /\ LeftLater'
    BY <2>2, <2>3, <2>4 DEF FoundEarly, LeftLater
  <2> QED BY <2>1, <2>5 DEF EarlyOK
<1>f. CASE CheckFails \/ ExploreFails
  BY <1>f DEF CheckFails, ExploreFails, EarlyOK
<1>b. CASE OutOfBudget
  <2>1. /\ reported' = reported /\ recoveries' = recoveries
        /\ phase = "explore" /\ phase' = "done" /\ report' = [report EXCEPT !.truncated = TRUE]
        /\ "vulnerabilities" \in DOMAIN report
    BY <1>b DEF OutOfBudget, BudgetInv, BudgetOK
  <2>2. report'.vulnerabilities = report.vulnerabilities
    BY <2>1
  <2>3. FoundEarly /\ Found' = Found
    BY <2>1, <2>2 DEF EarlyOK, Found
  <2>4. FoundEarly'
    BY <2>1, <2>2, <2>3 DEF FoundEarly, NamedInRecovery
  <2> QED BY <2>1, <2>4 DEF EarlyOK
<1>n. CASE Finish \/ Done \/ UNCHANGED recoveryVars
  BY <1>n DEF Finish, Done, recoveryVars, EarlyOK, FoundEarly, LeftLater, Found,
              NamedInRecovery
<1> QED BY <1>t, <1>e, <1>p, <1>c, <1>f, <1>b, <1>n, ExploreKeepsEarly DEF RecoveryNext

\* Every cause a check named is reported, and in_recovery names the earliest
\* first crash of those after which it was named, for every workload, recovery,
\* verifier, budget, explain limit and schedule (recoveries.sort_by_key, and the
\* merge of check_with_recovery).
THEOREM RecoveryEarliest == RecoverySpec => []EarliestFirstCrash
<1>1. EarlyInv /\ [RecoveryNext]_recoveryVars => EarlyInv'
  BY NextRecoveryInv, NextOnlyWriting, NextBudgetOK, NextEarlyOK DEF EarlyInv, BudgetInv
<1>2. EarlyInv => EarliestFirstCrash
  <2> SUFFICES ASSUME EarlyInv, Returned PROVE EarliestFirstCrash
    BY DEF EarliestFirstCrash
  <2>1. FoundEarly
    BY DEF EarlyInv, EarlyOK, Returned
  <2> QED BY <2>1 DEF FoundEarly, EarliestFirstCrash, NamedAt, NamedInRecovery, Found
<1> QED BY InitEarlyInv, <1>1, <1>2, PTL DEF RecoverySpec

-----------------------------------------------------------------------------
(* Counting failures *)

Of(vs, where) == {v \in DOMAIN vs : v[1] = where}
Occurrences(vs, where) == [v \in Of(vs, where) |-> vs[v].occurrences]

\* A vulnerability has its number of occurrences, and there are finitely many.
Countable(vs) ==
    /\ IsFiniteSet(DOMAIN vs)
    /\ \A v \in DOMAIN vs : "occurrences" \in DOMAIN vs[v] /\ vs[v].occurrences \in Nat

\* The vulnerabilities that a tally is about.
Hit(tally, where) == {<<where, c>> : c \in DOMAIN tally}
Tallies(f, S, tally) == \A v \in S : f[v] = tally[v[2]]

\* The failures that a check put down to causes are counted once each.
LEMMA TallySums ==
    ASSUME NEW cause, IsFiniteSet(DOMAIN cause), NEW where, NEW S,
           S = Hit(Tally(cause), where), NEW f, Tallies(f, S, Tally(cause))
    PROVE  /\ IsFiniteSet(S) /\ \A v \in S : f[v] \in Nat
           /\ SumFunctionOnSet(f, S) = Cardinality(DOMAIN cause)
<1> DEFINE failing == DOMAIN cause
           class == [i \in failing |-> <<where, cause[i]>>]
           tally == Tally(cause)
<1>1. class \in [failing -> S] /\ \A v \in S : \E i \in failing : class[i] = v
  BY DEF Tally, Hit
<1>2. \A c \in DOMAIN tally : tally[c] = Cardinality({i \in failing : cause[i] = c})
  BY DEF Tally
<1>3. ASSUME NEW v \in S PROVE f[v] = Cardinality({i \in failing : class[i] = v})
  <2>1. PICK c \in DOMAIN tally : v = <<where, c>>
    BY DEF Hit
  <2>2. f[v] = Cardinality({i \in failing : cause[i] = c})
    BY <1>2, <2>1 DEF Tallies
  <2>3. {i \in failing : cause[i] = c} = {i \in failing : class[i] = v}
    BY <2>1
  <2> QED BY <2>2, <2>3
<1>0. IsFiniteSet(failing)
  OBVIOUS
<1> HIDE DEF class, tally, failing
<1>4. IsFiniteSet(S)
  <2>1. class \in Surjection(failing, S)
    BY <1>1 DEF Surjection
  <2> QED BY <1>0, <2>1, FS_Surjection
<1>5. \A v \in S : f[v] \in Nat
  <2>1. \A v \in S : {i \in failing : class[i] = v} \in SUBSET failing
    OBVIOUS
  <2>2. \A A \in SUBSET failing : Cardinality(A) \in Nat
    BY <1>0, FS_Subset, FS_CardinalityType
  <2> QED BY <1>3, <2>1, <2>2
<1>6. SumFunctionOnSet(f, S) = Cardinality(failing)
  BY <1>0, <1>1, <1>3, <1>4, SumOfClasses
<1> QED BY <1>4, <1>5, <1>6 DEF failing

\* What Merge leaves to count.
MergedCounts(new, tally) ==
    LET hit == Hit(tally, "recovery")
    IN  /\ Of(new, "workload") = Of(report.vulnerabilities, "workload")
        /\ \A v \in Of(new, "workload") : new[v] = report.vulnerabilities[v]
        /\ DOMAIN new = DOMAIN report.vulnerabilities \cup hit
        /\ Of(new, "recovery") = Of(report.vulnerabilities, "recovery") \cup hit
        /\ \A v \in Of(new, "recovery") :
              /\ "occurrences" \in DOMAIN new[v]
              /\ new[v].occurrences =
                    (IF v \in DOMAIN report.vulnerabilities THEN report.vulnerabilities[v].occurrences ELSE 0)
                    + (IF v \in hit THEN tally[v[2]] ELSE 0)

\* Merging adds to recovery's vulnerabilities and to no other.
LEMMA MergeCounts ==
    ASSUME NEW tally, \A c \in DOMAIN tally : tally[c] \in Nat, NEW point,
           Countable(report.vulnerabilities)
    PROVE  MergedCounts(Merge(tally, point), tally)
<1> DEFINE old == report.vulnerabilities
           new == Merge(tally, point)
           hit == Hit(tally, "recovery")
<1>1. new = [v \in DOMAIN old \cup hit |->
               IF v \notin DOMAIN old THEN [occurrences |-> tally[v[2]], in_recovery |-> point]
               ELSE IF v \in hit THEN [old[v] EXCEPT !.occurrences = @ + tally[v[2]]]
               ELSE old[v]]
  BY DEF Merge, Slot, Hit
<1>2. DOMAIN new = DOMAIN old \cup hit
  BY <1>1
<1>3. \A v \in hit : v[1] = "recovery" /\ tally[v[2]] \in Nat
  BY DEF Hit
<1>4. Of(new, "workload") = Of(old, "workload") /\ Of(new, "recovery") = Of(old, "recovery") \cup hit
  BY <1>2, <1>3 DEF Of
<1>5. \A v \in Of(new, "workload") : new[v] = old[v]
  <2>1. \A v \in Of(new, "workload") : v \in DOMAIN old /\ v \notin hit
    BY <1>3, <1>4 DEF Of
  <2> QED BY <1>1, <2>1
<1>6. ASSUME NEW v \in Of(new, "recovery")
      PROVE  /\ "occurrences" \in DOMAIN new[v]
             /\ new[v].occurrences = (IF v \in DOMAIN old THEN old[v].occurrences ELSE 0)
                                     + (IF v \in hit THEN tally[v[2]] ELSE 0)
  <2>0. v \in DOMAIN old \cup hit
    BY <1>2 DEF Of
  <2>1. CASE v \notin DOMAIN old
    <3>1. v \in hit /\ new[v] = [occurrences |-> tally[v[2]], in_recovery |-> point]
      BY <1>1, <2>0, <2>1
    <3>2. "occurrences" \in DOMAIN new[v] /\ new[v].occurrences = tally[v[2]]
      BY <3>1
    <3>3. tally[v[2]] \in Nat
      BY <1>3, <3>1
    <3>4. tally[v[2]] = 0 + tally[v[2]]
      BY <3>3
    <3> HIDE DEF new, old, hit
    <3> QED BY <2>1, <3>1, <3>2, <3>4
  <2>2. CASE v \in DOMAIN old /\ v \in hit
    <3>1. new[v] = [old[v] EXCEPT !.occurrences = old[v].occurrences + tally[v[2]]]
      BY <1>1, <2>2
    <3>2. "occurrences" \in DOMAIN old[v]
      BY <2>2 DEF Countable
    <3>3. "occurrences" \in DOMAIN new[v] /\ new[v].occurrences = old[v].occurrences + tally[v[2]]
      BY <3>1, <3>2
    <3> HIDE DEF new, old, hit
    <3> QED BY <2>2, <3>3
  <2>3. CASE v \in DOMAIN old /\ v \notin hit
    <3>1. new[v] = old[v]
      BY <1>1, <2>3
    <3>2. "occurrences" \in DOMAIN old[v] /\ old[v].occurrences \in Nat
      BY <2>3 DEF Countable
    <3>3. old[v].occurrences = old[v].occurrences + 0
      BY <3>2
    <3> HIDE DEF new, old, hit
    <3> QED BY <2>3, <3>1, <3>2, <3>3
  <2> QED BY <2>0, <2>1, <2>2, <2>3
<1>7. MergedCounts(new, tally)
  <2> HIDE DEF new
  <2> QED BY <1>2, <1>4, <1>5, <1>6 DEF MergedCounts
<1> QED BY <1>7

Count(vs, where) == SumFunction(Occurrences(vs, where))

\* The occurrences at a place, summed over the vulnerabilities found there.
LEMMA CountIs ==
    ASSUME NEW vs, NEW where
    PROVE  Count(vs, where) = SumFunctionOnSet(Occurrences(vs, where), Of(vs, where))
BY DEF Count, SumFunction, Occurrences

\* So the failures put down to causes in one recovery are added to recovery's count.
LEMMA MergeAdds ==
    ASSUME Countable(report.vulnerabilities), NEW cause, IsFiniteSet(DOMAIN cause),
           NEW point, NEW new, new = Merge(Tally(cause), point)
    PROVE  /\ Countable(new)
           /\ Count(new, "workload") = Count(report.vulnerabilities, "workload")
           /\ Count(new, "recovery") =
                 Count(report.vulnerabilities, "recovery") + Cardinality(DOMAIN cause)
<1> DEFINE old == report.vulnerabilities
           tally == Tally(cause)
           failing == DOMAIN cause
           hit == Hit(tally, "recovery")
           R == Of(old, "recovery")
           S == Of(new, "recovery")
           h == Occurrences(new, "recovery")
           f == [v \in S |-> IF v \in DOMAIN old THEN old[v].occurrences ELSE 0]
           g == [v \in S |-> IF v \in hit THEN tally[v[2]] ELSE 0]
<1>1. \A c \in DOMAIN tally : tally[c] \in Nat
  <2>1. \A A \in SUBSET failing : Cardinality(A) \in Nat
    BY FS_Subset, FS_CardinalityType
  <2>2. \A c \in DOMAIN tally : /\ {i \in failing : cause[i] = c} \in SUBSET failing
                                /\ tally[c] = Cardinality({i \in failing : cause[i] = c})
    BY DEF Tally
  <2> QED BY <2>1, <2>2
<1>2. MergedCounts(new, tally)
  <2>1. MergedCounts(Merge(tally, point), tally)
    <3> HIDE DEF tally
    <3> QED BY <1>1, MergeCounts
  <2> QED BY <2>1
<1>3. /\ Of(new, "workload") = Of(old, "workload")
      /\ \A v \in Of(new, "workload") : new[v] = old[v]
      /\ DOMAIN new = DOMAIN old \cup hit /\ S = R \cup hit
      /\ \A v \in S : /\ "occurrences" \in DOMAIN new[v]
                      /\ new[v].occurrences = f[v] + g[v]
  <2> HIDE DEF tally
  <2> QED BY <1>2 DEF MergedCounts
<1>4. Count(new, "workload") = Count(old, "workload")
  <2>1. Occurrences(new, "workload") = Occurrences(old, "workload")
    <3> HIDE DEF hit, R, S, f, g, h
    <3> QED BY <1>3 DEF Occurrences
  <2> QED BY <2>1 DEF Count
<1>5. \A v \in hit : v \in S /\ g[v] = tally[v[2]]
  BY <1>3
<1>6. IsFiniteSet(hit) /\ (\A v \in hit : g[v] \in Nat) /\ SumFunctionOnSet(g, hit) = Cardinality(failing)
  <2> DEFINE where == "recovery"
  <2>1. hit = Hit(Tally(cause), where) /\ Tallies(g, hit, Tally(cause))
    BY <1>5 DEF Tallies
  <2> HIDE DEF where, hit, g, tally, old, f, h, R, S
  <2> QED BY <2>1, TallySums
<1>7. IsFiniteSet(S) /\ IsFiniteSet(R) /\ IsFiniteSet(DOMAIN new)
  <2>1. IsFiniteSet(DOMAIN old) /\ R \subseteq DOMAIN old
    BY DEF Countable, Of
  <2>2. IsFiniteSet(R)
    BY <2>1, FS_Subset
  <2> HIDE DEF hit, R, S, old
  <2>3. IsFiniteSet(R \cup hit) /\ IsFiniteSet(DOMAIN old \cup hit)
    BY <1>6, <2>1, <2>2, FS_Union
  <2> QED BY <1>3, <2>2, <2>3
<1>8. \A v \in S : f[v] \in Nat /\ g[v] \in Nat
  <2>1. \A v \in DOMAIN old : old[v].occurrences \in Nat
    BY DEF Countable
  <2>2. \A v \in S : f[v] = (IF v \in DOMAIN old THEN old[v].occurrences ELSE 0)
                     /\ (v \notin hit => g[v] = 0)
    OBVIOUS
  <2> HIDE DEF f, g, S, hit, old
  <2> QED BY <1>6, <2>1, <2>2
<1>9. \A v \in S : h[v] = f[v] + g[v]
  <2>1. \A v \in S : h[v] = new[v].occurrences
    BY DEF Occurrences
  <2> HIDE DEF f, g, h, S, R, hit, old, tally
  <2> QED BY <1>3, <2>1
<1>10. SumFunctionOnSet(f, S) = Count(old, "recovery")
  <2> DEFINE e == Occurrences(old, "recovery")
  <2>1. \A v \in R : e[v] \in Nat /\ e[v] = f[v]
    <3>1. \A v \in R : v \in DOMAIN old /\ v \in S /\ e[v] = old[v].occurrences
      BY <1>3 DEF Of, Occurrences
    <3>2. \A v \in R : f[v] = old[v].occurrences
      BY <3>1
    <3> QED BY <3>1, <3>2 DEF Countable
  <2>2. \A v \in S \ R : f[v] = 0
    <3>1. \A v \in S \ R : v \notin DOMAIN old
      BY DEF Of
    <3> QED BY <3>1
  <2>3. Count(old, "recovery") = SumFunctionOnSet(e, R)
    BY CountIs
  <2>4. R \in SUBSET S
    BY <1>3
  <2> HIDE DEF e, f, g, h, R, S, old, hit
  <2>5. SumFunctionOnSet(e, R) = SumFunctionOnSet(f, R)
    BY <1>7, <1>8, <2>1, <2>4, SumSame
  <2>6. SumFunctionOnSet(f, S) = SumFunctionOnSet(f, R)
    BY <1>7, <1>8, <2>2, <2>4, SumOverZeros
  <2> QED BY <2>3, <2>5, <2>6
<1>11. SumFunctionOnSet(g, S) = Cardinality(failing)
  <2>1. hit \in SUBSET S /\ \A v \in S \ hit : g[v] = 0
    BY <1>3
  <2> HIDE DEF f, g, h, R, S, old, hit
  <2>2. SumFunctionOnSet(g, S) = SumFunctionOnSet(g, hit)
    BY <1>7, <1>8, <2>1, SumOverZeros
  <2> QED BY <1>6, <2>2
<1>12. SumFunctionOnSet(h, S) = SumFunctionOnSet(f, S) + SumFunctionOnSet(g, S)
  <2> HIDE DEF f, g, h, R, S, old, hit
  <2> QED BY <1>7, <1>8, <1>9, SumPlus
<1>13. Count(new, "recovery") = SumFunctionOnSet(h, S)
  BY CountIs
<1>14. Countable(new)
  <2>1. ASSUME NEW v \in DOMAIN new
        PROVE  "occurrences" \in DOMAIN new[v] /\ new[v].occurrences \in Nat
    <3>1. CASE v \in S
      <4>1. new[v].occurrences = f[v] + g[v] /\ f[v] \in Nat /\ g[v] \in Nat
        BY <1>3, <1>8, <3>1
      <4> HIDE DEF f, g
      <4>2. f[v] + g[v] \in Nat
        BY <4>1
      <4> QED BY <1>3, <3>1, <4>1, <4>2
    <3>2. CASE v \notin S
      <4>1. v \in DOMAIN old /\ v \notin hit
        BY <1>3, <3>2
      <4>2. new[v] = old[v]
        BY <1>1, <3>2, <4>1 DEF Merge, Slot, Hit
      <4> QED BY <4>1, <4>2 DEF Countable
    <3> QED BY <3>1, <3>2
  <2> QED BY <1>7, <2>1 DEF Countable
<1> HIDE DEF f, g, h, R, S, hit, old, tally
<1> QED BY <1>4, <1>10, <1>11, <1>12, <1>13, <1>14 DEF old

\* Failures counted: never too many, and all of them where no check met its limit.
CountedOf(where, count, failures) ==
    /\ count \in Nat /\ count <= failures
    /\ (\A s \in reported : s.where = where => ~s.limit_met) => count = failures

\* Once the workload was checked, its failures and those of the recoveries
\* explored so far are counted.
CountsRight ==
    /\ {"failures", "vulnerabilities", "recovery_states"} \subseteq DOMAIN report
    /\ Countable(report.vulnerabilities) /\ report.failures \in Nat
    /\ CountedOf("workload", Count(report.vulnerabilities, "workload"), Cardinality(FailingJobs))
    /\ CountedOf("recovery", Count(report.vulnerabilities, "recovery"),
                 report.failures - Cardinality(FailingJobs))

CountInv ==
    /\ phase = "explore" => CountsRight
    /\ phase = "done" => report = Err \/ CountsRight

\* Of a finite number of failures, as many are put down to causes, or fewer
\* where the limit was met.
LEMMA ExplanationCounts ==
    ASSUME NEW failing, IsFiniteSet(failing), NEW e \in Explanations(failing)
    PROVE  \E cause : /\ e.tally = Tally(cause) /\ IsFiniteSet(DOMAIN cause)
                      /\ Cardinality(DOMAIN cause) \in Nat
                      /\ Cardinality(DOMAIN cause) <= Cardinality(failing)
                      /\ ~e.limit_met => Cardinality(DOMAIN cause) = Cardinality(failing)
<1>0. PICK kept \in SUBSET failing : \E cause \in [kept -> Causes] :
         e.tally = Tally(cause) /\ (~e.limit_met => kept = failing)
  BY ExplanationIs
<1>1. PICK cause \in [kept -> Causes] :
         e.tally = Tally(cause) /\ (~e.limit_met => kept = failing)
  BY <1>0
<1>2. DOMAIN cause = kept
  OBVIOUS
<1>3. /\ IsFiniteSet(kept) /\ Cardinality(kept) \in Nat
      /\ Cardinality(kept) <= Cardinality(failing)
  BY FS_Subset, FS_CardinalityType
<1> QED BY <1>1, <1>2, <1>3

\* There are finitely many failing jobs.
LEMMA FailingFinite ==
    ASSUME jobs \in Seq(FirstCrashes)
    PROVE  IsFiniteSet(FailingJobs) /\ Cardinality(FailingJobs) \in Nat
<1>1. FailingJobs \subseteq 1..Len(jobs) /\ Len(jobs) \in Nat
  BY DEF FailingJobs
<1>2. IsFiniteSet(1..Len(jobs))
  BY <1>1, FS_Interval
<1>3. IsFiniteSet(FailingJobs)
  <2> DEFINE S == FailingJobs
             T == 1..Len(jobs)
  <2>1. IsFiniteSet(T) /\ S \in SUBSET T
    BY <1>1, <1>2
  <2> HIDE DEF S, T
  <2>2. IsFiniteSet(S)
    BY <2>1, FS_Subset
  <2> QED BY <2>2 DEF S
<1> QED BY <1>3, FS_CardinalityType

\* The workload's failures are counted for the workload.
LEMMA CheckEndsCounts ==
    ASSUME jobs \in Seq(FirstCrashes), CheckEnds
    PROVE  CountsRight'
<1>1. PICK e \in Explanations(FailingJobs), truncated \in BOOLEAN :
         /\ report' = [recovery_states |-> 0, failures |-> Cardinality(FailingJobs),
                       truncated |-> truncated,
                       vulnerabilities |-> [v \in {<<"workload", c>> : c \in DOMAIN e.tally} |->
                                              [occurrences |-> e.tally[v[2]]]]]
         /\ reported' = {[where |-> "workload", named |-> DOMAIN e.tally,
                          limit_met |-> e.limit_met]}
  BY DEF CheckEnds
<1>2. IsFiniteSet(FailingJobs) /\ Cardinality(FailingJobs) \in Nat
  BY FailingFinite
<1>3. PICK cause :
         /\ e.tally = Tally(cause) /\ IsFiniteSet(DOMAIN cause)
         /\ Cardinality(DOMAIN cause) \in Nat
         /\ Cardinality(DOMAIN cause) <= Cardinality(FailingJobs)
         /\ ~e.limit_met => Cardinality(DOMAIN cause) = Cardinality(FailingJobs)
  BY <1>2, ExplanationCounts
<1> DEFINE tally == Tally(cause)
           vs == report'.vulnerabilities
           S == {<<"workload", c>> : c \in DOMAIN tally}
           f == Occurrences(vs, "workload")
<1>4. /\ jobs' = jobs /\ rejects' = rejects /\ report'.failures = Cardinality(FailingJobs)
      /\ DOMAIN report' = {"recovery_states", "failures", "truncated", "vulnerabilities"}
      /\ vs = [v \in S |-> [occurrences |-> tally[v[2]]]]
  BY <1>1, <1>3 DEF CheckEnds
<1>w. /\ \A s \in reported' : s.where = "workload"
      /\ \E s \in reported' : s.limit_met = e.limit_met
  <2> DEFINE this == [where |-> "workload", named |-> DOMAIN e.tally,
                      limit_met |-> e.limit_met]
  <2>1. this.where = "workload" /\ this.limit_met = e.limit_met
    OBVIOUS
  <2>2. reported' = {this}
    BY <1>1
  <2> HIDE DEF this
  <2> QED BY <2>1, <2>2
<1>5. FailingJobs' = FailingJobs
  BY <1>4 DEF FailingJobs, Rejected
<1> HIDE DEF tally, vs
<1>6. S = Hit(tally, "workload") /\ \A v \in S : v[1] = "workload"
  BY DEF Hit
<1> HIDE DEF S
<1>7. DOMAIN vs = S /\ \A v \in S : "occurrences" \in DOMAIN vs[v] /\ vs[v].occurrences = tally[v[2]]
  <2>1. \A v \in S : vs[v] = [occurrences |-> tally[v[2]]]
    BY <1>4
  <2> QED BY <1>4, <2>1
<1>8. Of(vs, "workload") = S /\ Of(vs, "recovery") = {}
  BY <1>6, <1>7 DEF Of
<1>9. Tallies(f, S, tally) /\ \A v \in S : f[v] = vs[v].occurrences
  BY <1>7, <1>8 DEF Tallies, Occurrences
<1>10. /\ IsFiniteSet(S) /\ \A v \in S : f[v] \in Nat
       /\ SumFunctionOnSet(f, S) = Cardinality(DOMAIN cause)
  <2> DEFINE where == "workload"
  <2>1. S = Hit(Tally(cause), where) /\ Tallies(f, S, Tally(cause))
    BY <1>6, <1>9 DEF tally
  <2> HIDE DEF where, f
  <2> QED BY <1>3, <2>1, TallySums
<1>11. Count(vs, "workload") = Cardinality(DOMAIN cause) /\ Countable(vs)
  BY <1>7, <1>8, <1>9, <1>10, CountIs DEF Countable
<1>12. Count(vs, "recovery") = 0
  BY <1>8, CountIs, SumOfNone
<1>13. CountedOf("workload", Count(report.vulnerabilities, "workload"), Cardinality(FailingJobs))'
  <2> HIDE DEF f
  <2> QED BY <1>3, <1>4, <1>w, <1>5, <1>11 DEF CountedOf, vs
<1>14. CountedOf("recovery", Count(report.vulnerabilities, "recovery"),
                 report.failures - Cardinality(FailingJobs))'
  <2> HIDE DEF f
  <2> QED BY <1>2, <1>4, <1>w, <1>5, <1>12 DEF CountedOf, vs
<1> HIDE DEF f
<1> QED BY <1>2, <1>4, <1>11, <1>13, <1>14 DEF CountsRight, vs

\* Those of a recovery are counted for recovery.
LEMMA ExploreCounts ==
    ASSUME BudgetInv, CountInv, Explore
    PROVE  CountsRight'
<1>0. PICK r \in recoveries : \E e \in Explanations(Failing(r, Taken(r, Budget))) :
         /\ DOMAIN report' = {"recovery_states", "failures", "truncated", "vulnerabilities"}
         /\ report'.failures = report.failures + Cardinality(Failing(r, Taken(r, Budget)))
         /\ report'.vulnerabilities = Merge(e.tally, r.point)
         /\ reported' = reported \cup {[where |-> "recovery", point |-> r.point,
                                        named |-> DOMAIN e.tally, limit_met |-> e.limit_met]}
  BY DEF Explore
<1>1. PICK e \in Explanations(Failing(r, Taken(r, Budget))) :
         /\ DOMAIN report' = {"recovery_states", "failures", "truncated", "vulnerabilities"}
         /\ report'.failures = report.failures + Cardinality(Failing(r, Taken(r, Budget)))
         /\ report'.vulnerabilities = Merge(e.tally, r.point)
         /\ reported' = reported \cup {[where |-> "recovery", point |-> r.point,
                                        named |-> DOMAIN e.tally, limit_met |-> e.limit_met]}
  BY <1>0
<1> DEFINE states == Taken(r, Budget)
           failing == Failing(r, states)
           old == report.vulnerabilities
           new == report'.vulnerabilities
           point == r.point
<1>2. CountsRight /\ Budget \in Nat /\ r.tree \in Writing
  <2>1. CountsRight /\ phase = "explore" /\ Budget > 0
    BY DEF Explore, CountInv
  <2>2. MaxStates \in Nat /\ report.recovery_states \in 0..MaxStates
    BY <2>1, RecoveryAssumption DEF BudgetInv, BudgetOK
  <2>3. Budget \in Nat
    BY <2>2 DEF Budget
  <2> QED BY <2>1, <2>3 DEF BudgetInv, OnlyWriting
<1>3. IsFiniteSet(failing) /\ Cardinality(failing) \in Nat
  <2>1. states \in Seq(Trees)
    <3> DEFINE all == SecondCrash[r.tree]
               n   == Min({Budget, Len(all)})
    <3>1. all \in Seq(Trees) /\ Len(all) \in Nat
      BY <1>2, RecoveryAssumption
    <3>2. n \in Nat /\ n <= Len(all)
      BY <1>2, <3>1, MinOfTwo
    <3> HIDE DEF n, all
    <3>3. SubSeq(all, 1, n) \in Seq(Trees)
      BY <3>1, <3>2
    <3> QED BY <3>3 DEF Taken, n, all
  <2>2. failing \subseteq 1..Len(states) /\ Len(states) \in Nat
    <3> HIDE DEF states
    <3> QED BY <2>1 DEF Failing
  <2> HIDE DEF states
  <2>3. IsFiniteSet(1..Len(states))
    BY <2>2, FS_Interval
  <2>4. IsFiniteSet(failing)
    BY <2>2, <2>3, FS_Subset
  <2> QED BY <2>4, FS_CardinalityType
<1>4. PICK cause :
         /\ e.tally = Tally(cause) /\ IsFiniteSet(DOMAIN cause)
         /\ Cardinality(DOMAIN cause) \in Nat
         /\ Cardinality(DOMAIN cause) <= Cardinality(failing)
         /\ ~e.limit_met => Cardinality(DOMAIN cause) = Cardinality(failing)
  <2> HIDE DEF failing
  <2>1. e \in Explanations(failing)
    BY DEF failing
  <2> QED BY <1>3, <2>1, ExplanationCounts
<1>5. Countable(old) /\ new = Merge(Tally(cause), point)
  BY <1>1, <1>2, <1>4 DEF CountsRight
<1>6. FailingJobs' = FailingJobs
  BY DEF Explore, FailingJobs, Rejected
<1>7. IsFiniteSet(FailingJobs) /\ Cardinality(FailingJobs) \in Nat
  BY FailingFinite DEF BudgetInv, RecoveryInv, RecoveryTypeOK
<1>8. report'.failures = report.failures + Cardinality(failing) /\ report.failures \in Nat
  BY <1>1, <1>2 DEF CountsRight
<1>9. /\ \A s \in reported : s \in reported'
      /\ \E s \in reported' : s.where = "recovery" /\ s.limit_met = e.limit_met
      /\ \A s \in reported' : s \in reported \/ s.where = "recovery"
  <2> DEFINE this == [where |-> "recovery", point |-> r.point,
                      named |-> DOMAIN e.tally, limit_met |-> e.limit_met]
  <2>1. this.where = "recovery" /\ this.limit_met = e.limit_met
    OBVIOUS
  <2>2. reported' = reported \cup {this}
    BY <1>1
  <2> HIDE DEF this
  <2> QED BY <2>1, <2>2
<1> HIDE DEF states, failing, new, point
<1>10. /\ Countable(new) /\ Count(new, "workload") = Count(old, "workload")
       /\ Count(new, "recovery") = Count(old, "recovery") + Cardinality(DOMAIN cause)
  BY <1>4, <1>5, MergeAdds
<1>11. CountedOf("workload", Count(report.vulnerabilities, "workload"), Cardinality(FailingJobs))'
  <2>1. CountedOf("workload", Count(old, "workload"), Cardinality(FailingJobs))
    BY <1>2 DEF CountsRight
  <2> QED BY <1>6, <1>9, <1>10, <2>1 DEF CountedOf, new
<1>12. CountedOf("recovery", Count(report.vulnerabilities, "recovery"),
                 report.failures - Cardinality(FailingJobs))'
  <2> DEFINE a == report.failures
             b == Cardinality(FailingJobs)
             c == Cardinality(failing)
             d == Cardinality(DOMAIN cause)
             n == Count(old, "recovery")
  <2>1. CountedOf("recovery", n, a - b)
    BY <1>2 DEF CountsRight
  <2>2. a \in Nat /\ b \in Nat /\ c \in Nat /\ d \in Nat /\ d <= c /\ (~e.limit_met => d = c)
    BY <1>3, <1>4, <1>7, <1>8
  <2>3. Count(new, "recovery") = n + d /\ (report.failures - Cardinality(FailingJobs))' = (a + c) - b
    BY <1>6, <1>8, <1>10
  <2> HIDE DEF a, b, c, d, n
  <2>4. n \in Nat /\ n <= a - b
    BY <2>1 DEF CountedOf
  <2>5. n + d \in Nat /\ n + d <= (a + c) - b
    BY <2>2, <2>4
  <2>6. ASSUME \A s \in reported' : s.where = "recovery" => ~s.limit_met
        PROVE  n + d = (a + c) - b
    <3>1. n = a - b
      BY <1>9, <2>1, <2>6 DEF CountedOf
    <3>2. d = c
      BY <1>9, <2>2, <2>6
    <3> QED BY <2>2, <3>1, <3>2
  <2>7. /\ Count(new, "recovery") \in Nat
        /\ Count(new, "recovery") <= (report.failures - Cardinality(FailingJobs))'
        /\ (\A s \in reported' : s.where = "recovery" => ~s.limit_met)
              => Count(new, "recovery") = (report.failures - Cardinality(FailingJobs))'
    BY <2>3, <2>5, <2>6
  <2> QED BY <2>7 DEF CountedOf, new
<1>13. report'.failures \in Nat
  BY <1>3, <1>8
<1> QED BY <1>1, <1>10, <1>11, <1>12, <1>13 DEF CountsRight, new

\* The other steps count nothing.
LEMMA NextKeepsCounts ==
    ASSUME BudgetInv, CountInv, [RecoveryNext]_recoveryVars
    PROVE  CountInv'
<1>t. ASSUME NEW w \in Workers, Thread(w) PROVE CountInv'
  <2>1. phase = "pool" /\ phase' = phase
    BY <1>t, ThreadInPool DEF BudgetInv
  <2> QED BY <2>1 DEF CountInv
<1>p. CASE PoolEnds \/ Explain
  BY <1>p DEF PoolEnds, Explain, CountInv
<1>c. CASE CheckEnds
  <2>1. CountsRight'
    BY <1>c, CheckEndsCounts DEF BudgetInv, RecoveryInv, RecoveryTypeOK
  <2> QED BY <2>1 DEF CountInv
<1>f. CASE CheckFails \/ ExploreFails
  BY <1>f DEF CheckFails, ExploreFails, CountInv
<1>x. CASE Explore
  BY <1>x, ExploreCounts DEF CountInv
<1>b. CASE OutOfBudget
  <2>1. CountsRight /\ report' = [report EXCEPT !.truncated = TRUE] /\ phase' = "done"
        /\ jobs' = jobs /\ rejects' = rejects /\ reported' = reported
    BY <1>b DEF OutOfBudget, CountInv
  <2>2. FailingJobs' = FailingJobs
    BY <2>1 DEF FailingJobs, Rejected
  <2>3. /\ DOMAIN report' = DOMAIN report /\ report'.failures = report.failures
        /\ report'.vulnerabilities = report.vulnerabilities
    BY <2>1 DEF CountsRight
  <2>4. CountsRight'
    BY <2>1, <2>2, <2>3 DEF CountsRight, CountedOf
  <2> QED BY <2>1, <2>4 DEF CountInv
<1>n. CASE Finish \/ Done \/ UNCHANGED recoveryVars
  <2>1. report' = report /\ jobs' = jobs /\ rejects' = rejects /\ reported' = reported
        /\ (phase' = phase \/ (phase = "explore" /\ phase' = "done"))
    BY <1>n DEF Finish, Done, recoveryVars
  <2>2. FailingJobs' = FailingJobs
    BY <2>1 DEF FailingJobs, Rejected
  <2>3. CountsRight => CountsRight'
    BY <2>1, <2>2 DEF CountsRight, CountedOf
  <2> QED BY <2>1, <2>3 DEF CountInv
<1> QED BY <1>t, <1>p, <1>c, <1>f, <1>x, <1>b, <1>n DEF RecoveryNext

\* A failure in recovery is counted for recovery and one of the workload for
\* the workload, none twice, and none is left out where no check met its limit,
\* for every workload, recovery, verifier, budget, explain limit and schedule
\* (check_with_recovery, same; Options::explain).
THEOREM RecoveryCounts == RecoverySpec => []CountedApart
<1>1. BudgetInv /\ [RecoveryNext]_recoveryVars => BudgetInv'
  BY NextRecoveryInv, NextOnlyWriting, NextBudgetOK DEF BudgetInv
<1>2. BudgetInv /\ CountInv /\ [RecoveryNext]_recoveryVars => CountInv'
  BY NextKeepsCounts
<1>3. RecoveryInit => CountInv
  BY DEF RecoveryInit, CountInv
<1>4. CountInv => CountedApart
  <2> SUFFICES ASSUME CountInv, Returned PROVE CountedApart
    BY DEF CountedApart
  <2>1. CountsRight
    BY DEF CountInv, Returned
  <2> QED BY <2>1 DEF CountsRight, CountedOf, CountedApart, Count, Occurrences, Of
<1> QED BY InitBudgetInv, <1>1, <1>2, <1>3, <1>4, PTL DEF RecoverySpec

-----------------------------------------------------------------------------
(* Each recovery is explored once *)

Known == recoveries \cup explored
CalledOn(t) == \E m \in Marks : <<t, m>> \in called
PastInsert(at, t) == at.step \in {"push", "verify"} /\ at.crash.tree = t
Pushing(at, t) == at.step = "push" /\ at.crash.tree = t

\* A trace that was seen is of a tree the checker is, or was, called on, and
\* one thread is to push it or it was pushed, once.
SeenOnce ==
    /\ seen \subseteq Writing
    /\ \A t \in seen : CalledOn(t) \/ \E w \in Workers : PastInsert(worker[w], t)
    /\ \A t \in seen : (\E r \in Known : r.tree = t) \/ \E w \in Workers : Pushing(worker[w], t)
    /\ \A r \in Known : r.tree \in seen
    /\ \A r, q \in Known : r.tree = q.tree => r = q
    /\ \A w \in Workers, t \in Trees :
          Pushing(worker[w], t) =>
             /\ t \in seen /\ \A r \in Known : r.tree # t
             /\ \A u \in Workers : Pushing(worker[u], t) => u = w
    /\ recoveries \cap explored = {}

\* The marks of a first crash are those of some point.
LEMMA MarksOfPoint ==
    ASSUME NEW c \in FirstCrashes PROVE c.marks \in Marks
<1>1. PICK k \in 0..(Len(MarksBefore) - 1), t \in Trees : c = Crash(k, t)
  BY DEF FirstCrashes
<1>2. k + 1 \in DOMAIN MarksBefore
  BY <1>1, RecoveryAssumption
<1> QED BY <1>1, <1>2 DEF Crash, Marks

\* Each step of a thread keeps that.
LEMMA ThreadKeepsSeen ==
    ASSUME RecoveryTypeOK, OnlyWriting, SeenOnce, NEW w \in Workers, Thread(w)
    PROVE  SeenOnce'
<1>1. CASE StartJob(w)
  <2> DEFINE c == jobs[next + 1]
  <2>1. /\ seen' = seen /\ recoveries' = recoveries /\ explored' = explored
        /\ called \subseteq called' /\ worker[w] = Idle
        /\ \A u \in Workers : u # w => worker'[u] = worker[u]
    BY <1>1 DEF StartJob, RecoveryTypeOK, Call
  <2>2. \/ worker'[w] = worker[w]
        \/ worker'[w] = [crash |-> c, step |-> "verify"]
        \/ worker'[w] = [crash |-> c, step |-> "insert"]
    BY <1>1 DEF StartJob, RecoveryTypeOK
  <2> HIDE DEF c
  <2>3. \A t : ~Pushing(worker'[w], t) /\ ~Pushing(worker[w], t) /\ ~PastInsert(worker[w], t)
    BY <2>1, <2>2 DEF Pushing, PastInsert, Idle
  <2>4. \A t \in seen : CalledOn(t)' \/ \E u \in Workers : PastInsert(worker'[u], t)
    BY <2>1, <2>3 DEF SeenOnce, CalledOn
  <2>5. \A t \in seen : (\E r \in Known : r.tree = t) \/ \E u \in Workers : Pushing(worker'[u], t)
    BY <2>1, <2>3 DEF SeenOnce
  <2>6. Known' = Known
    BY <2>1 DEF Known
  <2>7. \A x \in Workers, t \in Trees :
          Pushing(worker'[x], t) =>
             /\ t \in seen /\ \A r \in Known : r.tree # t
             /\ \A u \in Workers : Pushing(worker'[u], t) => u = x
    BY <2>1, <2>3 DEF SeenOnce
  <2> QED BY <2>1, <2>4, <2>5, <2>6, <2>7 DEF SeenOnce
<1>2. CASE Insert(w)
  <2> DEFINE c == worker[w].crash
             t0 == c.tree
  <2>1. worker[w] \in AtWork /\ worker[w].step = "insert" /\ t0 \in Writing
    BY <1>2 DEF Insert, At, Idle, AtWork, RecoveryTypeOK, OnlyWriting
  <2>2. /\ seen' = seen \cup {t0} /\ recoveries' = recoveries /\ explored' = explored
        /\ called' = called
        /\ \A u \in Workers : u # w => worker'[u] = worker[u]
        /\ worker'[w].crash = c
        /\ worker'[w].step = IF t0 \in seen THEN "verify" ELSE "push"
    BY <1>2, <2>1 DEF Insert, Goto, RecoveryTypeOK, TraceHash, AtWork
  <2> HIDE DEF c, t0
  <2>3. /\ \A t : ~Pushing(worker[w], t) /\ ~PastInsert(worker[w], t)
        /\ PastInsert(worker'[w], t0)
        /\ \A t : Pushing(worker'[w], t) <=> t = t0 /\ t0 \notin seen
    BY <2>1, <2>2 DEF Pushing, PastInsert, c, t0
  <2>4. Known' = Known
    BY <2>2 DEF Known
  <2>5. \A t \in seen' : CalledOn(t)' \/ \E u \in Workers : PastInsert(worker'[u], t)
    BY <2>2, <2>3 DEF SeenOnce, CalledOn
  <2>6. \A t \in seen' : (\E r \in Known : r.tree = t) \/ \E u \in Workers : Pushing(worker'[u], t)
    BY <2>2, <2>3 DEF SeenOnce
  <2>7. ASSUME NEW x \in Workers, NEW t \in Trees, Pushing(worker'[x], t)
        PROVE  /\ t \in seen' /\ \A r \in Known : r.tree # t
               /\ \A u \in Workers : Pushing(worker'[u], t) => u = x
    <3>1. CASE t = t0 /\ t0 \notin seen
      <4>1. \A r \in Known : r.tree # t
        BY <3>1 DEF SeenOnce
      <4>2. \A u \in Workers : u # w => ~Pushing(worker'[u], t)
        BY <2>2, <3>1 DEF SeenOnce
      <4> QED BY <2>2, <2>7, <3>1, <4>1, <4>2
    <3>2. CASE ~(t = t0 /\ t0 \notin seen)
      <4>1. x # w /\ ~Pushing(worker'[w], t) /\ Pushing(worker[x], t)
        BY <2>2, <2>3, <2>7, <3>2
      <4>2. /\ t \in seen /\ \A r \in Known : r.tree # t
            /\ \A u \in Workers : Pushing(worker[u], t) => u = x
        BY <4>1 DEF SeenOnce
      <4> QED BY <2>2, <4>1, <4>2
    <3> QED BY <3>1, <3>2
  <2>8. seen' \subseteq Writing /\ \A r \in Known : r.tree \in seen'
    BY <2>1, <2>2 DEF SeenOnce
  <2> QED BY <2>2, <2>4, <2>5, <2>6, <2>7, <2>8 DEF SeenOnce
<1>3. CASE Push(w)
  <2> DEFINE c == worker[w].crash
             t0 == c.tree
  <2>1. worker[w] \in AtWork /\ worker[w].step = "push" /\ t0 \in Writing /\ t0 \in Trees
    BY <1>3 DEF Push, At, Idle, AtWork, RecoveryTypeOK, OnlyWriting, Writing
  <2>2. /\ seen' = seen /\ recoveries' = recoveries \cup {c} /\ explored' = explored
        /\ called' = called
        /\ \A u \in Workers : u # w => worker'[u] = worker[u]
        /\ worker'[w].crash = c /\ worker'[w].step = "verify"
    BY <1>3, <2>1 DEF Push, Goto, RecoveryTypeOK, AtWork
  <2>3. /\ t0 \in seen /\ \A r \in Known : r.tree # t0
        /\ \A u \in Workers : Pushing(worker[u], t0) => u = w
    BY <2>1 DEF SeenOnce, Pushing
  <2>4. /\ \A t : ~Pushing(worker'[w], t)
        /\ \A t : PastInsert(worker[w], t) => PastInsert(worker'[w], t)
        /\ \A t : Pushing(worker[w], t) => t = t0
    BY <2>1, <2>2 DEF Pushing, PastInsert
  <2> HIDE DEF c
  <2>5. Known' = Known \cup {c}
    BY <2>2 DEF Known
  <2>6. \A t \in seen : CalledOn(t)' \/ \E u \in Workers : PastInsert(worker'[u], t)
    BY <2>2, <2>4 DEF SeenOnce, CalledOn
  <2>7. \A t \in seen : (\E r \in Known' : r.tree = t) \/ \E u \in Workers : Pushing(worker'[u], t)
    BY <2>2, <2>4, <2>5 DEF SeenOnce
  <2>8. (\A r \in Known' : r.tree \in seen) /\ \A r, q \in Known' : r.tree = q.tree => r = q
    BY <2>3, <2>5 DEF SeenOnce
  <2>9. ASSUME NEW x \in Workers, NEW t \in Trees, Pushing(worker'[x], t)
        PROVE  /\ t \in seen /\ \A r \in Known' : r.tree # t
               /\ \A u \in Workers : Pushing(worker'[u], t) => u = x
    <3>1. x # w /\ Pushing(worker[x], t)
      BY <2>2, <2>4, <2>9
    <3>2. t # t0
      BY <2>3, <3>1
    <3>3. /\ t \in seen /\ \A r \in Known : r.tree # t
          /\ \A u \in Workers : Pushing(worker[u], t) => u = x
      BY <3>1 DEF SeenOnce
    <3> QED BY <2>2, <2>4, <2>5, <3>2, <3>3
  <2>10. recoveries' \cap explored' = {}
    BY <2>2, <2>3 DEF SeenOnce, Known
  <2> QED BY <2>2, <2>6, <2>7, <2>8, <2>9, <2>10 DEF SeenOnce
<1>4. CASE Verify(w)
  <2> DEFINE c == worker[w].crash
  <2>1. worker[w] \in AtWork /\ worker[w].step = "verify" /\ c \in FirstCrashes
    BY <1>4 DEF Verify, At, Idle, AtWork, RecoveryTypeOK
  <2>2. /\ seen' = seen /\ recoveries' = recoveries /\ explored' = explored
        /\ called' = called \cup {<<c.tree, c.marks>>}
        /\ \A u \in Workers : u # w => worker'[u] = worker[u]
        /\ worker'[w] = Idle
    BY <1>4, <2>1 DEF Verify, Call, RecoveryTypeOK
  <2>3. c.marks \in Marks
    BY <2>1, MarksOfPoint
  <2>4. /\ \A t : ~Pushing(worker'[w], t) /\ ~Pushing(worker[w], t)
        /\ \A t : PastInsert(worker[w], t) => t = c.tree
    BY <2>1, <2>2 DEF Pushing, PastInsert, Idle
  <2> HIDE DEF c
  <2>5. Known' = Known
    BY <2>2 DEF Known
  <2>6. \A t \in seen : CalledOn(t)' \/ \E u \in Workers : PastInsert(worker'[u], t)
    <3> SUFFICES ASSUME NEW t \in seen
                 PROVE  (\E m \in Marks : <<t, m>> \in called')
                        \/ \E u \in Workers : PastInsert(worker'[u], t)
      BY DEF CalledOn
    <3>1. CASE CalledOn(t)
      BY <2>2, <3>1 DEF CalledOn
    <3>2. CASE t = c.tree
      BY <2>2, <2>3, <3>2
    <3>3. CASE ~CalledOn(t) /\ t # c.tree
      BY <2>2, <2>4, <3>3 DEF SeenOnce
    <3> QED BY <3>1, <3>2, <3>3
  <2>7. \A t \in seen : (\E r \in Known : r.tree = t) \/ \E u \in Workers : Pushing(worker'[u], t)
    BY <2>2, <2>4 DEF SeenOnce
  <2>8. \A x \in Workers, t \in Trees :
          Pushing(worker'[x], t) =>
             /\ t \in seen /\ \A r \in Known : r.tree # t
             /\ \A u \in Workers : Pushing(worker'[u], t) => u = x
    BY <2>2, <2>4 DEF SeenOnce
  <2> QED BY <2>2, <2>5, <2>6, <2>7, <2>8 DEF SeenOnce
<1> QED BY <1>1, <1>2, <1>3, <1>4 DEF Thread

\* While explaining no thread is at work, so what was seen was noted.
LEMMA ExplainKeepsSeen ==
    ASSUME RecoveryTypeOK, NotedFirst, SeenOnce, AllIdle, Explain
    PROVE  SeenOnce'
<1>1. PICK c \in Trials \cup Unacknowledged :
         LET new == Recover[c.tree] = "writes" /\ TraceHash(c) \notin seen
         IN  /\ Call(c)
             /\ seen' = IF new THEN seen \cup {TraceHash(c)} ELSE seen
             /\ recoveries' = IF new THEN recoveries \cup {c} ELSE recoveries
  BY DEF Explain
<1>2. worker' = worker /\ explored' = explored /\ called' = called \cup {<<c.tree, c.marks>>}
  BY <1>1 DEF Explain, Call
<1>3. \A w \in Workers : \A t : ~PastInsert(worker[w], t) /\ ~Pushing(worker[w], t)
  BY DEF AllIdle, PastInsert, Pushing, Idle
<1>4. CASE seen' = seen /\ recoveries' = recoveries
  <2>1. Known' = Known /\ \A t \in seen : CalledOn(t) => CalledOn(t)'
    BY <1>2, <1>4 DEF Known, CalledOn
  <2> QED BY <1>2, <1>4, <2>1 DEF SeenOnce
<1>5. CASE /\ Recover[c.tree] = "writes" /\ c.tree \notin seen
           /\ seen' = seen \cup {c.tree} /\ recoveries' = recoveries \cup {c}
  <2>1. c \in Trials
    <3>1. ASSUME c \in Unacknowledged PROVE FALSE
      <4>1. PICK d \in Trials \cup {jobs[i] : i \in DOMAIN jobs} :
               <<d.tree, d.marks>> \in called /\ c = [d EXCEPT !.marks = 0]
        BY <3>1 DEF Unacknowledged
      <4>2. d \in FirstCrashes /\ d.tree \in Trees
        BY RecoveryAssumption, CrashMarks DEF RecoveryTypeOK
      <4>3. c.tree = d.tree
        BY <4>1, <4>2 DEF FirstCrashes, Crash
      <4> QED BY <1>5, <4>1, <4>2, <4>3 DEF NotedFirst, Writing
    <3> QED BY <3>1
  <2>2. c \in FirstCrashes /\ c.tree \in Writing /\ c.marks \in Marks
    <3>1. c \in FirstCrashes
      BY <2>1, RecoveryAssumption
    <3> QED BY <1>5, <3>1, CrashMarks, MarksOfPoint DEF Writing
  <2>3. Known' = Known \cup {c} /\ \A r \in Known : r.tree # c.tree
    BY <1>2, <1>5 DEF Known, SeenOnce
  <2>4. \A t \in seen' : \E m \in Marks : <<t, m>> \in called'
    BY <1>2, <1>3, <1>5, <2>2 DEF SeenOnce, CalledOn
  <2>5. \A t \in seen' : \E r \in Known' : r.tree = t
    BY <1>3, <1>5, <2>3 DEF SeenOnce
  <2>6. (\A r \in Known' : r.tree \in seen') /\ \A r, q \in Known' : r.tree = q.tree => r = q
    BY <1>5, <2>3 DEF SeenOnce
  <2>7. recoveries' \cap explored' = {}
    BY <1>2, <1>5, <2>3 DEF SeenOnce, Known
  <2>8. seen' \subseteq Writing
    BY <1>5, <2>2 DEF SeenOnce
  <2> QED BY <1>2, <1>3, <2>4, <2>5, <2>6, <2>7, <2>8 DEF SeenOnce, CalledOn
<1> QED BY <1>1, <1>4, <1>5 DEF TraceHash

\* Exploring moves a recovery from one set to the other.
LEMMA RestKeepsSeen ==
    ASSUME SeenOnce,
           \/ Explore \/ PoolEnds \/ CheckEnds \/ CheckFails \/ ExploreFails
           \/ OutOfBudget \/ Finish \/ Done \/ UNCHANGED recoveryVars
    PROVE  SeenOnce'
<1>1. CASE Explore
  <2>1. PICK r \in recoveries : recoveries' = recoveries \ {r} /\ explored' = explored \cup {r}
    BY <1>1 DEF Explore
  <2>2. /\ Known' = Known /\ recoveries' \cap explored' = {}
        /\ seen' = seen /\ called' = called /\ worker' = worker
    BY <1>1, <2>1 DEF Explore, Known, SeenOnce
  <2> QED BY <2>2 DEF SeenOnce, CalledOn
<1>2. CASE ~Explore
  <2>1. /\ recoveries' = recoveries /\ explored' = explored
        /\ seen' = seen /\ called' = called /\ worker' = worker
    BY <1>2 DEF PoolEnds, CheckEnds, CheckFails, ExploreFails, OutOfBudget, Finish, Done, recoveryVars
  <2> QED BY <2>1 DEF SeenOnce, CalledOn, Known
<1> QED BY <1>1, <1>2

TreesExplored == {r.tree : r \in explored}
States == [t \in Writing |-> Len(SecondCrash[t])]

\* The states so far are those of the recoveries explored so far.
SpentRight ==
    /\ {"recovery_states", "truncated"} \subseteq DOMAIN report
    /\ IsFiniteSet(TreesExplored)
    /\ ~report.truncated => report.recovery_states = SumFunctionOnSet(States, TreesExplored)

SpentInv ==
    /\ phase \in {"pool", "explain"} => explored = {}
    /\ phase = "explore" => SpentRight
    /\ phase = "done" => \/ report = Err
                         \/ SpentRight /\ (~report.truncated => recoveries = {})

\* A recovery with no more states than the budget is explored in full.
LEMMA TakenAll ==
    ASSUME NEW r, r.tree \in Writing, NEW budget \in Nat, ~(Len(SecondCrash[r.tree]) > budget)
    PROVE  Len(Taken(r, budget)) = States[r.tree]
<1> DEFINE all == SecondCrash[r.tree]
           n   == Min({budget, Len(all)})
<1>1. all \in Seq(Trees) /\ Len(all) \in Nat /\ Len(all) <= budget
  BY RecoveryAssumption
<1>2. n \in {budget, Len(all)} /\ n <= Len(all) /\ n <= budget /\ n \in Nat
  <2>1. \E x \in {budget, Len(all)} : \A y \in {budget, Len(all)} : x <= y
    BY <1>1
  <2>2. n \in {budget, Len(all)}
    BY <2>1 DEF Min
  <2> QED BY <1>1, <2>2, MinOfTwo
<1>3. n = Len(all)
  BY <1>1, <1>2
<1>4. Len(SubSeq(all, 1, n)) = n
  BY <1>1, <1>2
<1> QED BY <1>3, <1>4 DEF Taken, States

\* Exploring a recovery adds its states.
LEMMA ExploreSpends ==
    ASSUME BudgetInv, SeenOnce, SpentInv, Explore
    PROVE  SpentRight'
<1>1. PICK r \in recoveries :
         /\ explored' = explored \cup {r}
         /\ DOMAIN report' = {"recovery_states", "failures", "truncated", "vulnerabilities"}
         /\ report'.recovery_states = report.recovery_states + Len(Taken(r, Budget))
         /\ report'.truncated = (report.truncated \/ Len(SecondCrash[r.tree]) > Budget)
  BY DEF Explore
<1>2. SpentRight /\ Budget \in Nat /\ r.tree \in Writing /\ report.recovery_states \in Nat
  <2>1. SpentRight /\ phase = "explore"
    BY DEF Explore, SpentInv
  <2>2. MaxStates \in Nat /\ report.recovery_states \in 0..MaxStates
    BY <2>1, RecoveryAssumption DEF BudgetInv, BudgetOK
  <2>3. Budget \in Nat
    BY <2>2 DEF Budget
  <2> QED BY <2>1, <2>2, <2>3 DEF BudgetInv, OnlyWriting
<1>3. TreesExplored' = TreesExplored \cup {r.tree} /\ r.tree \notin TreesExplored
  <2>1. \A q \in explored : q \in Known /\ q # r /\ r \in Known
    BY DEF Known, SeenOnce
  <2>2. r.tree \notin TreesExplored
    BY <2>1 DEF SeenOnce, TreesExplored
  <2> QED BY <1>1, <2>2 DEF TreesExplored
<1>4. IsFiniteSet(TreesExplored) /\ IsFiniteSet(TreesExplored')
  <2>1. IsFiniteSet(TreesExplored)
    BY <1>2 DEF SpentRight
  <2>2. IsFiniteSet(TreesExplored \cup {r.tree})
    BY <2>1, FS_AddElement
  <2> QED BY <1>3, <2>1, <2>2
<1>5. \A t \in TreesExplored \cup {r.tree} : States[t] \in Nat
  <2>1. \A t \in TreesExplored \cup {r.tree} : t \in Writing
    BY <1>2 DEF TreesExplored, SeenOnce, Known
  <2>2. \A t \in Writing : Len(SecondCrash[t]) \in Nat
    BY RecoveryAssumption
  <2> QED BY <2>1, <2>2 DEF States
<1>6. ASSUME ~report'.truncated
      PROVE  report'.recovery_states = SumFunctionOnSet(States, TreesExplored')
  <2>1. ~report.truncated /\ ~(Len(SecondCrash[r.tree]) > Budget)
    BY <1>1, <1>6
  <2>2. Len(Taken(r, Budget)) = States[r.tree]
    BY <1>2, <2>1, TakenAll
  <2>3. report.recovery_states = SumFunctionOnSet(States, TreesExplored)
    BY <1>2, <2>1 DEF SpentRight
  <2> DEFINE x == r.tree
             S == TreesExplored
             f == States
  <2>4. IsFiniteSet(S) /\ x \notin S /\ \A y \in S \cup {x} : f[y] \in Nat
    BY <1>3, <1>4, <1>5
  <2> HIDE DEF x, S, f
  <2>5. SumFunctionOnSet(f, S \cup {x}) = f[x] + SumFunctionOnSet(f, S)
    BY <2>4, SumAdds
  <2>6. f[x] \in Nat
    BY <2>4
  <2>7. TreesExplored' = S \cup {x} /\ report'.recovery_states = SumFunctionOnSet(f, S) + f[x]
        /\ SumFunctionOnSet(f, S) \in Nat
    BY <1>1, <1>2, <1>3, <2>2, <2>3 DEF x, S, f
  <2>8. report'.recovery_states = SumFunctionOnSet(f, S \cup {x})
    BY <2>5, <2>6, <2>7
  <2> QED BY <2>7, <2>8 DEF f
<1>7. States' = States
  BY DEF States
<1> QED BY <1>1, <1>4, <1>6, <1>7 DEF SpentRight

\* The other steps explore nothing.
LEMMA NextKeepsSpent ==
    ASSUME BudgetInv, SeenOnce, SpentInv, [RecoveryNext]_recoveryVars
    PROVE  SpentInv'
<1>t. ASSUME NEW w \in Workers, Thread(w) PROVE SpentInv'
  <2>1. phase = "pool" /\ phase' = phase /\ explored' = explored
    BY <1>t, ThreadInPool DEF BudgetInv, Thread, StartJob, Insert, Push, Verify
  <2> QED BY <2>1 DEF SpentInv
<1>p. CASE PoolEnds \/ Explain
  BY <1>p DEF PoolEnds, Explain, SpentInv
<1>c. CASE CheckEnds
  <2>1. /\ explored' = {} /\ phase' = "explore" /\ report'.recovery_states = 0
        /\ DOMAIN report' = {"recovery_states", "failures", "truncated", "vulnerabilities"}
    BY <1>c DEF CheckEnds, SpentInv
  <2>2. TreesExplored' = {}
    BY <2>1 DEF TreesExplored
  <2>3. SpentRight'
    BY <2>1, <2>2, SumOfNone, FS_EmptySet DEF SpentRight
  <2> QED BY <2>1, <2>3 DEF SpentInv
<1>f. CASE CheckFails \/ ExploreFails
  BY <1>f DEF CheckFails, ExploreFails, SpentInv
<1>x. CASE Explore
  BY <1>x, ExploreSpends DEF Explore, SpentInv
<1>b. CASE OutOfBudget
  <2>1. SpentRight /\ report' = [report EXCEPT !.truncated = TRUE] /\ phase' = "done"
        /\ explored' = explored
    BY <1>b DEF OutOfBudget, SpentInv
  <2>2. DOMAIN report' = DOMAIN report /\ report'.truncated = TRUE
    BY <2>1 DEF SpentRight
  <2>3. SpentRight'
    BY <2>1, <2>2 DEF SpentRight, TreesExplored
  <2> QED BY <2>1, <2>2, <2>3 DEF SpentInv
<1>n. CASE Finish
  <2>1. SpentRight /\ report' = report /\ phase' = "done" /\ explored' = explored /\ recoveries' = {}
    BY <1>n DEF Finish, SpentInv
  <2>2. SpentRight'
    BY <2>1 DEF SpentRight, TreesExplored
  <2> QED BY <2>1, <2>2 DEF SpentInv
<1>u. CASE Done \/ UNCHANGED recoveryVars
  BY <1>u DEF Done, recoveryVars, SpentInv, SpentRight, TreesExplored
<1> QED BY <1>t, <1>p, <1>c, <1>f, <1>x, <1>b, <1>n, <1>u DEF RecoveryNext

\* What the checker was called on with marks of some point was seen, and with
\* no recovery left and no thread at work, was explored.
LEMMA SpentFollows == BudgetInv /\ SeenOnce /\ SpentInv => ExploredOnce
<1> SUFFICES ASSUME BudgetInv, SeenOnce, SpentInv, Returned, ~report.truncated
             PROVE  LET found == {t \in Writing : \E m \in Marks : <<t, m>> \in called}
                    IN  /\ {r.tree : r \in explored} = found
                        /\ report.recovery_states = SumFunction([t \in found |-> Len(SecondCrash[t])])
  BY DEF ExploredOnce
<1> DEFINE found == {t \in Writing : \E m \in Marks : <<t, m>> \in called}
           f == [t \in found |-> Len(SecondCrash[t])]
<1>1. SpentRight /\ recoveries = {} /\ AllIdle
  BY DEF Returned, SpentInv, BudgetInv, BudgetOK
<1>2. \A w \in Workers : \A t : ~PastInsert(worker[w], t) /\ ~Pushing(worker[w], t)
  BY <1>1 DEF AllIdle, PastInsert, Pushing, Idle
<1>3. TreesExplored = seen
  <2>1. \A t \in seen : \E r \in explored : r.tree = t
    BY <1>1, <1>2 DEF SeenOnce, Known
  <2>2. \A r \in explored : r.tree \in seen
    BY DEF SeenOnce, Known
  <2> QED BY <2>1, <2>2 DEF TreesExplored
<1>4. seen = found
  <2>1. \A t \in seen : t \in Writing /\ CalledOn(t)
    BY <1>2 DEF SeenOnce
  <2>2. \A t \in Writing : CalledOn(t) => t \in seen
    BY DEF CalledOn, BudgetInv, RecoveryInv, NotedFirst
  <2> QED BY <2>1, <2>2 DEF CalledOn
<1>5. \A t \in found : f[t] = States[t] /\ States[t] \in Nat
  <2>1. \A t \in Writing : Len(SecondCrash[t]) \in Nat
    BY RecoveryAssumption
  <2> QED BY <2>1 DEF States
<1>6. IsFiniteSet(found) /\ report.recovery_states = SumFunctionOnSet(States, found)
  BY <1>1, <1>3, <1>4 DEF SpentRight
<1>7. DOMAIN f = found
  OBVIOUS
<1> HIDE DEF found, f
<1>8. SumFunctionOnSet(f, found) = SumFunctionOnSet(States, found)
  BY <1>5, <1>6, SumSame
<1>9. SumFunction(f) = SumFunctionOnSet(f, found)
  BY <1>7 DEF SumFunction
<1> QED BY <1>3, <1>4, <1>6, <1>8, <1>9 DEF TreesExplored, f, found

\* A report that was not cut short explored every recovery that writes, and no
\* recovery trace twice, and its states are all of theirs, for every workload,
\* recovery, verifier and schedule (check_with_recovery).
THEOREM RecoveriesExploredOnce == RecoverySpec => []ExploredOnce
<1>1. BudgetInv /\ [RecoveryNext]_recoveryVars => BudgetInv'
  BY NextRecoveryInv, NextOnlyWriting, NextBudgetOK DEF BudgetInv
<1>2. BudgetInv /\ SeenOnce /\ [RecoveryNext]_recoveryVars => SeenOnce'
  <2> SUFFICES ASSUME BudgetInv, SeenOnce, [RecoveryNext]_recoveryVars PROVE SeenOnce'
    OBVIOUS
  <2>1. RecoveryTypeOK /\ NotedFirst /\ OnlyWriting
    BY DEF BudgetInv, RecoveryInv
  <2>2. CASE Explain
    <3>1. AllIdle
      BY <2>2 DEF Explain, BudgetInv, BudgetOK
    <3> QED BY <2>1, <2>2, <3>1, ExplainKeepsSeen
  <2> QED BY <2>1, <2>2, ThreadKeepsSeen, RestKeepsSeen DEF RecoveryNext
<1>3. BudgetInv /\ SeenOnce /\ SpentInv /\ [RecoveryNext]_recoveryVars => SpentInv'
  BY NextKeepsSpent
<1>4. RecoveryInit => SeenOnce /\ SpentInv
  BY DEF RecoveryInit, SeenOnce, SpentInv, Known, Pushing, Idle
<1> QED BY InitBudgetInv, SpentFollows, <1>1, <1>2, <1>3, <1>4, PTL DEF RecoverySpec

=============================================================================
