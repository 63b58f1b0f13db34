----------------------------- MODULE MCRecovery -----------------------------
(***************************************************************************)
(* A workload of two ops and one mark.  Tree 1 is a crash state before and *)
(* after the mark, and recovering it writes; so does recovering tree 2 and *)
(* tree 4, which only minimizing builds; tree 3 needs no recovery and tree *)
(* 5 cannot be recovered.  A check has up to four failures to put down to  *)
(* two causes, and minimizes two of them at most.                          *)
(***************************************************************************)
EXTENDS Recovery, TLC

MCTrees == 1..5
MCMarksBefore == <<0, 0, 1>>
MCJobs ==
    {<<Crash(0, 1), Crash(1, 2), Crash(2, 1), Crash(2, 3)>>,
     <<Crash(1, 3), Crash(2, 2), Crash(2, 5)>>}
MCTrials == {Crash(1, 4), Crash(2, 4)}
MCRecover == <<"writes", "writes", "quiet", "writes", "fails">>
MCSecondCrash == (1 :> <<1, 3>>) @@ (2 :> <<2, 3, 4>>) @@ (4 :> <<4>>)

\* The same workload with one crash state before and after the mark.
MCRepeatedJobs == {<<Crash(1, 1), Crash(2, 1)>>}
=============================================================================
