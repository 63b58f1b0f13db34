------------------------------- MODULE MCWal -------------------------------
(***************************************************************************)
(* The example log on an empty directory, under both profiles.             *)
(***************************************************************************)
EXTENDS Wal

MCNames == {1}
MCInitialTrees == {<<>>}
=============================================================================
