------------------------------ MODULE MCLedger ------------------------------
(***************************************************************************)
(* The ledger on small instances.  The clock runs past the deletion of an  *)
(* unpaid invoice (created at 0, expires at 2, deleted from 4 on), so that *)
(* its index can be given away again by a restart.  Tiers are told apart    *)
(* only by their names, so that they may be permuted like workers.         *)
(***************************************************************************)
EXTENDS Ledger, TLC

MCTxOne == {<<"base", 1>>}
MCTxTwo == {<<"base", 1>>, <<"base", 2>>}

WorkerTierSymmetry == Permutations(Worker) \cup Permutations(Tier)
ClientSymmetry == Permutations(Client)
=============================================================================
