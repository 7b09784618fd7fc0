----------------------------- MODULE MCSyncAuth -----------------------------
(***************************************************************************)
(* The daemon, the portal and the firewall on small instances.             *)
(***************************************************************************)
EXTENDS SyncAuth, TLC

MCQuota == {2}

ClientSymmetry == Permutations(Client)
=============================================================================
