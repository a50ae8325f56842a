---------------------------- MODULE MCRoundRobin ----------------------------
(***************************************************************************)
(* RoundRobin with values for its constants.                               *)
(***************************************************************************)
EXTENDS MCScheduler, RoundRobin
=============================================================================
