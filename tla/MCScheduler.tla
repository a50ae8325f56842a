----------------------------- MODULE MCScheduler -----------------------------
(***************************************************************************)
(* Scheduler with values for its constants.                                *)
(***************************************************************************)
EXTENDS SchedulerRefinement, TLC

CONSTANTS p0, p1, p2, p3

MCProcs4 == {p0, p1, p2, p3}
MCBusy0  == {p0}
MCNone   == {}

\* p0 is InitProc; the others are created in any order.
MCSymmetry == Permutations({p1, p2, p3})
=============================================================================
