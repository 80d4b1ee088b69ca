------------------------ MODULE MCInstanceLifecycle ------------------------
(* Values for the constants of InstanceLifecycle.                          *)
EXTENDS InstanceLifecycle, TLC

CONSTANTS gui, worker, plugin

MCThread       == {gui, worker, plugin}
ThreadSymmetry == Permutations(MCThread)
=============================================================================
