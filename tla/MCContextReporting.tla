------------------------- MODULE MCContextReporting -------------------------
(* Values for the constants of ContextReporting.                           *)
EXTENDS ContextReporting, TLC

CONSTANTS ctx1, ctx2

MCContext       == {ctx1, ctx2}
ContextSymmetry == Permutations(MCContext)
=============================================================================
