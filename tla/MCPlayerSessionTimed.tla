------------------------ MODULE MCPlayerSessionTimed ------------------------
(* PlayerSessionTimed with the constants of MCPlayerSession.                *)
EXTENDS PlayerSessionTimed, MCPlayerSession
=============================================================================
