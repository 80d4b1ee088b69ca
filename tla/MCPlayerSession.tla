--------------------------- MODULE MCPlayerSession ---------------------------
(* Values for the constants of PlayerSession.                               *)
EXTENDS PlayerSession

CONSTANTS u1, u2

MCUserId  == {u1, u2}

(* The ids are alike, so the first that the player gives may be u1.         *)
MCFirstId == registered = {} => registered' \in {{}, {u1}}

MCNone    == {}
MCAll     == {"ping", "register"}
=============================================================================
