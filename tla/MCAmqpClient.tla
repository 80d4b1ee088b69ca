---------------------------- MODULE MCAmqpClient ----------------------------
(* Values for the constants of AmqpClient, and symmetry of the ids.        *)
EXTENDS AmqpClient, TLC

CONSTANTS ping, openContext, c1, c2, c3, pong

MCRequest   == {ping, openContext}
MCPing      == {ping}
MCContext   == {openContext}
MCIds       == {c1, c2, c3}
MCTwoIds    == {c1, c2}
MCBody      == {pong}
IdSymmetry  == Permutations(MCIds)
=============================================================================
