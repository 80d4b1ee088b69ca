--------------------------- MODULE MCCommandQueue ---------------------------
(* Values for the constants of CommandQueue.                               *)
EXTENDS CommandQueue

CONSTANTS register, close, play, open1, open2

MCListed   == {register, close, play}
MCOpen     == {open1, open2}
MCRegister == {register}
MCForeign  == {close, play, open2}
=============================================================================
