---------------------------- MODULE MCFrameWalk ----------------------------
(* A small instance of FrameWalk for TLC: up to two children of the       *)
(* function, one parameter name, a frame offset whose slot is mapped and  *)
(* one whose slot is not, and an int at Rsp as well as at the frame       *)
(* pointer so that a wrong frame pointer reads a different value.         *)
EXTENDS FrameWalk, TLC

CONSTANTS x

MCStack == (100 :> 1) @@ (108 :> 42)
=============================================================================
