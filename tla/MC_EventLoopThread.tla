------------------------- MODULE MC_EventLoopThread -------------------------
(* Model-checking instance of EventLoopThread.                             *)
EXTENDS EventLoopThread
=============================================================================
