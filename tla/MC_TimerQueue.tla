--------------------------- MODULE MC_TimerQueue ---------------------------
(* Model-checking instance of TimerQueue.                                  *)
EXTENDS TimerQueue
=============================================================================
