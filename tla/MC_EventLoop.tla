--------------------------- MODULE MC_EventLoop ---------------------------
(* Model-checking instance of EventLoop: two foreign threads, a handful of *)
(* functors and loop iterations.                                           *)
EXTENDS EventLoop, TLC

CONSTANTS f1, f2

MCForeign == {f1, f2}

(* Foreign threads are interchangeable: nothing in queueInLoop() depends   *)
(* on which thread calls it.                                               *)
ForeignSymmetry == Permutations(MCForeign)
=============================================================================
