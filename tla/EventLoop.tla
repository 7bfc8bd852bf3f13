----------------------------- MODULE EventLoop -----------------------------
(***************************************************************************)
(* The cross-thread task queue of one EventLoop (src/src/net/EventLoop.cpp)*)
(* and the eventfd wake-up that goes with it.                              *)
(*                                                                         *)
(* The loop thread runs EventLoop::loop(): poll, dispatch the active       *)
(* channels (the wake-up channel's handleRead among them), then            *)
(* doPendingFunctors(), which swaps pendingFunctors_ out under mutex_ and  *)
(* runs the functors.  Foreign threads call queueInLoop(), which pushes    *)
(* onto pendingFunctors_ and then writes the eventfd.                      *)
(*                                                                         *)
(* queueInLoop() writes `std::unique_lock<std::mutex>(mutex_);`, which     *)
(* declares a new unlocked lock object named mutex_ instead of locking the *)
(* member: the push_back runs without the mutex.  The data race on the     *)
(* vector is modelled by the outcome the build can produce that stays      *)
(* inside the model: the pusher reads the vector (PushRead) and writes its *)
(* grown copy back later (PushWrite), so a swap or another push in between *)
(* is overwritten.                                                         *)
(***************************************************************************)
EXTENDS Naturals, Sequences, FiniteSets

CONSTANTS
    Foreign,     \* threads other than the loop thread that call queueInLoop
    MaxTasks,    \* bound on the number of functors ever submitted
    MaxPasses    \* bound on the number of loop iterations

ASSUME MaxTasks \in Nat \ {0} /\ MaxPasses \in Nat \ {0}

Tasks  == 1..MaxTasks
NoTask == 0

VARIABLES
    lpc,         \* where the loop thread is in EventLoop::loop()
    pending,     \* pendingFunctors_
    functors,    \* the local vector doPendingFunctors() swapped out
    calling,     \* callingPendingFunctors_
    quitFlag,    \* quit_
    wakeFd,      \* the eventfd counter (wakeupFd_)
    wakeActive,  \* wakeupChannel_ is in activeChannels_ of this poll
    fpc,         \* where each foreign thread is in queueInLoop()
    snap,        \* the copy of pendingFunctors_ a foreign push_back read
    ftask,       \* the functor a foreign thread is pushing
    nextTask,    \* the next functor identity to hand out
    pass,        \* number of doPendingFunctors() passes so far
    drainSubmit, \* pass during which a functor was queued from a functor
    runs         \* history: <<functor, pass>> of every functor run

vars == <<lpc, pending, functors, calling, quitFlag, wakeFd, wakeActive,
          fpc, snap, ftask, nextTask, pass, drainSubmit, runs>>


Init ==
    /\ lpc = "poll"
    /\ pending = <<>>
    /\ functors = <<>>
    /\ calling = FALSE
    /\ quitFlag = FALSE
    /\ wakeFd = 0
    /\ wakeActive = FALSE
    /\ fpc = [t \in Foreign |-> "idle"]
    /\ snap = [t \in Foreign |-> <<>>]
    /\ ftask = [t \in Foreign |-> NoTask]
    /\ nextTask = 1
    /\ pass = 0
    /\ drainSubmit = [x \in Tasks |-> 0]
    /\ runs = <<>>

CanSubmit == nextTask <= MaxTasks

-----------------------------------------------------------------------------
(* EventLoop::wakeup(): write 1 to the eventfd, which adds to its counter. *)
wakeup == wakeFd' = wakeFd + 1

(* EventLoop::handleRead(): the read of the eventfd resets its counter.    *)
handleRead == wakeFd' = 0

(* Mutation: queueInLoop() without the callingPendingFunctors_ test.      *)
queueInLoopInThread_noCallingWake ==
    /\ pending' = Append(pending, nextTask)
    /\ nextTask' = nextTask + 1
    /\ UNCHANGED wakeFd

(* queueInLoop() called on the loop thread: the push and the wake-up       *)
(* decision are one step, since no other loop-thread step interleaves.     *)
(* The eventfd is written only when callingPendingFunctors_ is set.        *)
queueInLoopInThread ==
    /\ pending' = Append(pending, nextTask)
    /\ nextTask' = nextTask + 1
    /\ IF calling THEN wakeup ELSE UNCHANGED wakeFd

-----------------------------------------------------------------------------
(* Loop thread.                                                            *)

(* Poller::poll() inside loop(): epoll_wait returns at the latest after    *)
(* kPollTimeMs; the eventfd is level-triggered, so it is reported active   *)
(* whenever its counter is non-zero.                                       *)
Poll ==
    /\ lpc = "poll"
    /\ pass < MaxPasses
    /\ wakeActive' = (wakeFd > 0)
    /\ lpc' = "dispatch"
    /\ UNCHANGED <<pending, functors, calling, quitFlag, wakeFd, fpc, snap,
                   ftask, nextTask, pass, drainSubmit, runs>>

(* The dispatch of activeChannels_: the wake-up channel reads the eventfd, *)
(* and an I/O callback of another channel may queue a functor on the loop  *)
(* thread (as TcpConnection does for writeCompleteCallback_).              *)
Dispatch ==
    /\ lpc = "dispatch"
    /\ \/ /\ CanSubmit
          /\ pending' = Append(pending, nextTask)
          /\ nextTask' = nextTask + 1
       \/ UNCHANGED <<pending, nextTask>>
    /\ IF wakeActive THEN handleRead ELSE UNCHANGED wakeFd
    /\ lpc' = "drain"
    /\ UNCHANGED <<functors, calling, quitFlag, wakeActive, fpc, snap, ftask,
                   pass, drainSubmit, runs>>

(* doPendingFunctors(): set callingPendingFunctors_ and swap the vector    *)
(* out under mutex_.                                                       *)
SwapPending ==
    /\ lpc = "drain"
    /\ calling' = TRUE
    /\ functors' = pending
    /\ pending' = <<>>
    /\ pass' = pass + 1
    /\ lpc' = "run"
    /\ UNCHANGED <<quitFlag, wakeFd, wakeActive, fpc, snap, ftask, nextTask,
                   drainSubmit, runs>>

(* Mutation: functors run from the live vector, so one queued by a       *)
(* running functor joins the current batch.                               *)
RunFunctor_liveVector ==
    /\ lpc = "run"
    /\ functors # <<>>
    /\ runs' = Append(runs, <<Head(functors), pass>>)
    /\ \/ /\ CanSubmit
          /\ functors' = Append(Tail(functors), nextTask)
          /\ nextTask' = nextTask + 1
          /\ wakeup
          /\ drainSubmit' = [drainSubmit EXCEPT ![nextTask] = pass]
       \/ /\ functors' = Tail(functors)
          /\ UNCHANGED <<nextTask, wakeFd, drainSubmit>>
    /\ UNCHANGED <<lpc, pending, calling, quitFlag, wakeActive, fpc, snap,
                   ftask, pass>>

(* doPendingFunctors(): run the next swapped-out functor; it may call      *)
(* queueInLoop() itself.                                                   *)
RunFunctor ==
    /\ lpc = "run"
    /\ functors # <<>>
    /\ runs' = Append(runs, <<Head(functors), pass>>)
    /\ functors' = Tail(functors)
    /\ \/ /\ CanSubmit
          /\ queueInLoopInThread
          /\ drainSubmit' = [drainSubmit EXCEPT ![nextTask] = pass]
       \/ UNCHANGED <<pending, nextTask, wakeFd, drainSubmit>>
    /\ UNCHANGED <<lpc, calling, quitFlag, wakeActive, fpc, snap, ftask, pass>>

(* doPendingFunctors() clears callingPendingFunctors_; loop() then tests   *)
(* quit_ before the next iteration.                                        *)
EndIteration ==
    /\ lpc = "run"
    /\ functors = <<>>
    /\ calling' = FALSE
    /\ lpc' = IF quitFlag THEN "stopped" ELSE "poll"
    /\ UNCHANGED <<pending, functors, quitFlag, wakeFd, wakeActive, fpc, snap,
                   ftask, nextTask, pass, drainSubmit, runs>>

-----------------------------------------------------------------------------
(* Foreign threads.                                                        *)

(* queueInLoop() off the loop thread, first half of the unlocked           *)
(* push_back: read the vector.                                             *)
PushRead(t) ==
    /\ fpc[t] = "idle"
    /\ CanSubmit
    /\ snap' = [snap EXCEPT ![t] = pending]
    /\ ftask' = [ftask EXCEPT ![t] = nextTask]
    /\ nextTask' = nextTask + 1
    /\ fpc' = [fpc EXCEPT ![t] = "write"]
    /\ UNCHANGED <<lpc, pending, functors, calling, quitFlag, wakeFd,
                   wakeActive, pass, drainSubmit, runs>>

(* Second half: write the grown vector back.                               *)
PushWrite(t) ==
    /\ fpc[t] = "write"
    /\ pending' = Append(snap[t], ftask[t])
    /\ fpc' = [fpc EXCEPT ![t] = "wake"]
    /\ UNCHANGED <<lpc, functors, calling, quitFlag, wakeFd, wakeActive, snap,
                   ftask, nextTask, pass, drainSubmit, runs>>

(* !isInLoopThread(), so queueInLoop() ends with wakeup().                 *)
Wake(t) ==
    /\ fpc[t] = "wake"
    /\ wakeup
    /\ fpc' = [fpc EXCEPT ![t] = "idle"]
    /\ ftask' = [ftask EXCEPT ![t] = NoTask]
    /\ UNCHANGED <<lpc, pending, functors, calling, quitFlag, wakeActive, snap,
                   nextTask, pass, drainSubmit, runs>>

(* EventLoop::quit() from a foreign thread: set quit_, then wakeup().      *)
Quit(t) ==
    /\ fpc[t] = "idle"
    /\ ~quitFlag
    /\ quitFlag' = TRUE
    /\ wakeup
    /\ UNCHANGED <<lpc, pending, functors, calling, wakeActive, fpc, snap,
                   ftask, nextTask, pass, drainSubmit, runs>>

-----------------------------------------------------------------------------
LoopStep == Poll \/ Dispatch \/ SwapPending \/ RunFunctor \/ EndIteration

Next ==
    \/ LoopStep
    \/ \E t \in Foreign : PushRead(t) \/ PushWrite(t) \/ Wake(t) \/ Quit(t)

Spec == Init /\ [][Next]_vars

-----------------------------------------------------------------------------
(* Helpers for the properties.                                             *)

Occurrences(s, x) == Len(SelectSeq(s, LAMBDA e : e = x))

RunTasks == [i \in DOMAIN runs |-> runs[i][1]]

(* Functors whose push has been written into pendingFunctors_.            *)
Pushed == (1..nextTask - 1) \ {ftask[t] : t \in {u \in Foreign : fpc[u] = "write"}}

-----------------------------------------------------------------------------
(* Properties.                                                             *)

(* No lost wake-up: whenever the loop thread is blocked in epoll_wait with *)
(* a functor in pendingFunctors_, the eventfd has been written, or the     *)
(* thread that queued the functor has still to write it.  Otherwise the    *)
(* functor waits for the 10 s poll timeout.  This is what the              *)
(* `!isInLoopThread() || callingPendingFunctors_` test of queueInLoop()    *)
(* is for: a functor queued by a running functor must wake the next poll. *)
NoLostWakeup ==
    (lpc = "poll" /\ pending # <<>>)
        => \/ wakeFd > 0
           \/ \E t \in Foreign : fpc[t] \in {"write", "wake"}

(* A functor queued while doPendingFunctors() runs the swapped-out batch   *)
(* runs in a later pass, never in the batch being run (spec 4.4).          *)
DeferredToNextPass ==
    \A i \in DOMAIN runs :
        drainSubmit[runs[i][1]] > 0 => runs[i][2] > drainSubmit[runs[i][1]]

(* Every functor whose push has completed is, exactly once, either waiting *)
(* in pendingFunctors_ or the swapped-out batch, or has run: queueInLoop() *)
(* neither loses nor duplicates functors.                                  *)
NoTaskLostOrDuplicated ==
    \A x \in Pushed :
        Occurrences(pending \o functors, x) + Occurrences(RunTasks, x) = 1

=============================================================================
