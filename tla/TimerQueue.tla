------------------------------ MODULE TimerQueue ------------------------------
(***************************************************************************)
(* The timer subsystem of one EventLoop: EventLoop::runAfter/runEvery,     *)
(* TimerQueue::addTimer/addTimerInLoop/insert/handleRead/getExpired/reset, *)
(* Timer::restart and the timerfd (siren/net/TimerQueue.cpp, Timer.h/.cpp, *)
(* src/net/EventLoop.cpp).                                                 *)
(*                                                                         *)
(* Time is counted in ticks of 500 ms.  timers_ is a std::set<Timer*,      *)
(* TimerCmp> whose comparator looks at expiration() alone, so it holds at  *)
(* most one timer per expiration: a second insert with the same           *)
(* expiration is refused and the Timer is never run nor deleted.          *)
(***************************************************************************)
EXTENDS Integers, Sequences, FiniteSets

CONSTANTS
    MaxTimers,      \* Timer objects created (sequence numbers 1..MaxTimers)
    MaxTime,        \* the horizon of the clock, in ticks
    AfterDelays,    \* runAfter(delay) arguments, in ticks
    EveryIntervals, \* runEvery(interval) arguments, in ticks
    DistinctDeadlines \* TRUE: callers never ask for a deadline already pending

ASSUME MaxTimers \in Nat /\ MaxTime \in Nat
ASSUME AfterDelays \subseteq Nat /\ EveryIntervals \subseteq Nat \ {0}

Ids == 1..MaxTimers
NoTime == -1
TicksPerSecond == 2

VARIABLES
    now,      \* system_clock::now(), in ticks
    nextId,   \* Timer::s_numCreated_ + 1
    exp,      \* expiration_ of each created Timer
    period,   \* interval_ of each Timer, in ticks (0: one-shot)
    every,    \* the Timer was created by runEvery
    timers,   \* the Timers in timers_
    inbox,    \* addTimerInLoop functors queued from other threads
    armed,    \* when the timerfd fires, NoTime when disarmed
    fires     \* times each Timer's callback has run

vars == <<now, nextId, exp, period, every, timers, inbox, armed, fires>>

Created == 1..(nextId - 1)

TypeOK ==
    /\ now \in 0..MaxTime
    /\ nextId \in 1..MaxTimers + 1
    /\ exp \in [Ids -> Nat]
    /\ period \in [Ids -> Nat]
    /\ every \in [Ids -> BOOLEAN]
    /\ timers \subseteq Created
    /\ inbox \in Seq(Created)
    /\ armed \in Nat \cup {NoTime}
    /\ fires \in [Ids -> 0..MaxTime]

(* The earliest expiration, under ex, of the non-empty set S.             *)
MinExp(S, ex) == CHOOSE e \in {ex[i] : i \in S} : \A i \in S : e <= ex[i]

-----------------------------------------------------------------------------
(* Mutant: howMuchTimeFromNow() without the 100 us floor: a deadline       *)
(* already passed gives timerfd_settime a zero it_value, which disarms it. *)
Arm_noClamp(e) == IF e > now THEN e ELSE NoTime

(* resetTimerfd(timerfd_, e): howMuchTimeFromNow clamps the delay to at    *)
(* least 100 us, so a passed deadline fires the timerfd at once.           *)
Arm(e) == IF e > now THEN e ELSE now

(* EventLoop::runEvery(interval) calls addTimer(cb, when, int64_t          *)
(* interval): the seconds are truncated before Timer(..., double interval),*)
(* and Timer::restart adds interval_ * 1000 ms.                            *)
Truncated(ticks) == (ticks \div TicksPerSecond) * TicksPerSecond

(* TimerCmp orders Timer* by expiration() alone: a timer whose expiration *)
(* equals that of a member of S is equivalent to it, and std::set::insert  *)
(* refuses it.                                                              *)
Collides(S, ex, e) == \E i \in S : ex[i] = e

(* Mutant: addTimerInLoop() that ignores earliestChanged.                  *)
addTimerInLoop_noRearm(id, e) ==
    /\ timers' = IF Collides(timers, exp, e) THEN timers ELSE timers \cup {id}
    /\ UNCHANGED armed

(* TimerQueue::addTimerInLoop(timer) with e = timer->expiration():         *)
(* insert() computes earliestChanged before the set insert, which is       *)
(* refused when a timer with the same expiration is present; the timerfd   *)
(* is rearmed when the earliest changed.                                   *)
addTimerInLoop(id, e) ==
    /\ timers' = IF Collides(timers, exp, e) THEN timers ELSE timers \cup {id}
    /\ armed' = IF timers = {} \/ e < MinExp(timers, exp) THEN Arm(e) ELSE armed

(* EventLoop::runAfter / runAt / runEvery -> TimerQueue::addTimer: a new   *)
(* Timer, inserted at once on the loop thread (runInLoop) or queued from  *)
(* another thread.                                                          *)
AddTimer(when, ival, isEvery, inLoop) ==
    LET id == nextId IN
    /\ nextId <= MaxTimers
    /\ when <= MaxTime
    /\ DistinctDeadlines =>
          \A i \in timers \cup {inbox[k] : k \in DOMAIN inbox} : exp[i] # when
    /\ nextId' = nextId + 1
    /\ exp' = [exp EXCEPT ![id] = when]
    /\ period' = [period EXCEPT ![id] = ival]
    /\ every' = [every EXCEPT ![id] = isEvery]
    /\ IF inLoop
       THEN addTimerInLoop(id, when) /\ UNCHANGED inbox
       ELSE inbox' = Append(inbox, id) /\ UNCHANGED <<timers, armed>>
    /\ UNCHANGED <<now, fires>>

RunAfter(d, inLoop) == AddTimer(now + d, 0, FALSE, inLoop)
RunEvery(i, inLoop) == AddTimer(now + i, Truncated(i), TRUE, inLoop)

(* doPendingFunctors() runs a queued addTimerInLoop.                       *)
AddTimerInLoop ==
    /\ inbox # <<>>
    /\ addTimerInLoop(Head(inbox), exp[Head(inbox)])
    /\ inbox' = Tail(inbox)
    /\ UNCHANGED <<now, nextId, exp, period, every, fires>>

-----------------------------------------------------------------------------
(* Mutant: reset() that does not rearm the timerfd (the call left          *)
(* commented out at its end), so the read timerfd stays disarmed.          *)
Rearm_none(S, ex) == NoTime

(* reset(): rearm for the earliest remaining timer; otherwise the timerfd, *)
(* just read, stays disarmed.                                               *)
Rearm(S, ex) == IF S # {} THEN Arm(MinExp(S, ex)) ELSE NoTime

(* Mutant: reset() that restarts and reinserts every expired timer,        *)
(* without asking repeat().                                                 *)
repeat_always(i) == TRUE

(* Timer::repeat(): repeat_ is interval > 0.0.                             *)
repeat(i) == period[i] > 0

(* Timer::restart(now): now + interval_ when repeating, else               *)
(* system_clock::now().                                                     *)
restart(i) == IF period[i] > 0 THEN now + period[i] ELSE now

(* TimerQueue::handleRead(): readTimerfd, getExpired(now) (upper_bound of  *)
(* a sentry at now: every timer with expiration <= now, in ascending       *)
(* order), run them, then reset(expired, now): a repeating timer is        *)
(* restarted at now + interval and inserted, in the order of the batch, so *)
(* of several landing on the same expiration only the first is kept, and   *)
(* one landing on a remaining timer's expiration is dropped; a one-shot    *)
(* timer is deleted.  The timerfd, read, is disarmed unless rearmed.       *)
HandleRead ==
    /\ armed # NoTime
    /\ armed <= now
    /\ LET expired  == {i \in timers : exp[i] <= now}
           rest     == timers \ expired
           again    == {i \in expired : repeat(i)}
           newExp   == [i \in Ids |-> IF i \in again THEN restart(i) ELSE exp[i]]
           kept     == {i \in again :
                          /\ ~Collides(rest, exp, newExp[i])
                          /\ ~Collides({k \in again : exp[k] < exp[i]},
                                       newExp, newExp[i])}
       IN  /\ fires' = [i \in Ids |-> IF i \in expired THEN fires[i] + 1
                                      ELSE fires[i]]
           /\ exp' = newExp
           /\ timers' = rest \cup kept
           /\ armed' = Rearm(rest \cup kept, newExp)
    /\ UNCHANGED <<now, nextId, period, every, inbox>>

(* Wall-clock time passes.                                                  *)
Tick ==
    /\ now < MaxTime
    /\ now' = now + 1
    /\ UNCHANGED <<nextId, exp, period, every, timers, inbox, armed, fires>>

Init ==
    /\ now = 0
    /\ nextId = 1
    /\ exp = [i \in Ids |-> 0]
    /\ period = [i \in Ids |-> 0]
    /\ every = [i \in Ids |-> FALSE]
    /\ timers = {}
    /\ inbox = <<>>
    /\ armed = NoTime
    /\ fires = [i \in Ids |-> 0]

Next ==
    \/ \E d \in AfterDelays, b \in BOOLEAN : RunAfter(d, b)
    \/ \E i \in EveryIntervals, b \in BOOLEAN : RunEvery(i, b)
    \/ AddTimerInLoop
    \/ HandleRead
    \/ Tick

Spec == Init /\ [][Next]_vars

(* The loop thread dispatches a readable timerfd and drains its pending   *)
(* functors on every iteration, and the clock does not stop.               *)
FairSpec ==
    /\ Spec
    /\ WF_vars(HandleRead)
    /\ WF_vars(AddTimerInLoop)
    /\ WF_vars(Tick)

-----------------------------------------------------------------------------
(* Properties.                                                             *)

Pending(id) == id \in timers \/ \E k \in DOMAIN inbox : inbox[k] = id

(* While timers_ is not empty the timerfd is armed, and no later than the *)
(* earliest expiration (or now, when that has passed): across adds from   *)
(* the loop and from other threads and across handleRead/reset, no timer   *)
(* is left waiting on a timerfd that will not fire for it.                 *)
ArmedForEarliest ==
    timers # {} =>
        /\ armed # NoTime
        /\ armed <= IF MinExp(timers, exp) > now THEN MinExp(timers, exp) ELSE now

(* Every timer that made it into timers_ runs at least once: the timerfd   *)
(* is armed for it through every later add and reset.                     *)
TimerEventuallyFires == \A id \in Ids : id \in timers ~> fires[id] > 0

(* No Timer is lost: each one created is pending, or has fired and was    *)
(* asked for as a one-shot by runAfter (spec 2: timers with equal          *)
(* deadlines are ordered by sequence, "never lost or merged"; spec 4.3:    *)
(* runEvery repeats).  A refused insert and a runEvery timer dropped after *)
(* its first run both break it.                                            *)
NoTimerLost ==
    \A id \in Created : Pending(id) \/ (fires[id] > 0 /\ ~every[id])

=============================================================================
