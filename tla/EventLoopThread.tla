---------------------------- MODULE EventLoopThread ----------------------------
(***************************************************************************)
(* A TcpServer (src/net/TcpServer.cpp) with its Acceptor                   *)
(* (src/net/Acceptor.cpp) and its EventLoopThreadPool                      *)
(* (src/net/EventLoopThreadPool.cpp, siren/net/EventLoopThread.cpp), with  *)
(* the parts of EventLoop::loop(), runInLoop(), queueInLoop() and quit()   *)
(* (src/net/EventLoop.cpp) that tie them together.                         *)
(*                                                                         *)
(* The base thread runs TcpServer::start(): the pool's start(), one        *)
(* startLoop() after the other, each spawning a thread and waiting on      *)
(* cond_ until loop_ is published; then Acceptor::listen().  The base loop *)
(* then accepts connections, hands each to the I/O loop getNextLoop()      *)
(* returns and runs the removeConnectionInLoop functors the I/O loops      *)
(* queue.  When the application destroys the server, ~TcpServer queues     *)
(* connectDestroyed for every connection left in connections_ and the pool *)
(* destroys its EventLoopThreads in order: quit() and join() each.         *)
(*                                                                         *)
(* A connection is abstracted to its TcpConnection::state_ (TcpConnection  *)
(* has its own model): "connecting" after the constructor, "connected"     *)
(* after connectEstablished, "disconnected" after handleClose, "destroyed" *)
(* after connectDestroyed.  A functor is [f, c]: a TcpConnection or        *)
(* TcpServer member bound to connection c.                                 *)
(***************************************************************************)
EXTENDS Integers, Sequences, FiniteSets

SeqExt == INSTANCE SequencesExt

CONSTANTS
    NumThreads,   \* numThreads_ of the pool (TcpServer::setThreadNum)
    MaxConns      \* connections the Acceptor accepts

Threads == 1..NumThreads
Base == 0          \* the base loop, baseLoop_ and TcpServer::loop_
NoLoop == -1       \* a null EventLoop*
Loops == {Base} \cup Threads
Conns == 1..MaxConns   \* connection c is the c-th one accepted

Functor == [f : {"connectEstablished", "connectDestroyed",
                 "removeConnectionInLoop"}, c : Conns]

VARIABLES
    ppc,       \* where the base thread is
    cur,       \* the EventLoopThread being started or destroyed
    lt,        \* where each loop thread is in threadFunc()
    loopPtr,   \* loop_ of each EventLoopThread is not null
    alive,     \* the EventLoop on each loop thread's stack exists
    quitFlag,  \* quit_ of each EventLoop
    loops,     \* loops_ of the pool: what each startLoop() returned
    next,      \* next_ of the pool
    handed,    \* the loops getNextLoop() returned, in order: handed[c] is
               \* the I/O loop of connection c
    crashed,   \* std::terminate, or a call through a freed object
    listening, \* Acceptor::listening_
    conns,     \* the connections in TcpServer::connections_
    cst,       \* state_ of each TcpConnection
    pend,      \* pendingFunctors_ of each loop
    batch,     \* the vector doPendingFunctors() swapped out, per loop
    assertFail \* an assert of connectEstablished, connectDestroyed (through
               \* EPollPoller::removeChannel) or removeConnectionInLoop failed

poolVars == <<cur, lt, loopPtr, alive, quitFlag, loops, next>>
srvVars == <<listening, conns, cst, pend, batch, assertFail>>
vars == <<ppc, poolVars, handed, crashed, srvVars>>

TypeOK ==
    /\ ppc \in {"idle", "spawn", "check", "wait", "listen", "started",
                "draining", "dtorRead", "dtorJoin", "done"}
    /\ cur \in 1..NumThreads + 1
    /\ lt \in [Threads -> {"none", "spawned", "publishing", "entering",
                           "looping", "polled", "draining", "exiting",
                           "finished"}]
    /\ loopPtr \in [Threads -> BOOLEAN]
    /\ alive \in [Threads -> BOOLEAN]
    /\ quitFlag \in [Threads -> BOOLEAN]
    /\ loops \in Seq(Threads \cup {NoLoop})
    /\ next \in 0..NumThreads
    /\ handed \in Seq(Loops)
    /\ crashed \in BOOLEAN
    /\ listening \in BOOLEAN
    /\ conns \subseteq Conns
    /\ cst \in [Conns -> {"none", "connecting", "connected", "disconnected",
                          "destroyed"}]
    /\ pend \in [Loops -> Seq(Functor)]
    /\ batch \in [Loops -> Seq(Functor)]
    /\ assertFail \in BOOLEAN

Init ==
    /\ ppc = "idle"
    /\ cur = 1
    /\ lt = [i \in Threads |-> "none"]
    /\ loopPtr = [i \in Threads |-> FALSE]
    /\ alive = [i \in Threads |-> FALSE]
    /\ quitFlag = [i \in Threads |-> FALSE]
    /\ loops = <<>>
    /\ next = 0
    /\ handed = <<>>
    /\ crashed = FALSE
    /\ listening = FALSE
    /\ conns = {}
    /\ cst = [c \in Conns |-> "none"]
    /\ pend = [l \in Loops |-> <<>>]
    /\ batch = [l \in Loops |-> <<>>]
    /\ assertFail = FALSE

(* The base loop serves between start() and the server's destruction.     *)
Serving == ppc \in {"started", "draining"}

(* Loop l is between poll() and doPendingFunctors(): its channels'         *)
(* callbacks run.                                                          *)
Dispatching(l) == IF l = Base THEN ppc = "started" ELSE lt[l] = "polled"
Draining(l) == IF l = Base THEN ppc = "draining" ELSE lt[l] = "draining"

(* queueInLoop(): append to pendingFunctors_ of loop l (its wakeup() is    *)
(* EventLoop's model).                                                      *)
Queue(p, l, f, c) == [p EXCEPT ![l] = Append(@, [f |-> f, c |-> c])]

-----------------------------------------------------------------------------
(* The connection functors, run on the loop they were queued on.          *)

(* TcpConnection::connectEstablished(): assert(state_ == kConnecting),     *)
(* then kConnected.                                                         *)
connectEstablished(c) ==
    /\ cst' = [cst EXCEPT ![c] = "connected"]
    /\ assertFail' = (assertFail \/ cst[c] # "connecting")

(* TcpConnection::connectDestroyed(): kConnected becomes kDisconnected,   *)
(* then channel_->remove(), which asserts in EPollPoller::removeChannel    *)
(* that the channel was added (by connectEstablished's enableReading) and  *)
(* is still in channels_.                                                   *)
connectDestroyed(c) ==
    /\ cst' = [cst EXCEPT ![c] = "destroyed"]
    /\ assertFail' = (assertFail \/ cst[c] \notin {"connected", "disconnected"})

(* Mutant: removeConnectionInLoop() that erases but never queues           *)
(* connectDestroyed.                                                        *)
removeConnectionInLoop_noDestroy(c) ==
    /\ conns' = conns \ {c}
    /\ pend' = pend
    /\ assertFail' = (assertFail \/ c \notin conns)

(* TcpServer::removeConnectionInLoop(): erase the entry, assert(n == 1),   *)
(* and queueInLoop(connectDestroyed) on the connection's I/O loop.         *)
removeConnectionInLoop(c) ==
    /\ conns' = conns \ {c}
    /\ pend' = Queue(pend, handed[c], "connectDestroyed", c)
    /\ assertFail' = (assertFail \/ c \notin conns)

(* Run functor fn on its loop.                                              *)
RunOne(fn) ==
    CASE fn.f = "connectEstablished" ->
              connectEstablished(fn.c) /\ UNCHANGED <<conns, pend>>
      [] fn.f = "connectDestroyed" ->
              connectDestroyed(fn.c) /\ UNCHANGED <<conns, pend>>
      [] fn.f = "removeConnectionInLoop" ->
              removeConnectionInLoop(fn.c) /\ UNCHANGED cst

-----------------------------------------------------------------------------
(* The base thread.                                                        *)

(* EventLoopThreadPool::start(): one startLoop() per thread, in order;     *)
(* with no threads it returns at once.                                     *)
Start ==
    /\ ppc = "idle"
    /\ ppc' = IF NumThreads = 0 THEN "listen" ELSE "spawn"
    /\ UNCHANGED <<poolVars, handed, crashed, srvVars>>

(* startLoop(): thread_ = std::thread(threadFunc).                         *)
Spawn ==
    /\ ppc = "spawn"
    /\ lt' = [lt EXCEPT ![cur] = "spawned"]
    /\ ppc' = "check"
    /\ UNCHANGED <<cur, loopPtr, alive, quitFlag, loops, next, handed, crashed,
                   srvVars>>

(* Mutant: startLoop() that tests loop_ once and never waits, so it can   *)
(* return loop_ before threadFunc has published it.                       *)
CheckLoop_if ==
    /\ ppc = "check"
    /\ loops' = Append(loops, IF loopPtr[cur] THEN cur ELSE NoLoop)
    /\ cur' = cur + 1
    /\ ppc' = IF cur = NumThreads THEN "listen" ELSE "spawn"
    /\ UNCHANGED <<lt, loopPtr, alive, quitFlag, next, handed, crashed, srvVars>>

(* startLoop(), under mutex_: while (loop_ == nullptr) cond_.wait(lock);   *)
(* then loop = loop_ is returned and start() pushes it on loops_.          *)
CheckLoop ==
    /\ ppc = "check"
    /\ IF loopPtr[cur]
       THEN /\ loops' = Append(loops, cur)
            /\ cur' = cur + 1
            /\ ppc' = IF cur = NumThreads THEN "listen" ELSE "spawn"
       ELSE /\ ppc' = "wait"
            /\ UNCHANGED <<loops, cur>>
    /\ UNCHANGED <<lt, loopPtr, alive, quitFlag, next, handed, crashed, srvVars>>

(* cond_.wait may return without a notify.                                 *)
SpuriousWake ==
    /\ ppc = "wait"
    /\ ppc' = "check"
    /\ UNCHANGED <<poolVars, handed, crashed, srvVars>>

(* TcpServer::start(), after the pool's start(): runInLoop(Acceptor::      *)
(* listen) runs at once on the base thread, which sets listening_ and      *)
(* enables reading on the accept channel.                                   *)
Listen ==
    /\ ppc = "listen"
    /\ listening' = TRUE
    /\ ppc' = "started"
    /\ UNCHANGED <<poolVars, handed, crashed, conns, cst, pend, batch,
                   assertFail>>

(* Mutant: getNextLoop() that wraps next_ only once it is past the end.  *)
getNextLoop_offByOne ==
    IF loops = <<>> THEN <<Base, next>>
    ELSE <<IF next < Len(loops) THEN loops[next + 1] ELSE NoLoop,
           IF next + 1 > Len(loops) THEN 0 ELSE next + 1>>

(* Mutant: getNextLoop() that wraps next_ to 1.                            *)
getNextLoop_wrapToOne ==
    IF loops = <<>> THEN <<Base, next>>
    ELSE <<loops[next + 1], IF next + 1 >= Len(loops) THEN 1 ELSE next + 1>>

(* EventLoopThreadPool::getNextLoop(): <<loops_[next_], next_ after>>,     *)
(* next_ wrapping to 0; baseLoop_ when there are no loops.                 *)
getNextLoop ==
    IF loops = <<>> THEN <<Base, next>>
    ELSE <<IF next < Len(loops) THEN loops[next + 1] ELSE NoLoop,
           IF next + 1 >= Len(loops) THEN 0 ELSE next + 1>>

(* TcpServer::newConnection(): take an I/O loop from getNextLoop(), put    *)
(* the new kConnecting TcpConnection c in connections_ and runInLoop(      *)
(* connectEstablished) on the I/O loop: at once when that is the base      *)
(* loop, queued otherwise.  A null loop crashes.                           *)
newConnection(c) ==
    LET l == getNextLoop[1]
    IN  /\ handed' = Append(handed, l)
        /\ next' = getNextLoop[2]
        /\ conns' = conns \cup {c}
        /\ cst' = [cst EXCEPT ![c] = IF l = Base THEN "connected"
                                     ELSE "connecting"]
        /\ pend' = IF l \in Threads
                   THEN Queue(pend, l, "connectEstablished", c) ELSE pend
        /\ crashed' = (crashed \/ l \notin Loops)

(* Acceptor::handleRead() on the base loop, once listen() has enabled the  *)
(* accept channel: accept() returns a connection and newConnectionCallback_ *)
(* is TcpServer::newConnection().  MaxConns bounds the connections.        *)
Accept ==
    /\ ppc = "started"
    /\ listening
    /\ Len(handed) < MaxConns
    /\ newConnection(Len(handed) + 1)
    /\ UNCHANGED <<ppc, cur, lt, loopPtr, alive, quitFlag, loops, listening,
                   batch, assertFail>>

(* The peer closes connection c.  On its I/O loop, handleClose() sets     *)
(* kDisconnected and calls closeCallback_, TcpServer::removeConnection(),  *)
(* which runInLoop(removeConnectionInLoop) on the base loop: at once when  *)
(* the I/O loop is the base loop, queued otherwise.  Once ~TcpServer has   *)
(* run, the callback's `this` is a freed TcpServer.                         *)
HandleClose(c) ==
    /\ c \in DOMAIN handed
    /\ cst[c] = "connected"
    /\ Dispatching(handed[c])
    /\ cst' = [cst EXCEPT ![c] = "disconnected"]
    /\ CASE ~Serving ->
              crashed' = TRUE /\ UNCHANGED <<conns, pend, assertFail>>
         [] handed[c] = Base ->
              removeConnectionInLoop(c) /\ UNCHANGED crashed
         [] OTHER ->
              /\ pend' = Queue(pend, Base, "removeConnectionInLoop", c)
              /\ UNCHANGED <<crashed, conns, assertFail>>
    /\ UNCHANGED <<ppc, poolVars, handed, listening, batch>>

-----------------------------------------------------------------------------
(* Every loop, the base loop and each I/O loop: doPendingFunctors().      *)

(* Swap pendingFunctors_ out under mutex_.                                 *)
SwapPending(l) ==
    /\ Dispatching(l)
    /\ batch' = [batch EXCEPT ![l] = pend[l]]
    /\ pend' = [pend EXCEPT ![l] = <<>>]
    /\ IF l = Base THEN ppc' = "draining" /\ UNCHANGED lt
       ELSE lt' = [lt EXCEPT ![l] = "draining"] /\ UNCHANGED ppc
    /\ UNCHANGED <<cur, loopPtr, alive, quitFlag, loops, next, handed, crashed,
                   listening, conns, cst, assertFail>>

(* Run the next swapped-out functor.                                        *)
RunFunctor(l) ==
    /\ Draining(l)
    /\ batch[l] # <<>>
    /\ batch' = [batch EXCEPT ![l] = Tail(@)]
    /\ RunOne(Head(batch[l]))
    /\ UNCHANGED <<ppc, poolVars, handed, crashed, listening>>

(* The batch is done; loop() goes round to its quit_ test.                 *)
EndDrain(l) ==
    /\ Draining(l)
    /\ batch[l] = <<>>
    /\ IF l = Base THEN ppc' = "started" /\ UNCHANGED lt
       ELSE lt' = [lt EXCEPT ![l] = "looping"] /\ UNCHANGED ppc
    /\ UNCHANGED <<cur, loopPtr, alive, quitFlag, loops, next, handed, crashed,
                   srvVars>>

LoopStep(l) == SwapPending(l) \/ RunFunctor(l) \/ EndDrain(l)

-----------------------------------------------------------------------------
(* Destruction.                                                            *)

(* Mutant: ~TcpServer() that calls connectDestroyed() directly instead of  *)
(* through runInLoop() on the connection's loop.                            *)
TcpServerDtor_direct ==
    /\ conns' = {}
    /\ cst' = [c \in Conns |-> IF c \in conns THEN "destroyed" ELSE cst[c]]
    /\ assertFail' = (assertFail \/
                      \E c \in conns : cst[c] \notin {"connected", "disconnected"})
    /\ pend' = pend

(* ~TcpServer(): for each entry of connections_, reset it and runInLoop(   *)
(* connectDestroyed) on the connection's loop: at once on the base loop,  *)
(* queued on an I/O loop, in the map's order.                              *)
TcpServerDtor ==
    LET onBase == {c \in conns : handed[c] = Base}
        destroys(l) == LET s == SeqExt!SetToSortSeq({c \in conns : handed[c] = l}, <)
                       IN  [k \in DOMAIN s |-> [f |-> "connectDestroyed", c |-> s[k]]]
    IN  /\ conns' = {}
        /\ cst' = [c \in Conns |-> IF c \in onBase THEN "destroyed" ELSE cst[c]]
        /\ assertFail' = (assertFail \/
                          \E c \in onBase : cst[c] \notin {"connected", "disconnected"})
        /\ pend' = [l \in Loops |-> IF l = Base THEN pend[l]
                                    ELSE pend[l] \o destroys(l)]

(* The application destroys the server after an iteration of the base     *)
(* loop: the ~TcpServer body, then its pool member, whose threads_ destroy *)
(* each EventLoopThread in turn.                                           *)
Destroy ==
    /\ ppc = "started"
    /\ TcpServerDtor
    /\ ppc' = IF NumThreads = 0 THEN "done" ELSE "dtorRead"
    /\ cur' = 1
    /\ UNCHANGED <<lt, loopPtr, alive, quitFlag, loops, next, handed, crashed,
                   listening, batch>>

(* ~EventLoopThread(): loop_ is read without mutex_; if it is not null,    *)
(* loop_->quit() sets quit_ and wakes the loop; if it is null the joinable *)
(* std::thread is destroyed, which calls std::terminate.                   *)
DtorRead ==
    /\ ppc = "dtorRead"
    /\ IF loopPtr[cur]
       THEN /\ quitFlag' = [quitFlag EXCEPT ![cur] = TRUE]
            /\ crashed' = (crashed \/ ~alive[cur])
            /\ ppc' = "dtorJoin"
       ELSE /\ crashed' = TRUE
            /\ ppc' = "done"
            /\ UNCHANGED quitFlag
    /\ UNCHANGED <<cur, lt, loopPtr, alive, loops, next, handed, srvVars>>

(* thread_.join() returns once threadFunc() has.                           *)
DtorJoin ==
    /\ ppc = "dtorJoin"
    /\ lt[cur] = "finished"
    /\ ppc' = IF cur = NumThreads THEN "done" ELSE "dtorRead"
    /\ cur' = IF cur = NumThreads THEN cur ELSE cur + 1
    /\ UNCHANGED <<lt, loopPtr, alive, quitFlag, loops, next, handed, crashed,
                   srvVars>>

-----------------------------------------------------------------------------
(* The loop threads: EventLoopThread::threadFunc().                        *)

(* EventLoop loop; then callback_(&loop).                                  *)
Construct(i) ==
    /\ lt[i] = "spawned"
    /\ lt' = [lt EXCEPT ![i] = "publishing"]
    /\ alive' = [alive EXCEPT ![i] = TRUE]
    /\ UNCHANGED <<ppc, cur, loopPtr, quitFlag, loops, next, handed, crashed,
                   srvVars>>

(* Mutant: threadFunc() that publishes loop_ without cond_.notify_one().   *)
Publish_noNotify(i) ==
    /\ lt[i] = "publishing"
    /\ loopPtr' = [loopPtr EXCEPT ![i] = TRUE]
    /\ lt' = [lt EXCEPT ![i] = "entering"]
    /\ UNCHANGED <<ppc, cur, alive, quitFlag, loops, next, handed, crashed,
                   srvVars>>

(* Under mutex_: loop_ = &loop; cond_.notify_one() wakes a waiting         *)
(* startLoop().                                                             *)
Publish(i) ==
    /\ lt[i] = "publishing"
    /\ loopPtr' = [loopPtr EXCEPT ![i] = TRUE]
    /\ lt' = [lt EXCEPT ![i] = "entering"]
    /\ ppc' = IF ppc = "wait" /\ cur = i THEN "check" ELSE ppc
    /\ UNCHANGED <<cur, alive, quitFlag, loops, next, handed, crashed, srvVars>>

(* EventLoop::loop() begins with quit_ = false.                            *)
EnterLoop(i) ==
    /\ lt[i] = "entering"
    /\ quitFlag' = [quitFlag EXCEPT ![i] = FALSE]
    /\ lt' = [lt EXCEPT ![i] = "looping"]
    /\ UNCHANGED <<ppc, cur, loopPtr, alive, loops, next, handed, crashed,
                   srvVars>>

(* while (!quit_): the loop leaves when it finds quit_ set; otherwise     *)
(* poll() returns, at the latest after kPollTimeMs or at once after a      *)
(* wakeup(), and the active channels are dispatched.                       *)
Iterate(i) ==
    /\ lt[i] = "looping"
    /\ lt' = [lt EXCEPT ![i] = IF quitFlag[i] THEN "exiting" ELSE "polled"]
    /\ UNCHANGED <<ppc, cur, loopPtr, alive, quitFlag, loops, next, handed,
                   crashed, srvVars>>

(* After loop(): loop_ = nullptr under mutex_; threadFunc() returns and    *)
(* the EventLoop is destroyed, with whatever is left in pendingFunctors_.  *)
Finish(i) ==
    /\ lt[i] = "exiting"
    /\ loopPtr' = [loopPtr EXCEPT ![i] = FALSE]
    /\ alive' = [alive EXCEPT ![i] = FALSE]
    /\ lt' = [lt EXCEPT ![i] = "finished"]
    /\ UNCHANGED <<ppc, cur, quitFlag, loops, next, handed, crashed, srvVars>>

LoopThreadStep(i) ==
    \/ Construct(i) \/ Publish(i) \/ EnterLoop(i) \/ Iterate(i) \/ Finish(i)
    \/ LoopStep(i)

(* What the base thread does of its own accord; accepting, a peer closing *)
(* and the destruction of the server are up to the clients and the        *)
(* application.                                                             *)
BaseStep ==
    \/ Start \/ Spawn \/ CheckLoop \/ Listen \/ LoopStep(Base)
    \/ DtorRead \/ DtorJoin

Next ==
    \/ BaseStep
    \/ SpuriousWake
    \/ Accept
    \/ \E c \in Conns : HandleClose(c)
    \/ Destroy
    \/ \E i \in Threads : LoopThreadStep(i)

Spec == Init /\ [][Next]_vars

(* Every thread runs: the base thread and each loop thread are scheduled, *)
(* and a loop blocked in poll returns within kPollTimeMs.                  *)
FairSpec ==
    /\ Spec
    /\ WF_vars(BaseStep)
    /\ \A i \in Threads : WF_vars(LoopThreadStep(i))

-----------------------------------------------------------------------------
(* Properties.                                                             *)

(* What start() collected are the started loops: every startLoop()        *)
(* returned the EventLoop its own thread published, and it is alive while *)
(* the server serves, whatever the order of the publish, the notify and   *)
(* (spurious) wake-ups of cond_.wait.                                      *)
StartedLoopsLive ==
    /\ \A k \in DOMAIN loops : loops[k] = k
    /\ Serving => \A k \in DOMAIN loops : alive[loops[k]]

(* start() returns: a startLoop() waiting on cond_ is always woken.        *)
StartCompletes == (ppc = "idle") ~> (ppc = "started")

(* getNextLoop() hands the accepted connections to the sub-loops in       *)
(* round-robin order, wrapping (spec 4.5 and 8: 3 threads, 7 calls ->      *)
(* [0,1,2,0,1,2,0]), and to the base loop when there are none.            *)
RoundRobin ==
    \A k \in DOMAIN handed :
        handed[k] = IF NumThreads = 0 THEN Base ELSE ((k - 1) % NumThreads) + 1

(* connectDestroyed runs on a connection only after connectEstablished,   *)
(* and once, and removeConnectionInLoop finds the entry it erases: the     *)
(* functors TcpServer sends to an I/O loop (runInLoop from newConnection  *)
(* and ~TcpServer) and the ones that come back (removeConnection) reach    *)
(* each loop in an order in which none of these asserts fails.            *)
ConnectionFunctorsInOrder == ~assertFail

(* A connection the peer closed while the server serves is erased from    *)
(* connections_ and destroyed on its I/O loop, after a hop to the base    *)
(* loop and back, unless the application destroys the server first.      *)
ClosedConnectionReleased ==
    \A c \in Conns :
        (cst[c] = "disconnected" /\ Serving)
            ~> ((c \notin conns /\ cst[c] = "destroyed") \/ ~Serving)

(* Destroying the server and its pool returns: every loop is asked to     *)
(* quit and joined, without a crash, and every connection the server      *)
(* accepted has been destroyed on its loop (spec 4.5: destruction quits   *)
(* the loop and joins the thread; spec 6: callbacks never see a partially *)
(* destroyed connection).                                                  *)
DestroyCompletes ==
    (ppc = "dtorRead")
        ~> (/\ ppc = "done" /\ ~crashed
            /\ \A c \in DOMAIN handed : cst[c] = "destroyed")

=============================================================================
