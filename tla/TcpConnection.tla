---------------------------- MODULE TcpConnection ----------------------------
(***************************************************************************)
(* One TcpConnection (src/src/net/TcpConnection.cpp) on its I/O loop, with *)
(* its Channel (src/siren/net/Channel.cpp), the channel's registration in *)
(* EPollPoller (src/siren/net/poller/EPollPoller.cpp), the owning          *)
(* TcpServer's removeConnection path (src/src/net/TcpServer.cpp) or, when *)
(* the connection belongs to a TcpClient (src/siren/net/TcpClient.cpp),    *)
(* the client's connection_, removeConnection and destructor; and the      *)
(* kernel socket and remote peer as environment.  The Connector that a     *)
(* TcpClient starts and restarts has no source in the repository: only    *)
(* the calls made to it are recorded.                                      *)
(*                                                                         *)
(* The I/O loop thread runs EventLoop::loop(): poll, then                  *)
(* Channel::handleEventWithGuard() in its order (close, error, read,       *)
(* write), then doPendingFunctors().  Everything the connection does on    *)
(* its loop thread is a function from one world record to the next, so    *)
(* that handlers compose as they call each other in the code.  The         *)
(* application calls send/shutdown/forceClose/startRead/stopRead from its  *)
(* callbacks on the loop thread, and, where a run allows it, from foreign  *)
(* threads.  queueInLoop() is taken as atomic here: its own race is the    *)
(* subject of EventLoop.                                                   *)
(*                                                                         *)
(* Byte contents are abstracted to counts; the input buffer is drained by  *)
(* defaultMessageCallback, so only "data is readable" is kept.             *)
(***************************************************************************)
EXTENDS Integers, Sequences, FiniteSets

CONSTANTS
    Foreign,           \* application threads other than the I/O loop thread
    UserOps,           \* operations the application calls on the loop thread
    ForeignOps,        \* operations foreign threads call
    ReadControlStates, \* connection states in which startRead/stopRead are called
    HighWaterMark,     \* highWaterMark_
    MaxLen,            \* largest message length passed to send()
    MaxCalls,          \* bound on application calls
    MaxPeerSends,      \* bound on the number of peer segments
    Owners,            \* who owns the connection: "server" and/or "client"
    ClientRetry        \* values of TcpClient::retry_ to consider

ConnOps == {"send", "shutdown", "forceClose", "forceCloseWithDelay", "startRead",
           "stopRead"}
ClientOps == {"connect", "disconnect", "stop", "~TcpClient"}
ServerOps == {"~TcpServer"}
Ops == ConnOps \cup ClientOps \cup ServerOps
States == {"kConnecting", "kConnected", "kDisconnecting", "kDisconnected"}

ASSUME /\ UserOps \subseteq Ops /\ ForeignOps \subseteq Ops
       /\ ReadControlStates \subseteq States
       /\ HighWaterMark \in Nat \ {0} /\ MaxLen \in Nat \ {0}
       /\ MaxCalls \in Nat /\ MaxPeerSends \in Nat
       /\ Owners \subseteq {"server", "client"} /\ ClientRetry \subseteq BOOLEAN
       /\ "forceCloseWithDelay" \notin ForeignOps

(* Functors a pending queue can hold; only those bound to                  *)
(* shared_from_this() keep the connection alive.                           *)
Kinds == {"establish", "writeComplete", "highWaterMark", "forceClose",
          "destroy", "send", "shutdown", "startRead", "stopRead", "setCloseCb"}
RawThisKinds == {"send", "startRead", "stopRead"}
(* What a destructor on an application thread read: connection_.unique(). *)
DtorViews == {"~TcpClient:unique", "~TcpClient:shared"}
Functor == [kind : Kinds, len : 0..MaxLen]

(* Results of sockets::write: bytes written, EWOULDBLOCK, or EPIPE /        *)
(* ECONNRESET.                                                              *)
WouldBlock == -1
Fault == -2
NoWrite == 0

Revents == {"IN", "OUT", "HUP", "ERR"}

VARIABLES
    w,        \* the world the loop thread acts on (see WorldType)
    lpc,      \* where the I/O loop thread is in loop()
    revents,  \* revents_ of the channel for the current poll
    batch,    \* the functors doPendingFunctors() swapped out
    bpos,     \* index of the next functor of batch to run
    fpc,      \* where each foreign thread is in its call
    fop,      \* the operation a foreign thread is calling
    calls,    \* application calls made so far
    peerSends,\* segments the peer has sent
    uaf       \* a functor bound to raw `this` ran on a destroyed connection

vars == <<w, lpc, revents, batch, bpos, fpc, fop, calls, peerSends, uaf>>

WorldType ==
    [ conn  : [state : States, reading : BOOLEAN, outBuf : 0..MaxCalls * MaxLen,
               shutWr : BOOLEAN],
      chan  : [events : SUBSET {"read", "write"},
               index : {"kNew", "kAdded", "kDeleted"}],
      sock  : [inData : BOOLEAN, peerFin : BOOLEAN, sockErr : BOOLEAN,
               reset : BOOLEAN],
      ioq   : Seq(Functor),
      inMap : BOOLEAN,                     \* connections_ entry / connection_
      owner : {"server", "client"},
      closeCb : {"server", "client", "detail"},
      cl    : [connect : BOOLEAN, retry : BOOLEAN, alive : BOOLEAN,
               connector : {"started", "stopped", "restarted"}],
      srvAlive : BOOLEAN,                  \* the TcpServer is not destroyed
      late  : BOOLEAN,                     \* a closeCallback_ ran on its freed owner
      baseQ : Nat,
      delayed : 0..MaxCalls,               \* forceCloseWithDelay timers not yet run
      cb    : [up : Nat, down : Nat, close : Nat, hwm : Nat, wc : Nat] ]

TypeOK ==
    /\ w \in WorldType
    /\ lpc \in {"poll", "closeErr", "read", "write", "drain", "run"}
    /\ revents \subseteq Revents
    /\ batch \in Seq(Functor)
    /\ bpos \in 1..Len(batch) + 1
    /\ fpc \in [Foreign -> {"idle", "act", "done"}]
    /\ fop \in [Foreign -> Ops \cup DtorViews \cup {"none"}]
    /\ calls \in 0..MaxCalls
    /\ peerSends \in 0..MaxPeerSends
    /\ uaf \in BOOLEAN

-----------------------------------------------------------------------------
(* Reference counting of the shared_ptr<TcpConnection>.                    *)

HoldsRef(f) == f.kind \notin RawThisKinds

(* Owners: TcpServer::connections_, removeConnectionInLoop functors queued *)
(* on the base loop, functors bound to shared_from_this() in the I/O       *)
(* loop's queue or in the swapped-out vector (freed when it goes out of    *)
(* scope at the end of doPendingFunctors()), the guard Channel::           *)
(* handleEvent() takes for the dispatch, and foreign callers mid-call.     *)
Refs ==
    (IF w.inMap THEN 1 ELSE 0) + w.baseQ
    + Len(SelectSeq(w.ioq, HoldsRef)) + Len(SelectSeq(batch, HoldsRef))
    + (IF lpc \in {"closeErr", "read", "write"} THEN 1 ELSE 0)
    + Cardinality({t \in Foreign : fpc[t] = "act"})

Destroyed == Refs = 0

-----------------------------------------------------------------------------
(* Channel and EPollPoller.                                                *)

(* EPollPoller::updateChannel(): kNew and kDeleted channels are ADDed      *)
(* (even with no events); an added channel with no events is DELeted.     *)
UpdatedIndex(idx, ev) ==
    IF idx \in {"kNew", "kDeleted"} THEN "kAdded"
    ELSE IF ev = {} THEN "kDeleted" ELSE "kAdded"

(* Channel::enableReading/disableReading/enableWriting/disableWriting/     *)
(* disableAll set events_ and call update().                               *)
Update(x, ev) ==
    [x EXCEPT !.chan = [events |-> ev, index |-> UpdatedIndex(x.chan.index, ev)]]

(* Channel::remove() -> EPollPoller::removeChannel(): erased from          *)
(* channels_, DEL if still added, index back to kNew.                      *)
Remove(x) == [x EXCEPT !.chan.index = "kNew"]

(* EventLoop::queueInLoop() on the I/O loop.                               *)
QueueInLoop(x, k, n) == [x EXCEPT !.ioq = Append(@, [kind |-> k, len |-> n])]

IsWriting(x) == "write" \in x.chan.events

-----------------------------------------------------------------------------
(* The kernel socket.                                                      *)

(* What sockets::write can return: nothing gets through once the peer     *)
(* reset the connection or our write half is shut.                         *)
WriteOutcomes(x, len) ==
    IF x.sock.sockErr \/ x.sock.reset \/ x.conn.shutWr THEN {Fault}
    ELSE {WouldBlock} \cup 1..len

(* A failed write consumes a pending socket error.                         *)
ConsumeError(x) == [x EXCEPT !.sock.sockErr = FALSE]

-----------------------------------------------------------------------------
(* TcpConnection handlers, on the loop thread.                             *)

(* Mutant: handleClose() that forgets closeCallback_.                      *)
handleClose_noCloseCallback(x) ==
    LET y == Update([x EXCEPT !.conn.state = "kDisconnected"], {})
    IN  [y EXCEPT !.cb.down = @ + 1]

(* TcpServer::removeConnection, bound to raw `this`: runInLoop on the     *)
(* base loop, i.e. a removeConnectionInLoop functor holding the pointer.   *)
(* late records that it ran on a TcpServer already destroyed.              *)
serverRemoveConnection(x) == [x EXCEPT !.baseQ = @ + 1, !.late = @ \/ ~x.srvAlive]

(* TcpClient::removeConnection, bound to raw `this`: connection_.reset()   *)
(* under mutex_, queue connectDestroyed, and restart the Connector when    *)
(* retry_ and connect_ are set.  late records that it ran on a TcpClient   *)
(* already destroyed.                                                      *)
clientRemoveConnection(x) ==
    LET y == QueueInLoop([x EXCEPT !.inMap = FALSE,
                                   !.late = @ \/ ~x.cl.alive], "destroy", 0)
    IN  IF x.cl.retry /\ x.cl.connect THEN [y EXCEPT !.cl.connector = "restarted"]
        ELSE y

(* detail::removeConnection, installed by ~TcpClient: queue               *)
(* connectDestroyed.                                                        *)
detailRemoveConnection(x) == QueueInLoop(x, "destroy", 0)

(* closeCallback_(guardThis): whichever callback the owner installed.     *)
closeCallback(x) ==
    CASE x.closeCb = "server" -> serverRemoveConnection(x)
      [] x.closeCb = "client" -> clientRemoveConnection(x)
      [] OTHER                -> detailRemoveConnection(x)

(* handleClose(): state, disableAll(), connectionCallback_ then            *)
(* closeCallback_.                                                          *)
handleClose(x) ==
    LET y == Update([x EXCEPT !.conn.state = "kDisconnected"], {})
    IN  closeCallback([y EXCEPT !.cb.down = @ + 1, !.cb.close = @ + 1])

(* Mutant: shutdownInLoop() that does not wait for the output buffer.      *)
shutdownInLoop_noWritingCheck(x) == [x EXCEPT !.conn.shutWr = TRUE]

(* shutdownInLoop(): half-close only when nothing is waiting to be written.*)
shutdownInLoop(x) ==
    IF ~IsWriting(x) THEN [x EXCEPT !.conn.shutWr = TRUE] ELSE x

(* sendInLoop(data, len), with k the result of the direct write when one  *)
(* is attempted.                                                            *)
sendInLoop(x, len, k) ==
    LET direct    == ~IsWriting(x) /\ x.conn.outBuf = 0
        nwrote    == IF direct /\ k > 0 THEN k ELSE 0
        remaining == len - nwrote
        fault     == direct /\ k = Fault
        old       == x.conn.outBuf
        x1 == IF direct /\ k # WouldBlock /\ ~fault /\ remaining = 0
              THEN QueueInLoop([x EXCEPT !.cb.wc = @ + 1], "writeComplete", 0)
              ELSE IF fault THEN ConsumeError(x) ELSE x
        x2 == IF old + remaining >= HighWaterMark /\ old < HighWaterMark
              THEN QueueInLoop([x1 EXCEPT !.cb.hwm = @ + 1], "highWaterMark", 0)
              ELSE x1
        x3 == [x2 EXCEPT !.conn.outBuf = old + remaining]
        x4 == IF ~IsWriting(x3) THEN Update(x3, x3.chan.events \cup {"write"})
              ELSE x3
    IN  IF x.conn.state = "kDisconnected" THEN x
        ELSE IF ~fault /\ remaining > 0 THEN x4
        ELSE x1

(* The write outcomes sendInLoop may meet: a write is attempted only when *)
(* nothing is queued.                                                       *)
SendOutcomes(x, len) ==
    IF ~IsWriting(x) /\ x.conn.outBuf = 0 /\ x.conn.state # "kDisconnected"
    THEN WriteOutcomes(x, len) ELSE {NoWrite}

(* Mutant: handleWrite() that leaves write interest on once drained.      *)
handleWrite_keepWriting(x, k) ==
    LET x1 == [x EXCEPT !.conn.outBuf = @ - k]
    IN  IF ~IsWriting(x) \/ k <= 0 THEN x
        ELSE IF x1.conn.outBuf > 0 \/ x1.conn.state # "kDisconnecting" THEN x1
        ELSE shutdownInLoop(x1)

(* Mutant: handleWrite() that never completes a pending shutdown.         *)
handleWrite_noShutdown(x, k) ==
    LET x1 == [x EXCEPT !.conn.outBuf = @ - k]
    IN  IF ~IsWriting(x) \/ k <= 0 THEN x
        ELSE IF x1.conn.outBuf > 0 THEN x1
        ELSE QueueInLoop([Update(x1, x1.chan.events \ {"write"})
                            EXCEPT !.cb.wc = @ + 1], "writeComplete", 0)

(* Mutant: handleWrite() that retrieves the write result even when it is  *)
(* negative.                                                                *)
handleWrite_noErrorCheck(x, k) ==
    LET x1 == [x EXCEPT !.conn.outBuf = @ - k]
    IN  IF ~IsWriting(x) THEN x
        ELSE IF x1.conn.outBuf > 0 THEN x1
        ELSE QueueInLoop([Update(x1, x1.chan.events \ {"write"})
                            EXCEPT !.cb.wc = @ + 1], "writeComplete", 0)

(* handleWrite(), with k the result of writing the output buffer.          *)
handleWrite(x, k) ==
    LET x1 == [x EXCEPT !.conn.outBuf = @ - k]
        x2 == QueueInLoop([Update(x1, x1.chan.events \ {"write"})
                             EXCEPT !.cb.wc = @ + 1], "writeComplete", 0)
    IN  IF ~IsWriting(x) THEN x
        ELSE IF k <= 0 THEN (IF k = Fault THEN ConsumeError(x) ELSE x)
        ELSE IF x1.conn.outBuf > 0 THEN x1
        ELSE IF x2.conn.state = "kDisconnecting" THEN shutdownInLoop(x2)
        ELSE x2

HandleWriteOutcomes(x) ==
    IF IsWriting(x) THEN WriteOutcomes(x, x.conn.outBuf) ELSE {NoWrite}

(* handleRead(): Buffer::readFd returns -1 on a pending error (consuming  *)
(* it), data, 0 at end of stream, or -1 (EAGAIN).  On data the message    *)
(* callback drains the input buffer; on 0 the connection closes; an error *)
(* is only logged.                                                          *)
handleRead(x) ==
    CASE x.sock.sockErr                   -> ConsumeError(x)
      [] x.sock.inData                    -> [x EXCEPT !.sock.inData = FALSE]
      [] x.sock.peerFin \/ x.sock.reset   -> handleClose(x)
      [] OTHER                            -> x

(* connectEstablished(): Connecting -> Connected, tie, enableReading,     *)
(* connectionCallback_.                                                    *)
connectEstablished(x) ==
    LET y == Update([x EXCEPT !.conn.state = "kConnected"],
                    x.chan.events \cup {"read"})
    IN  [y EXCEPT !.cb.up = @ + 1]

(* Mutant: connectDestroyed() that does not remove the channel.           *)
connectDestroyed_noRemove(x) ==
    IF x.conn.state = "kConnected"
    THEN Update([x EXCEPT !.conn.state = "kDisconnected", !.cb.down = @ + 1], {})
    ELSE x

(* connectDestroyed(): the DOWN notification if still connected, then the *)
(* channel leaves the poller.                                              *)
connectDestroyed(x) ==
    LET y == Update([x EXCEPT !.conn.state = "kDisconnected",
                              !.cb.down = @ + 1], {})
    IN  Remove(IF x.conn.state = "kConnected" THEN y ELSE x)

(* Mutant: forceCloseInLoop() without its state test.                      *)
forceCloseInLoop_noStateCheck(x) == handleClose(x)

forceCloseInLoop(x) ==
    IF x.conn.state \in {"kConnected", "kDisconnecting"} THEN handleClose(x) ELSE x

startReadInLoop(x) ==
    IF ~x.conn.reading \/ "read" \notin x.chan.events
    THEN [Update(x, x.chan.events \cup {"read"}) EXCEPT !.conn.reading = TRUE]
    ELSE x

(* stopReadInLoop() sets reading_ to true, as the code does.               *)
stopReadInLoop(x) ==
    IF x.conn.reading \/ "read" \in x.chan.events
    THEN [Update(x, x.chan.events \ {"read"}) EXCEPT !.conn.reading = TRUE]
    ELSE x

(* Public API called on the loop thread.                                   *)
send(x, len, k) ==
    IF x.conn.state = "kConnected" THEN sendInLoop(x, len, k) ELSE x

shutdown(x) ==
    IF x.conn.state = "kConnected"
    THEN shutdownInLoop([x EXCEPT !.conn.state = "kDisconnecting"])
    ELSE x

(* Mutant: forceClose() without its state test.                            *)
forceClose_noStateCheck(x) ==
    QueueInLoop([x EXCEPT !.conn.state = "kDisconnecting"], "forceClose", 0)

forceClose(x) ==
    IF x.conn.state \in {"kConnected", "kDisconnecting"}
    THEN QueueInLoop([x EXCEPT !.conn.state = "kDisconnecting"], "forceClose", 0)
    ELSE x

(* forceCloseWithDelay(): from Connected or Disconnecting, set            *)
(* kDisconnecting at once and runAfter(seconds) a lambda holding only a    *)
(* weak_ptr to the connection.  On the loop thread runAfter's addTimer     *)
(* inserts the timer at once.                                               *)
forceCloseWithDelay(x) ==
    IF x.conn.state \in {"kConnected", "kDisconnecting"}
    THEN [x EXCEPT !.conn.state = "kDisconnecting", !.delayed = @ + 1]
    ELSE x

(* Mutant: the delayed lambda calls shutdown() instead of forceClose().   *)
delayedForceClose_shutdown(x, alive) == IF alive THEN shutdown(x) ELSE x

(* The lambda forceCloseWithDelay() hands the timer: weakPtr.lock(), and   *)
(* forceClose() only if the connection is still alive.                      *)
delayedForceClose(x, alive) == IF alive THEN forceClose(x) ELSE x

-----------------------------------------------------------------------------
(* TcpClient, on the world of its one connection.                          *)

(* TcpClient::TcpClient(): connect_ true, retry_ false.                    *)
NewClient ==
    [connect |-> TRUE, retry |-> FALSE, alive |-> TRUE, connector |-> "stopped"]

(* TcpClient::connect(): connect_ = true; connector_->start().             *)
connect(x) == [x EXCEPT !.cl.connect = TRUE, !.cl.connector = "started"]

(* TcpClient::disconnect(): connect_ = false; under mutex_, shutdown() of  *)
(* connection_ if there is one.                                            *)
disconnect(x) ==
    LET y == [x EXCEPT !.cl.connect = FALSE]
    IN  IF y.inMap THEN shutdown(y) ELSE y

(* TcpClient::stop(): connect_ = false; connector_->stop().                *)
stop(x) == [x EXCEPT !.cl.connect = FALSE, !.cl.connector = "stopped"]

(* ~TcpClient(), after reading conn = connection_ and unique =             *)
(* connection_.unique() under mutex_: runInLoop(setCloseCallback(          *)
(* detail::removeConnection)) runs at once on the loop thread and is       *)
(* queued from another; forceClose() if unique.  Without a connection:    *)
(* connector_->stop() (and a runAfter of the empty removeConnector).       *)
(* The TcpClient, and with it its connection_ member, is gone when the     *)
(* destructor returns.                                                      *)
TcpClientDtor(x, conn, unique, inLoop) ==
    LET y == IF inLoop THEN [x EXCEPT !.closeCb = "detail"]
             ELSE QueueInLoop(x, "setCloseCb", 0)
        z == IF unique THEN forceClose(y) ELSE y
    IN  IF conn THEN [z EXCEPT !.cl.alive = FALSE, !.inMap = FALSE]
        ELSE [x EXCEPT !.cl.alive = FALSE, !.cl.connector = "stopped"]

-----------------------------------------------------------------------------
(* A functor run by doPendingFunctors(), with k the write outcome when the *)
(* functor is sendInLoop.                                                   *)
RunKind(x, f, k) ==
    CASE f.kind = "establish"  -> connectEstablished(x)
      [] f.kind = "forceClose" -> forceCloseInLoop(x)
      [] f.kind = "destroy"    -> connectDestroyed(x)
      [] f.kind = "send"       -> sendInLoop(x, f.len, k)
      [] f.kind = "shutdown"   -> shutdownInLoop(x)
      [] f.kind = "startRead"  -> startReadInLoop(x)
      [] f.kind = "stopRead"   -> stopReadInLoop(x)
      [] f.kind = "setCloseCb" -> [x EXCEPT !.closeCb = "detail"]
      [] OTHER                 -> x  \* writeComplete, highWaterMark callbacks

RunOutcomes(x, f) ==
    IF f.kind = "send" THEN SendOutcomes(x, f.len) ELSE {NoWrite}

(* TcpConnection::TcpConnection(): state_ kConnecting, reading_ true, an  *)
(* empty output buffer.                                                     *)
NewConnection ==
    [state |-> "kConnecting", reading |-> TRUE, outBuf |-> 0, shutWr |-> FALSE]

(* Channel::Channel(): events_ kNoneEvent and index_ -1, i.e. kNew.        *)
NewChannel == [events |-> {}, index |-> "kNew"]

NoClient ==
    [connect |-> FALSE, retry |-> FALSE, alive |-> FALSE, connector |-> "stopped"]

(* TcpServer::newConnection: the connections_ entry, closeCallback_ set to *)
(* removeConnection, and connectEstablished queued on the I/O loop.        *)
ServerAccepted ==
    [ conn  |-> NewConnection,
      chan  |-> NewChannel,
      sock  |-> [inData |-> FALSE, peerFin |-> FALSE, sockErr |-> FALSE,
                 reset |-> FALSE],
      ioq   |-> <<[kind |-> "establish", len |-> 0]>>,
      inMap |-> TRUE,
      baseQ |-> 0,
      owner |-> "server",
      closeCb |-> "server",
      cl    |-> NoClient,
      srvAlive |-> TRUE,
      late  |-> FALSE,
      delayed |-> 0,
      cb    |-> [up |-> 0, down |-> 0, close |-> 0, hwm |-> 0, wc |-> 0] ]

(* A TcpClient, constructed with retry_ = r (enableRetry() is declared in *)
(* TcpClient.h, which the repository lacks), then connect(); the Connector *)
(* calls newConnection() on the loop thread: connection_ = conn under      *)
(* mutex_, closeCallback_ = TcpClient::removeConnection, and               *)
(* connectEstablished() called directly.                                    *)
ClientConnected(r) ==
    connectEstablished(
        connect([ServerAccepted EXCEPT !.ioq = <<>>, !.owner = "client",
                                       !.closeCb = "client",
                                       !.cl = [NewClient EXCEPT !.retry = r]]))

Init ==
    /\ \E o \in Owners, r \in ClientRetry :
          w = IF o = "server" THEN ServerAccepted ELSE ClientConnected(r)
    /\ lpc = "poll"
    /\ revents = {}
    /\ batch = <<>>
    /\ bpos = 1
    /\ fpc = [t \in Foreign |-> "idle"]
    /\ fop = [t \in Foreign |-> "none"]
    /\ calls = 0
    /\ peerSends = 0
    /\ uaf = FALSE

-----------------------------------------------------------------------------
(* The I/O loop thread.                                                    *)

(* The revents epoll_wait may report for the channel: only an added fd is *)
(* reported; IN when reading is on and there is data, end of stream or a  *)
(* reset; HUP and ERR whatever events_ holds; OUT when writing is on and  *)
(* the socket has room, which the environment decides.                     *)
PossibleRevents(x) ==
    LET must == (IF "read" \in x.chan.events
                    /\ (x.sock.inData \/ x.sock.peerFin \/ x.sock.reset)
                 THEN {"IN"} ELSE {})
                \cup (IF x.sock.reset \/ (x.sock.peerFin /\ x.conn.shutWr)
                      THEN {"HUP"} ELSE {})
                \cup (IF x.sock.sockErr THEN {"ERR"} ELSE {})
        may  == IF IsWriting(x) THEN {{}, {"OUT"}} ELSE {{}}
    IN  IF x.chan.index # "kAdded" THEN {{}} ELSE {must \cup o : o \in may}

(* EPollPoller::poll() in loop(): the channel is active when it has        *)
(* revents; otherwise the loop goes straight to doPendingFunctors().       *)
Poll ==
    /\ lpc = "poll"
    /\ \E r \in PossibleRevents(w) :
          /\ revents' = r
          /\ lpc' = IF r = {} THEN "drain" ELSE "closeErr"
    /\ UNCHANGED <<w, batch, bpos, fpc, fop, calls, peerSends, uaf>>

(* handleEventWithGuard(): closeCallback_ on HUP without IN; errorCallback_*)
(* (handleError, empty) on ERR.  The tie guard must lock first.            *)
HandleCloseEvent ==
    /\ lpc = "closeErr"
    /\ w' = IF "HUP" \in revents /\ "IN" \notin revents THEN handleClose(w) ELSE w
    /\ lpc' = "read"
    /\ UNCHANGED <<revents, batch, bpos, fpc, fop, calls, peerSends, uaf>>

(* handleEventWithGuard(): readCallback_ on IN.                            *)
HandleReadEvent ==
    /\ lpc = "read"
    /\ w' = IF "IN" \in revents THEN handleRead(w) ELSE w
    /\ lpc' = "write"
    /\ UNCHANGED <<revents, batch, bpos, fpc, fop, calls, peerSends, uaf>>

(* handleEventWithGuard(): writeCallback_ on OUT.                          *)
HandleWriteEvent ==
    /\ lpc = "write"
    /\ IF "OUT" \in revents
       THEN \E k \in HandleWriteOutcomes(w) : w' = handleWrite(w, k)
       ELSE w' = w
    /\ lpc' = "drain"
    /\ UNCHANGED <<revents, batch, bpos, fpc, fop, calls, peerSends, uaf>>

(* doPendingFunctors(): swap pendingFunctors_ out.                         *)
SwapPending ==
    /\ lpc = "drain"
    /\ batch' = w.ioq
    /\ bpos' = 1
    /\ w' = [w EXCEPT !.ioq = <<>>]
    /\ lpc' = "run"
    /\ UNCHANGED <<revents, fpc, fop, calls, peerSends, uaf>>

(* doPendingFunctors(): run the next functor.  A functor bound to raw      *)
(* `this` runs whether or not the connection still exists.                 *)
RunFunctor ==
    /\ lpc = "run"
    /\ bpos <= Len(batch)
    /\ LET f == batch[bpos] IN
         /\ \E k \in RunOutcomes(w, f) : w' = RunKind(w, f, k)
         /\ uaf' = (uaf \/ (f.kind \in RawThisKinds /\ Destroyed))
    /\ bpos' = bpos + 1
    /\ UNCHANGED <<lpc, revents, batch, fpc, fop, calls, peerSends>>

(* End of doPendingFunctors(): the swapped-out vector, and the pointers    *)
(* its functors hold, are freed.                                           *)
EndDrain ==
    /\ lpc = "run"
    /\ bpos > Len(batch)
    /\ batch' = <<>>
    /\ bpos' = 1
    /\ lpc' = "poll"
    /\ UNCHANGED <<w, revents, fpc, fop, calls, peerSends, uaf>>

-----------------------------------------------------------------------------
(* ~TcpServer() on the base loop: for its entry in connections_, reset the *)
(* entry and runInLoop(connectDestroyed) on the I/O loop, another thread,  *)
(* so the functor is queued.                                                *)
TcpServerDtor(x) ==
    LET y == [x EXCEPT !.srvAlive = FALSE]
    IN  IF x.inMap THEN [QueueInLoop(y, "destroy", 0) EXCEPT !.inMap = FALSE]
        ELSE y

-----------------------------------------------------------------------------
(* The application: from a callback on the loop thread, or ~TcpServer on  *)
(* the base loop (one step, so it interleaves anywhere).                   *)

UserCall(op) ==
    /\ op \in UserOps
    /\ calls < MaxCalls
    /\ op \in ConnOps => ~Destroyed
    /\ op \in ClientOps => w.owner = "client" /\ w.cl.alive
    /\ op \in ServerOps => w.owner = "server" /\ w.srvAlive
    /\ op \in {"startRead", "stopRead"} => w.conn.state \in ReadControlStates
    /\ calls' = calls + 1
    /\ CASE op = "send"       -> \E n \in 1..MaxLen :
                                   \E k \in SendOutcomes(w, n) : w' = send(w, n, k)
         [] op = "shutdown"   -> w' = shutdown(w)
         [] op = "forceClose" -> w' = forceClose(w)
         [] op = "forceCloseWithDelay" -> w' = forceCloseWithDelay(w)
         [] op = "startRead"  -> w' = startReadInLoop(w)
         [] op = "stopRead"   -> w' = stopReadInLoop(w)
         [] op = "connect"    -> w' = connect(w)
         [] op = "disconnect" -> w' = disconnect(w)
         [] op = "stop"       -> w' = stop(w)
         [] op = "~TcpClient" -> w' = TcpClientDtor(w, w.inMap, Refs = 1, TRUE)
         [] op = "~TcpServer" -> w' = TcpServerDtor(w)
    /\ UNCHANGED <<lpc, revents, batch, bpos, fpc, fop, peerSends, uaf>>

(* The TimerQueue of the I/O loop runs a forceCloseWithDelay timer: its   *)
(* timerfd channel is dispatched by the loop, between two iterations of    *)
(* the connection's own channel.                                           *)
DelayExpired ==
    /\ lpc = "poll"
    /\ w.delayed > 0
    /\ w' = [delayedForceClose(w, ~Destroyed) EXCEPT !.delayed = @ - 1]
    /\ UNCHANGED <<lpc, revents, batch, bpos, fpc, fop, calls, peerSends, uaf>>

-----------------------------------------------------------------------------
(* The base loop: TcpServer::removeConnectionInLoop, bound to raw `this`,  *)
(* erases the map entry and queues connectDestroyed on the I/O loop.  late *)
(* records that it ran on a TcpServer already destroyed.                   *)
RemoveConnectionInLoop ==
    /\ w.baseQ > 0
    /\ w' = [QueueInLoop(w, "destroy", 0) EXCEPT !.baseQ = @ - 1, !.inMap = FALSE,
                                                 !.late = @ \/ ~w.srvAlive]
    /\ UNCHANGED <<lpc, revents, batch, bpos, fpc, fop, calls, peerSends, uaf>>


-----------------------------------------------------------------------------
(* The remote peer and the network.                                        *)

PeerSend ==
    /\ peerSends < MaxPeerSends
    /\ ~w.sock.peerFin /\ ~w.sock.reset
    /\ peerSends' = peerSends + 1
    /\ w' = [w EXCEPT !.sock.inData = TRUE]
    /\ UNCHANGED <<lpc, revents, batch, bpos, fpc, fop, calls, uaf>>

PeerShutdown ==
    /\ ~w.sock.peerFin /\ ~w.sock.reset
    /\ w' = [w EXCEPT !.sock.peerFin = TRUE]
    /\ UNCHANGED <<lpc, revents, batch, bpos, fpc, fop, calls, peerSends, uaf>>

(* An RST: pending input is discarded and a socket error is set.           *)
PeerReset ==
    /\ ~w.sock.reset
    /\ w' = [w EXCEPT !.sock.reset = TRUE, !.sock.sockErr = TRUE,
                      !.sock.inData = FALSE]
    /\ UNCHANGED <<lpc, revents, batch, bpos, fpc, fop, calls, peerSends, uaf>>

-----------------------------------------------------------------------------
(* Foreign threads: the public API off the loop thread.  The state_ test   *)
(* and the setState() or runInLoop() that follow it are separate steps:   *)
(* state_ is a plain field the loop thread writes concurrently.  The       *)
(* caller holds a TcpConnectionPtr for the duration of the call.           *)

Admits(op, st) ==
    CASE op \in {"send", "shutdown"} -> st = "kConnected"
      [] op = "forceClose"          -> st \in {"kConnected", "kDisconnecting"}
      [] OTHER                      -> TRUE

(* ~TcpClient() on an application thread, first half: under mutex_, read *)
(* connection_ and connection_.unique().  Without a connection the         *)
(* destructor completes at once.                                            *)
TcpClientDtorRead(t) ==
    IF w.inMap
    THEN /\ fop' = [fop EXCEPT ![t] = IF Refs = 1 THEN "~TcpClient:unique"
                                            ELSE "~TcpClient:shared"]
         /\ fpc' = [fpc EXCEPT ![t] = "act"]
         /\ UNCHANGED w
    ELSE /\ w' = TcpClientDtor(w, FALSE, FALSE, FALSE)
         /\ fop' = [fop EXCEPT ![t] = "~TcpClient"]
         /\ fpc' = [fpc EXCEPT ![t] = "done"]

(* A call on an application thread, first half: what it reads before it  *)
(* acts.                                                                    *)
ForeignCheck(t, op) ==
    /\ fpc[t] = "idle"
    /\ op \in ForeignOps \cap (ConnOps \cup {"~TcpClient"})
    /\ calls < MaxCalls
    /\ op \in ConnOps => ~Destroyed
    /\ op = "~TcpClient" => w.owner = "client" /\ w.cl.alive
    /\ calls' = calls + 1
    /\ IF op \in ConnOps
       THEN /\ fop' = [fop EXCEPT ![t] = op]
            /\ fpc' = [fpc EXCEPT ![t] = IF Admits(op, w.conn.state) THEN "act" ELSE "done"]
            /\ UNCHANGED w
       ELSE TcpClientDtorRead(t)
    /\ UNCHANGED <<lpc, revents, batch, bpos, peerSends, uaf>>

(* send() binds raw `this` into sendInLoop; shutdown() and forceClose()    *)
(* set kDisconnecting and queue a functor holding shared_from_this().      *)
ForeignAct(t) ==
    /\ fpc[t] = "act"
    /\ LET op == fop[t]
           x  == IF op \in {"shutdown", "forceClose"}
                 THEN [w EXCEPT !.conn.state = "kDisconnecting"] ELSE w
       IN  w' = IF op \in DtorViews
                THEN TcpClientDtor(w, TRUE, op = "~TcpClient:unique", FALSE)
                ELSE QueueInLoop(x, op, IF op = "send" THEN 1 ELSE 0)
    /\ fpc' = [fpc EXCEPT ![t] = "done"]
    /\ UNCHANGED <<lpc, revents, batch, bpos, fop, calls, peerSends, uaf>>

-----------------------------------------------------------------------------
IoLoopStep ==
    \/ Poll \/ HandleCloseEvent \/ HandleReadEvent \/ HandleWriteEvent
    \/ SwapPending \/ RunFunctor \/ EndDrain

Next ==
    \/ IoLoopStep
    \/ \E op \in Ops : UserCall(op)
    \/ RemoveConnectionInLoop
    \/ DelayExpired
    \/ PeerSend \/ PeerShutdown \/ PeerReset
    \/ \E t \in Foreign : \/ ForeignAct(t)
                         \/ \E op \in Ops : ForeignCheck(t, op)

Spec == Init /\ [][Next]_vars

(* The I/O loop thread and the base loop thread run their loops without   *)
(* end (epoll_wait returns at least every kPollTimeMs), so their steps are *)
(* weakly fair, and so is a foreign thread in the middle of a call.  A    *)
(* due timer's timerfd stays readable (level-triggered) until it is read, *)
(* so a loop that keeps reaching poll() runs the timer: strong fairness   *)
(* for DelayExpired, enabled at every poll.  The                            *)
(* peer keeps reading: a socket with write interest is reported writable  *)
(* and accepts bytes again and again.                                      *)
PollWritable == Poll /\ "OUT" \in revents'
WriteProgress == HandleWriteEvent /\ w'.conn.outBuf < w.conn.outBuf

FairSpec ==
    /\ Spec
    /\ WF_vars(IoLoopStep)
    /\ WF_vars(RemoveConnectionInLoop)
    /\ SF_vars(DelayExpired)
    /\ \A t \in Foreign : WF_vars(ForeignAct(t))
    /\ SF_vars(PollWritable)
    /\ SF_vars(WriteProgress)

-----------------------------------------------------------------------------
(* Properties.                                                             *)

(* The connection is closed once: whatever mix of peer end-of-stream,     *)
(* HUP, reset and forceClose() triggers handleClose(), the DOWN           *)
(* connectionCallback_ and closeCallback_ (TcpServer::removeConnection,   *)
(* whose removeConnectionInLoop asserts the map entry is still there) run *)
(* at most once, and connectDestroyed() adds no second DOWN.               *)
CloseOnce == w.cb.close <= 1 /\ w.cb.down <= 1

(* The lifecycle phase the application can observe: state_, and released *)
(* once the last TcpConnectionPtr is gone.                                 *)
LifecyclePhase ==
    IF Destroyed THEN "released"
    ELSE CASE w.conn.state = "kConnecting"    -> "connecting"
           [] w.conn.state = "kConnected"     -> "connected"
           [] w.conn.state = "kDisconnecting" -> "disconnecting"
           [] w.conn.state = "kDisconnected"  -> "disconnected"

Lifecycle == INSTANCE ConnectionLifecycle
                 WITH phase <- LifecyclePhase, up <- w.cb.up, down <- w.cb.down

(* The connection keeps the lifecycle of spec 4.7: state_ only moves       *)
(* forward (Connecting, Connected, Disconnecting, Disconnected), UP is     *)
(* told once by connectEstablished, DOWN once by whichever of handleClose  *)
(* and connectDestroyed reaches Disconnected, and the last reference goes  *)
(* only after that, with nothing told or changed afterwards.               *)
ImplementsLifecycle == Lifecycle!Spec

(* The write half is shut only once the output buffer is empty, so bytes  *)
(* accepted by send() before shutdown() are not cut off.                   *)
ShutdownAfterDrain == w.conn.shutWr => w.conn.outBuf = 0

(* Write interest is on exactly while bytes wait in the output buffer of  *)
(* an open connection: no busy POLLOUT loop on an empty buffer, and no     *)
(* backlog left without a handleWrite to flush it.                         *)
WriteInterestMatchesBacklog ==
    /\ IsWriting(w) => w.conn.outBuf > 0
    /\ (w.conn.outBuf > 0 /\ w.conn.state \in {"kConnected", "kDisconnecting"})
          => IsWriting(w) /\ w.chan.index = "kAdded"

(* When the last TcpConnectionPtr goes, the channel has left the poller:   *)
(* Channel::~Channel asserts !hasChannel, and epoll must not keep a        *)
(* pointer to the freed Channel.                                           *)
ChannelGoneBeforeDestroy == Destroyed => w.chan.index = "kNew"

(* A closed connection is eventually released: handleClose ->             *)
(* removeConnection -> removeConnectionInLoop -> connectDestroyed, and the *)
(* last reference is dropped.                                              *)
ClosedIsReleased == (w.conn.state = "kDisconnected") ~> Destroyed

(* After shutdown() the write half is eventually shut, once the backlog   *)
(* drains, unless the connection closes first.                             *)
ShutdownCompletes ==
    (w.conn.state = "kDisconnecting")
        ~> (w.conn.shutWr \/ w.conn.state = "kDisconnected")

(* No functor bound to raw `this` (the off-thread send, startRead,        *)
(* stopRead) runs after the connection object is destroyed.                *)
NoUseAfterFree == ~uaf

(* Destroying the owner leaves no pointer to freed memory behind: epoll    *)
(* holds no pointer to the Channel of a destroyed connection (~TcpClient   *)
(* only forceClose()s a connection_ it owns alone), and no callback bound  *)
(* to the raw owner `this` runs after its destructor: neither              *)
(* TcpClient::removeConnection ("FIXME: unsafe") nor TcpServer::           *)
(* removeConnectionInLoop.                                                  *)
OwnerDtorLeavesNoDanglingPointer == ChannelGoneBeforeDestroy /\ ~w.late

(* forceCloseWithDelay() closes the connection: once it has set           *)
(* kDisconnecting and armed its timer, the connection eventually reaches  *)
(* kDisconnected, through the timer's weak_ptr lock, forceClose() and the *)
(* queued forceCloseInLoop(), or through a close that came first.          *)
DelayedCloseCompletes ==
    (w.delayed > 0) ~> (w.conn.state = "kDisconnected")

=============================================================================
