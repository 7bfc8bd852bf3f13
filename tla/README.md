# TLA+ models of siren

siren is a single-threaded reactor networking library. Each `EventLoop` runs on one
thread: it polls epoll, dispatches the active `Channel`s, then runs the functors other
threads queued with `queueInLoop`. A `TcpServer` accepts on a base loop. It hands each
`TcpConnection` to an I/O loop taken round-robin from an `EventLoopThreadPool`, and
removes it again through both loops. A `TcpClient` owns at most one `TcpConnection` on its
own loop, and removes it on that loop alone. Timers live in a `TimerQueue` driven by a timerfd.
Bytes are kept in `Buffer`s.

This directory models those parts for TLC. `PROJECT.json` is the machine-readable index:

- components, with what is modelled and what is not;
- runs;
- mutants;
- the map from every definition to the source lines it translates;
- findings;
- hazards.

## Modules

| Module | Models | State ↔ code |
|---|---|---|
| `EventLoop` | `loop`, `doPendingFunctors`, `queueInLoop`, `wakeup`/`handleRead`, `quit` (`src/src/net/EventLoop.cpp`) | `pending` = `pendingFunctors_`, `functors` = the swapped-out local vector, `calling` = `callingPendingFunctors_`, `wakeFd` = the eventfd counter, `fpc`/`snap` = a foreign thread's progress through the unlocked `push_back` |
| `TcpConnection` | one connection: `TcpConnection.cpp`; its `Channel` and its `EPollPoller` entry; its owner, either `TcpServer` (`newConnection`/`removeConnection*`/destructor) or `TcpClient` (constructor, `connect`/`disconnect`/`stop`, `newConnection`, `removeConnection`, `~TcpClient`); the I/O loop's poll/dispatch/drain cycle | the record `w`: `conn` (`state_`, `reading_`, output-buffer length, write half shut), `chan` (`events_`, `index_`), `sock` (the kernel socket), `ioq` (I/O loop `pendingFunctors_`), `inMap` (`connections_` entry), `baseQ` (queued `removeConnectionInLoop`), `cb` (callback counts), `owner` and `closeCb` (who owns the connection and which `closeCallback_` is installed), `cl` (the client's `connect_`, `retry_`, whether it is still alive, the last `Connector` command), `srvAlive` (the server not yet destroyed), `late` (a close callback bound to the raw owner `this` ran after the owner's destructor); `lpc`/`revents`/`batch` = the I/O loop's place in `loop()`; `fpc` = foreign callers |
| `TimerQueue` | `runAfter`/`runEvery`, `addTimer`, `addTimerInLoop`/`insert`, `handleRead`/`getExpired`/`reset`, `Timer::restart`, `howMuchTimeFromNow`/`resetTimerfd` | `timers` = `timers_`, `exp`/`period` = each `Timer`'s `expiration_`/`interval_`, `inbox` = queued `addTimerInLoop` functors, `armed` = the timerfd's deadline, `now` = the clock in 500 ms ticks |
| `EventLoopThread` | a whole `TcpServer` with its pool: `TcpServer::start`/`newConnection`/`removeConnection*`/destructor, `Acceptor::listen`/`handleRead`, `EventLoopThreadPool::start`/`getNextLoop`/destructor, `EventLoopThread::startLoop`/`threadFunc`/destructor, and every loop's `doPendingFunctors` | `ppc` = the base thread's place, `lt[i]` = loop thread *i*'s place, `loopPtr` = `loop_`, `quitFlag` = each loop's `quit_`, `loops`/`next` = `loops_`/`next_`, `listening` = `listening_`, `conns` = `connections_`, `handed[c]` = connection *c*'s I/O loop, `cst[c]` = its `state_`, `pend[l]`/`batch[l]` = loop *l*'s `pendingFunctors_` and swapped-out vector, `assertFail` = an `assert` of a connection functor failed |
| `Buffer` | `Buffer.h`: indices, `retrieve*`, `append`, `prepend`, `makeSpace`, `ensureWritableBytes` | `buf.mem` = `buffer_`, `buf.r`/`buf.w` = `readerIndex_`/`writerIndex_` |
| `BufferFIFO` | the abstract byte queue `Buffer` promises | `content` = the readable bytes |
| `ConnectionLifecycle` | the abstract lifecycle a connection promises (spec 4.7) | `phase`, and the `up`/`down` notification counts |

Each handler is one action, or a pure operator on the world record that an action
applies. A handler that calls another handler calls its operator. For example,
`handleWrite` calls `shutdownInLoop` and `handleRead` calls `handleClose`. A data race is
split into separate read and write steps, so that the outcomes the build can produce are
reachable:

- `EventLoop`: `PushRead`/`PushWrite`;
- `TcpConnection`: `ForeignCheck`/`ForeignAct`, for `send`/`shutdown`/`forceClose` and for `~TcpClient` (its read of `connection_` and `unique()` under `mutex_`, then the act);
- `EventLoopThread`: `DtorRead`.

`MC_*.tla` instantiate the modules for TLC.

## Runs

Passing runs. Each property has a mutant of the mapped code that TLC catches; the
mutants are listed in `PROJECT.json`.

- **EventLoop_wakeup**: with the same unlocked push as `EventLoop_race`, these hold:
  - `NoLostWakeup`: a functor is never waiting in `pendingFunctors_` while the loop blocks in poll with no eventfd write behind it.
  - `DeferredToNextPass`: a functor queued by a running functor runs in a later pass.
- **TcpConnection_loop**: one connection owned by a `TcpServer` or by a `TcpClient` (with `retry_` set, and `connect`, `disconnect`, `stop` from callbacks); sends, shutdown, forceClose, forceCloseWithDelay and startRead from callbacks; off-thread `send`; a peer that sends, half-closes or resets. These hold:
  - `CloseOnce`
  - `ShutdownAfterDrain`
  - `WriteInterestMatchesBacklog`: write interest is on exactly while output is waiting.
  - `ChannelGoneBeforeDestroy`
  - `ImplementsLifecycle`: the connection refines `ConnectionLifecycle`, the lifecycle of spec 4.7. Under the mapping `phase <- LifecyclePhase` (released once the last `TcpConnectionPtr` is gone), `up <- cb.up`, `down <- cb.down`, `state_` only moves forward, UP and DOWN are told once each, and release comes last.
  - `ClosedIsReleased`: liveness, through the server's two-loop path and through the client's `removeConnection`.
  - `ShutdownCompletes`: liveness.
  - `DelayedCloseCompletes`: liveness. `forceCloseWithDelay` sets kDisconnecting at once and arms a timer whose lambda holds only a `weak_ptr`. The connection then reaches kDisconnected. Either the timer's `forceClose` and the queued `forceCloseInLoop` close it, or a close came first and the late timer does nothing (`DelayExpired`).
- **TimerQueue_deadlines**: with distinct deadlines, these hold:
  - `ArmedForEarliest`: the timerfd is armed for the earliest timer.
  - `TimerEventuallyFires`: every inserted timer runs.
- **EventLoopThread_pool**: a `TcpServer` on a pool of two I/O loops accepts three connections, peers close them, and the server may be destroyed at any point. These hold:
  - `StartCompletes`: `start()` returns.
  - `StartedLoopsLive`: it returns only live loops, despite spurious wake-ups (the `while (loop_ == nullptr)` wait).
  - `RoundRobin`: accepted connections are handed to the loops round-robin.
  - `ConnectionFunctorsInOrder`: no `assert` of `connectEstablished`, `removeConnectionInLoop` (`n == 1`) or `connectDestroyed` (the channel was added) fails. This holds although these functors come from two loops and from `~TcpServer`.
  - `ClosedConnectionReleased`: liveness. A connection its peer closed is erased on the base loop and destroyed on its I/O loop, unless the server is destroyed first.
- **Buffer_fifo**: `ImplementsFIFO`. `Buffer` refines `BufferFIFO` under the mapping `content <- Readable(buf)`.

Violation runs. Each is a disagreement between the code and the spec or its own comments.
See `findings` in `PROJECT.json`.

| Run | Shows |
|---|---|
| EventLoop_race | `queueInLoop`'s `std::unique_lock<std::mutex>(mutex_);` locks nothing, so a functor is lost |
| TcpConnection_stopread | `stopRead` then `forceClose`: `disableAll` re-ADDs the kDeleted fd, and a HUP closes the connection twice |
| TcpConnection_foreign | off-thread `forceClose`/`shutdown` test-then-set of `state_` races `handleClose`, and the connection is closed twice |
| TcpConnection_rawthis | off-thread `send` binds raw `this`, so `sendInLoop` runs on a destroyed connection |
| TcpConnection_ownerdtor | `OwnerDtorLeavesNoDanglingPointer`: `~TcpClient` from a functor or callback of its own connection. `unique()` is false while the functor vector or the dispatch guard holds a reference, so the connection is neither closed nor removed, and it is freed with its fd still in epoll. `~TcpServer` runs in the same cfg, but TLC stops at this shorter trace, so the server's twin (a peer FIN after the destructor running `TcpServer::removeConnection` on the freed server) is not what it reports |
| TimerQueue_collide | `NoTimerLost`: two timers with one expiration, so the second is refused by the set and never runs. The run also lets `runEvery` take 1 tick (0.5 s), whose interval the `int64_t` parameter truncates to 0, so that timer is a one-shot; TLC stops at the shorter collision first |
| EventLoopThread_dtor | `DestroyCompletes`: destroying the server right after `start()`. `loop()` resets `quit_`, and `join` hangs. With no connection the run cannot show the related hazard at `EventLoop.cpp:71` (a `connectDestroyed` queued after the loop's last swap and never run); no run checks that one |

## Bounds

- **EventLoop**: two foreign threads (model values, symmetric), 3 functors, 4 passes. This is enough for a push to overlap a swap, and for a functor-queued functor to be run one pass later.
- **TcpConnection**: one connection; one foreign thread; at most 2 user calls of at most 2 bytes with a high-water mark of 2; one peer send.
  - Both owners start from their `newConnection`. The client run fixes `retry_` at true: `disconnect` and `stop` clear `connect_`, so both outcomes of `retry_ && connect_` still happen.
  - `TcpConnection_ownerdtor` lets `~TcpServer` run on the base loop, and `~TcpClient` on the loop thread (from a callback) and on the foreign thread.
  - The passing run leaves both destructors out, because each breaks a checked invariant (see the hazards). For example, `~TcpServer` on a `kDisconnecting` connection makes `connectDestroyed` drop its backlog, which breaks `WriteInterestMatchesBacklog`.
  - Every close path (HUP, read 0, RST, forceClose, connectDestroyed) and a drain after a partial write are reachable.
  - Byte contents are abstracted to counts, because no property depends on them.
- **TimerQueue**: 3 timers; delays 0–2 ticks; intervals of 2 ticks (1 s) in the deadlines run, and of 1 or 2 ticks in the collision run; a horizon of 5 ticks (4 in the collision run).
  - A tick is 500 ms. That is the coarsest grain that still shows the sub-second truncation in `runEvery`.
  - The runs stop at the horizon, so deadlock checking is off there.
- **EventLoopThread**: 2 I/O loops and 3 connections, so `next_` wraps and one loop holds two connections. The destructor run uses 1 loop and no connection, the smallest setting for the `quit_` reset.
- **Buffer**: bytes {1,2}; an initial size of 2; strings of up to 2 bytes; at most 4 readable bytes.
  - `kCheapPrepend` keeps its real value 8, so the compaction/growth boundary of `makeSpace` is the code's.

## Fairness

- The loop thread never blocks for ever: `epoll_wait` returns after `kPollTimeMs`. This gives weak fairness for the I/O loop's steps, the base loop's `removeConnectionInLoop`, timer dispatch and functor draining.
- Each thread is scheduled, so foreign callers and pool threads get weak fairness. In `EventLoopThread` the base thread's own steps are weakly fair. Accepting, a peer's close and destroying the server are not, because clients and the application decide whether they happen.
- The socket's writability and write progress get strong fairness (`PollWritable`, `WriteProgress`). This is the assumption that a peer which keeps the connection open eventually reads; without it nothing is ever drained.
- The clock advances (`Tick`).
- A `forceCloseWithDelay` timer gets strong fairness (`DelayExpired`). Once due, its timerfd stays readable until read, so it is reported at every poll. `DelayExpired` is enabled only while the loop is at `poll()`, and the loop keeps coming back there.

## Not modelled

- Connector: `Connector.h`/`Connector.cpp` and `TcpClient.h` are not in the repository, so only the client's commands to it (start, stop, restart) are recorded, and `retry_` (set by `enableRetry()` in the missing header) is a constant.
- The data race on `connect_`: the modelled application calls `disconnect`/`stop` on the loop thread.
- `Acceptor::handleRead`'s failure path (the `EMFILE` idle-fd dance): it only closes and reopens descriptors.
- `assertInLoopThread`: `abortNotInLoopThread` only logs, although the spec calls it fatal; every modelled call happens on the right thread.
- The Socket/SocketsOps wrappers, InetAddress/Endian/TimerId: they are system-call wrappers or have no state.
- PollPoller: a stub.
- `TimerQueue::cancel`: empty.
- `Buffer::readFd`: declared but not defined in `src`.
- `Buffer::swap` has no caller in `src`. `retrieveAllAsString` is `retrieveAsString(readableBytes())`.
- `EPollPoller`'s ready-event array growth: no model polls more than one connection channel, so the array never fills.
- `forceCloseWithDelay` off the loop thread: its test-then-set of `state_` is the race `TcpConnection_foreign` already shows for `forceClose`.
- `getLoopForHash` and `getAllLoops`: pure reads.
- Several connections at once.
- Later sittings: several connections sharing one I/O loop.
