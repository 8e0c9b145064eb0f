# TLA+ models of DpiBypass

DpiBypass gets TLS and QUIC traffic past deep packet inspection.  On Android a
`VpnService` routes all traffic through tun2socks into a local SOCKS proxy, byedpi
(`ciadpi`), a C program linked as a native library.  On Windows a Tk application
starts `ciadpi.exe`, `winws.exe` (zapret) and a Telegram proxy, and points the
system proxy at them.

This directory holds TLA+ modules of the parts whose correctness depends on the
order of events, TLC configurations that check them on small instances, and proofs
that TLAPS checks for all values of the constants.

    tlc  -workers 2 -config MCVpnService_races.cfg MCVpnService
    tlapm VpnService_proofs.tla

`PROJECT.json` maps every definition to the lines it models, and lists the runs,
the mutants that show that each property can fail, the hazards and the theorems.

In the paths below, `K/` is
`src/app/src/main/java/io/github/dovecoteescapee/byedpi/`, `N/` is
`src/app/src/main/cpp/` and `W/` is `src/windows/app/`.

## 1. The system

| Component | State it keeps | Operations | Hard behaviour |
|---|---|---|---|
| VPN service: `K/services/ByeDpiVpnService.kt` | `status`, `proxyJob`, `tunFd`, `stopping`, a mutex | `start`, `stop`, `cleanupAfterFailure`, preset probing, the loop jobs, the Telegram coroutine | coroutines interleave at every `await`; joins under a mutex; time-outs |
| Proxy wrapper and JNI glue: `K/core/ByeDpiProxy.kt`, `N/native-lib.c` | the descriptor `fd`, global parameters, `NOT_EXIT` | `openSocket`, `runLoop`, `stopProxy`, `reset` | the loop runs in another thread; one global flag for every loop |
| Proxy-only service: `K/services/ByeDpiProxyService.kt` | a static `status`, `proxyJob`, the wrapper, a mutex, its scope | intents, `start`, `stop`, the loop job, `updateStatus`, `onDestroy` | the object dies and is born again while its loop and its status live on |
| Activity, tile, status: `K/activities/MainActivity.kt`, `K/services/QuickTileService.kt`, `K/services/ByeDpiStatus.kt` | `appStatus`, the button, the tile, two receivers | clicks, broadcasts | a broadcast shows the status of the past |
| Telegram wrapper: `K/core/TgWsProxy.kt` | a start-up thread and its latch | start, stop | late answers after a time-out |
| Event pool: `N/byedpi/conev.c` | `links`, `items`, `count`, `iters` | `add_event`, `del_event`, `next_event`, `destroy_pool` | a handler deletes items that later reports of the same batch name |
| Connections: `N/byedpi/proxy.c`, `extend.c` | type, pair, buffer and offset of each item | SOCKS negotiation, `on_connect`, `on_desync`, `on_tunnel`, `reconnect`, UDP association | partial sends, retries with replay, both directions stalling |
| Desynchronisation: `N/byedpi/desync.c`, `packets.c` | none beside the buffer | `desync`, packet rewriting | positions against counts |
| Strategy cache: `N/byedpi/mpool.c`, `proxy.c`, `extend.c` | a tree of addresses, each with a group and a time | `mode_add_get`, `connect_hook`, `on_torst`, `on_fin`, `on_response`, `on_tunnel_check` | one entry for many connections; it may be wrong or old |
| Command line: `N/byedpi/main.c` | `params` | `parse_args` | data |
| Windows engine: `W/core/engine.py`, `winws.py`, `byedpi.py`, `system_proxy.py` | processes, `_launcher`, the registry value | start, stop, per component | one component of several fails; processes end by themselves |
| Windows window and dialogs: `W/main.py`, `W/ui`, `W/core/zapret_benchmark.py` | switches, dialogs, cancel flags | the handlers, benchmark and test threads, quitting | threads share `winws` without a lock |

They interact as follows.  The service calls the wrapper, which calls the JNI glue,
which runs `event_loop()` in an IO thread; the loop comes back to the service as the
end of a coroutine.  `event_loop()` calls the handlers of `proxy.c` and `extend.c`
through the pool; a handler adds and deletes items of the pool it was called from.
On Windows the handlers of the window and the threads of the dialogs all call
`WinWsService`; only the window calls the rest of the engine.

What makes each part correct:

* service: a connection that the user sees is served by a loop, a tunnel and a
  listener; a stop leaves none of them; no call waits forever;
* pool: handlers run for open descriptors and fresh reports only; items in use are
  where the index says; a deletion follows pairs of its own connection only;
* connection: each server gets the request in order and once, the client the answer
  of one server; data that waits is watched for;
* Windows: the system proxy points to a port that somebody was started on, also
  after failures and after quitting; what is displayed is what runs.

## 2. Modules

### VpnService

A process for each coroutine: the START intents, the STOP intents and `onRevoke`
calls, the loop jobs and the Telegram jobs.  `pc[c]` is the suspension point of `c`:
in the mutex (`startLock`, `stopLock`, ...), in a `delay`, in a `join`, in the native
loop, or behind an `unlock()` with a status still to show (`connected`, `failing`,
`cleaned`, `stopped`).  An action is what one coroutine does up to the next call that
suspends it or resumes another.  The mutex is Kotlin's: `holder` and the FIFO `waiters`.

The dispatcher is `Main.immediate`, which resumes in place: the waiter that an
`unlock()` resumes runs before the one that unlocked goes on, so a queued START may
connect before the STOP in front of it says Disconnected (lines 178-193).  Only one
level nests: what a coroutine resumes that was itself resumed in place is queued behind
it.  `turn` is the sequence of coroutines the main thread has to run before it takes
another message, `outer` the one of them that was not resumed in place; `Release`,
`Acquire`, `Join`, `Stay`, `Suspend` and `Launch` say what each call does to them.

The wrapper's descriptor is `fd`, the kernel's view of each listening socket `sock`,
the socket that a loop polls `runs`, and `notExit` is the global of `proxy.c`.  A
`stop()` or clean-up may take the descriptor from a job that has not reached `runLoop()`;
only the coroutine that waits in `delay(400)` gives it time (`LoopsScheduled`).  A loop
job names the socket that was opened for it, because each `openSocket` is followed by
one `launch`.  Constants choose the scenario: `Cellular` (LTE probes presets),
`Attempts`, `Timely` (the IO dispatcher starts a job within the 400 ms delay, and a
loop that was told to end does so within 2500 ms), `InitErrors`, `AcceptErrors`.

Left out: the destruction of the service instance (`onDestroy` cancels its coroutines;
`ProxyService` has it for the smaller service), foreground notifications, the
construction of the VPN interface.  The outcome of a probe, and of starting tun2socks,
is a choice.

### ProxyService, AndroidApp

`ProxyService` is the proxy-only service with what it stands on: the inbox of the main
thread, the service object (`alive`) that `stopSelf()` condemns and a later intent
makes anew, the static status that outlives it, the mutex, the wrapper's descriptor,
the socket and the loop of each job, and the broadcasts under way to each receiver.
`AndroidApp` composes it with the activity and the tile, whose clicks send the intents
and whose displays the broadcasts change.  The dispatcher is `Main.immediate`: a
coroutine that is handed the mutex runs inside the `unlock()` of another, so nothing
of the main thread comes between (`MainFree`).  Here that `unlock()` is always one of a
`stop()` that the main thread resumed from its join: its `updateStatus()` and
`stopSelf()` are a step of their own (`Stopped`).  A `start()`, and a `stop()` with
nothing to join, run in `launch()` or in place inside the `unlock()` of another; what
they resume themselves is queued behind them, so that their `updateStatus()` (lines 82,
109) belongs to the step that unlocks.  That `startProxy()` finds a job still referenced
takes two STARTs waiting behind one STOP, one more call than `app_proxy` has; with four
calls (317,230 states) everything the run checks holds as well.

`faults` is chosen at the start among the sets in `Profiles`: `slow` (the IO dispatcher
may lag behind the user), `hasty` (the user clicks before the last call is done),
`bind` (the socket cannot be opened), `loop` (the loop ends by itself).

### EventPool, EventLoop

`EventPool` is what the pool promises: a handler is called only for a descriptor that
is open, that the kernel reported, and that was not opened or closed since.
`EventLoop` is the epoll build of `conev.c` with its arrays and stamps, and every
handler of `event_loop()` reduced to what it does to the pool: which items it adds,
deletes, pairs and retypes.  A handler lasts from `NextEvent` to the action that
clears `cur`; `Delete` is one level of the recursion of `del_event()`.  `IterMax`
stands for `UINT_MAX`, small enough for the counter to wrap.  `EventLoop` implements
`EventPool` with `open <- live, current <- cur`.

Left out: the `poll()` build, and a failing `getsockname()` in `udp_associate()`.

### Relay, Connection

`Relay` is what a connection promises to its two ends: a server hears what the client
asks from the first byte on, the client gets the answer of one server from the first
byte on, and another server is tried only before anything of an answer was passed on.
`Connection` implements it (`Abstract`, `Refinement`) with `asked` and `said` counting
what the peers have written, `heard` and `answered` their sinks, and `open` for
`status = "open"`.  Where the server's socket is slow or a server may speak first the code
keeps no such promise (section 5): `Shown` then hides the connection behind the initial
state of a relay, so that nothing is claimed of it.  That a text is numbered from 1 and
that the bytes kept in a buffer, sent again by `reconnect()` or left over by a full
socket never show is what `Connection` adds.

One TCP connection from `on_connect()` on, with its data: what is in each buffer, each
offset, what each peer has got.  A byte is `<<0, k>>` for the k-th of the request and
`<<server, k>>` for an answer, so that order, loss, repetition and mixture are all
visible.  An offset may get behind the data of a buffer (section 5); carried into the
tunnel it gives `send()` a negative length, and `TunnelStray` is what comes of that:
nothing, an error, or bytes from behind the buffer, of which `Stray` stands for a run.
One handler is an action; a batch of reports is fetched for both ends at
once, so that the second handler may meet a report that the first one has made stale,
as in the code.  `profile`, chosen at the start, says which ends may take only a part
of what they are given (`client`, `remote`) and whether a server may speak first
(`early`).

Left out: fake and out-of-band packets (the server is meant not to see them), the
rewriting of TLS records and HTTP headers (`Desync`), which group a retry takes and
what is remembered of it (`StrategyCache`), time-outs.

### Desync

`desync()` with every position arithmetic: the loop of `--tlsrec`, which shifts the
bytes of the buffer to make room for record headers, the loop of the parts, which sends
from `lp` to a position or skips or cancels the part, the rest, and
`on_desync_again()`, which calls it a second time for what the socket did not take.  A
round of a loop is an action.  A cell of the buffer says what it holds: the k-th byte of
the request, a byte of a header, or what an earlier use has left there.  `wire` is the
places of the buffer that the server gets; `cut` the sends that stopped early.  The
request, its type and the options are chosen at the start.

Left out: the bytes of fake and out-of-band packets and their time-to-live, the parsers
of `packets.c` (what they find is a constant), `mod_http()`.

### StrategyCache

The groups of options of a command line with `--auto`, the group each connection
tries, and the cache entry of one address: `saved` is its group (0 without an entry),
`fresh` whether it is younger than `cache_ttl`.  What the censor does to a request
(`censor`), which groups get past it (`works`) and which groups are made to detect it
(`hears`) are chosen at the start, and so is an entry from the past.  Each way a retry
may end is an action: an answer, the next group, and the three ways of running out of
groups.

Left out: other addresses (a map has independent entries; but see section 5 on IPv6),
the tree itself (`kavl.h`, third-party).

### WindowsEngine

The Tk thread `"ui"`, the benchmark threads `Tunes` and the live-test threads `Tests`.
`WinWsService.start()` and `stop()` are the steps `StopCheck`, `Terminate`, `Forget`,
`Kill`, `Launch`, `Wait` of the calling thread: they share `_launcher` without a lock.
`cont[t]` says what thread `t` does afterwards.  Everything else that a handler does
is one step, for it runs on the Tk thread and touches nothing that the other threads
use.  Modal dialogs lock the window but not the menu of the tray (`Unlocked` against
`Idle`).  `ProcessEnds` is a process that ends by itself.

Assumed or left out: the registry value is off when the program starts; writing it
does not fail; `terminate()` and `wait()` are one step; a handler that shows a message
box is over when it does (Tk would run other handlers meanwhile); after a failed
quit the menu of the tray does nothing; a preset exists.  `main_lite.py`, settings,
scheduled tasks and downloads are not modelled.

## 3. Runs

| Run | Instance | Distinct states | Properties |
|---|---|---|---|
| `vpn_races` | LTE, 2 START of 2 presets and the fallback each, 1 STOP | 114.5 k | `TypeOK`, `ConnectedIsServed`, `HaltedIsDown`, `KeepsItsSocket`, `CallsReturn`, `MutexIsReleased` |
| `vpn_faults` | 1 START, 2 STOP, slow dispatcher, `accept4` and initialisation errors | 29.9 k | `TeardownIsExclusive`, `TeardownIsDown`, `ListenerIsOwned`, `StopIsComplete` |
| `vpn_probe` | LTE, 1 START, 1 STOP | violated | `ConnectedUntilAsked` |
| `vpn_telegram` | no probing | violated | `TgProxyOffWhenStopped` |
| `app_proxy` | 3 clicks on button or tile, without faults and with three sets of them | 53.9 k | `TypeOK`, `NoCrash`, `ListenerIsOwned`, `StatusIsTrue`, `InterfaceIsTrue`, `CallsReturn` |
| `pool_small` | 4 items, stamps modulo 3 | 1.42 M | `TypeOK`, `LinksConsistent`, `PairsFit`, `DeletesOwnOnly`, `ClosedAtExit`, `Refinement` |
| `conn_calm` | sockets take everything, 3 servers, 2 writes | 12.0 k | `AskedInFull`, `Relayed` |
| `conn_sockets` | six profiles of slow sockets and early servers, 2 servers, a request of 4 bytes, a buffer of 3 | 1.51 M | `TypeOK`, `RequestIntact`, `RequestOrdered`, `ResponseIntact`, `PendingIsWatched`, `NoAssertion`, `AssertNoLeftover`, `Refinement` |
| `conn_segments` | a request in three pieces | violated | `AskedInFull` |
| `desync_parts` | two options of any kind, 13 positions, 6 types and sizes of request, two calls | 4.65 M | `RecordsRejoin`, `DeliveredOnce` |
| `cache_shared` | 2 clients of one address, 3 groups, two layouts of `--auto` | 39.9 k | `GetsThrough` |
| `win_app` | one benchmark of one test, one live test, one preset | 481 k | `TypeOK`, `SysProxyServed`, `QuitLeavesNetwork`, `ShownIsActual`, `CancelledEnds` |

**Bounds.**  The coroutines of the VPN service interact in pairs (one that waits, one
that holds the mutex), and the races need one START with one STOP, or two STARTs;
`vpn_races` has both, with a queue of three, among them the START that connects by its
fallback inside the `unlock()` of the STOP before it.  Three clicks are a start, a stop
and a start again while something of the first is still under way.  Four items of the
pool hold the listening socket and the largest group, a UDP ring of three, or a couple
and another client; a batch of reports then names items of two connections.  `IterMax =
2` makes the stamps wrap within three batches, so equal and larger stamps both occur.
Three or four bytes of request, split after the first and read in one to three pieces,
give each position of a partial send on either side of the split; with a buffer shorter
than the request it is full in the middle of it, and with `BfSize = 3` an offset gets
one and more bytes behind what the tunnel takes over (with 2 it cannot).  The three
servers of `conn_calm` are two retries, the second from a state that the first one left.
The positions of `desync_parts` lie before, at and behind each limit of the request, its
host name and its record, two options give every pair of their kinds in either order,
and the second call starts from each place at which the first can stop. Three groups are
one that fails, one that is retried to and one that is left, and two clients are enough
for one to act on what the other has just saved or deleted.  One benchmark, one test and
the window are three threads inside `winws` at a time; a second dialog is covered by the
proofs only.

**Deadlock** is checked in every run but `vpn_faults`, where the service really
hangs (section 5).  Runs that end do so in an explicit stuttering step.

**Fairness.**  `VpnService`: weak fairness for each coroutine, for a dispatcher runs
what is ready, delays elapse and joins end; intents, revocations and `accept4` errors
are not fair.  `AndroidApp`: the dispatchers run what is ready and the system delivers
intents and broadcasts; the user need not do anything.  `Connection`: the loop polls
and finishes the handler it is in; peers are not fair, and a slow socket need not
drain, which is why `Relayed` is checked where the sockets take everything.
`StrategyCache`: a client that was not served tries again, each group has its turn to
answer, and entries expire, except in the command lines in which `on_torst` deletes a
bad entry by itself (`Forgets`).  `WindowsEngine`: each thread goes on, a wait for
`winws` times out; nobody has to press a button.

**What the passing runs show.**

* `ConnectedIsServed`: "Connected" is displayed only with a tunnel, a live loop and its
  listener, across races of starts and stops and across abandoned presets.
* `HaltedIsDown`: whenever the mutex is free the service is up as a whole or down as a
  whole, and down when Halted is displayed, unless a late status has cleared the
  reference to a job in use (`JobLost`, section 5).
* `KeepsItsSocket`: no reset, retry or other preset's `stop()` takes the socket from a job
  that has still to reach `runLoop()`; a teardown that waits for this job does (section 5).
* `ListenerIsOwned`: no listening socket accepts connections that the wrapper cannot
  stop; it holds even with late jobs and errors.
* `TeardownIsExclusive`, `TeardownIsDown`, `StopIsComplete`: a teardown is never
  overtaken, and what it took down stays down until it returns.
* `StatusIsTrue`, `InterfaceIsTrue`: when nothing is under way the static status says
  whether a socket listens, and the activity and the tile say what the status says,
  without faults, although the service object and the broadcasts come and go.
* `CallsReturn`, `MutexIsReleased`, `Relayed`, `CancelledEnds`: liveness.
* `Refinement` of `pool_small`: no stale report reaches a handler, although stamps wrap.
* `Refinement` of `conn_sockets`: each handler passes on the next part of one of the two
  texts, closes, starts again with another server before any answer, or shows nothing.
* `PairsFit`, `DeletesOwnOnly`: the shape each handler relies on without testing it.
* `RequestIntact`, `AskedInFull`, `ResponseIntact`: the replay of a request and the
  tunnel lose, repeat and reorder nothing, where section 5 makes no exception.
* `DeliveredOnce`, `RecordsRejoin`: whatever the options, the server gets each byte of
  the request once and in order, and the records that `--tlsrec` makes join to the
  record the client wrote.
* `GetsThrough`: however the cache was filled, a client that tries again gets through
  in the end if some group of options works and the others are heard to fail.
* `SysProxyServed`: the system setting is on only while the program holds a `ciadpi` that
  it has started, which may have ended by itself meanwhile; `QuitLeavesNetwork`: after
  quitting, unless `engine.stop()` raised, neither is left, also when `ciadpi` had ended
  by itself.
* `ShownIsActual`: every handler that changes the engine refreshes what is shown,
  which decides what the main button does.

## 4. Proofs

The eight `*_proofs` modules are checked by tlapm down to the last leaf; they use the
ASSUMEs of the modules (disjoint sets of processes, positive bounds) and nothing else.

* **VpnService**: `IInv` is `TypeOK` with `TeardownIsExclusive`, `ListenerIsOwned`,
  `TeardownIsDown` and `Selected` (the preset under test, and the selected one, have the
  descriptor).  These need each other: that a teardown's effect lasts relies on its
  exclusion, and exclusion on `stopping` being up exactly while a teardown waits.
  Results: `TypeCorrect`, `TeardownExclusion`, `ListenerOwnership`, `TeardownEffect`,
  and the action property `StopCompleteness`, for any number of intents, jobs and
  presets, with every fault enabled.
  `Accounted` adds that the mutex and its queue hold exactly the coroutines inside a
  `withLock`, each at one place (`MutexIsAccounted`), and `OnceInTurn` the same of the
  main thread: each coroutine of a turn is in it once and can go on when its place comes,
  and none is left between two suspensions when the turn is over (`MainIsAccounted`);
  both with every fault as well.
  With `Prompt` (the dispatcher keeps up, no native call fails) two more parts are
  inductive as long as the reference to a job in use is not lost.  `Turns`: each loop
  that has not left belongs to the selected preset, to the one that a `start()` tests or
  has just given up, or to the teardown that waits for it; it is in use until its socket
  is shut by the call that then waits for it; `NOT_EXIT` is up while it runs and down once
  it was told to end.  `Displayed` ties the two statuses to the tunnel: what is selected
  without being shown is about to be shown or cleaned up, and what is shown without being
  there about to be taken back.  They give, under `[]~JobLost`, `ConnectionIsServed` and
  `SocketsAreKept`, and `HaltedMeansDown`, whose statement has that premise itself.
  Without the premise they are false of the code (section 5), and TLC finds two loops at
  once with three STARTs; an assumption about the number of calls would hide it.
  From `Turns` also follow that no two event loops run at once (`LoopsTakeTurns`), which
  is why the one global `NOT_EXIT` does no harm then, and, with `Accounted` and
  `OnceInTurn`, that there is no circle of waits (`NobodyIsStuck`): `Blocked` lists what
  each place waits for, and unless all is at rest some coroutine is not blocked.  It is
  the part of `MutexIsReleased` that needs no fairness.  TLC confirms that a coroutine is
  `Blocked` exactly when it has no step in the instance of `vpn_races`, and that the
  statement fails in that of `vpn_faults`, where `accept4` errors make a job join itself.
  `ConnectionLasts` states `ConnectedUntilAsked` where presets are not probed: there no
  loop ends but for a teardown (`Unprobed`), which is what `vpn_probe` shows to fail on
  LTE.
* **EventLoop**: `TypeOK` alone is not inductive (`del_event()` could make `count`
  negative); it needs `LinksConsistent`, that `links` is a permutation whose first
  `count` places are the items in use, and `Fresh`, that an item touched in this batch
  carries the current stamp.  `PairsFit` says nothing while `del_event()` recurses:
  `Shapes` adds which items a deletion under way still takes (`Doomed`: the item alone,
  a pair, or what is left of a ring) and that the others fit without them.  Results:
  `TypeCorrect`, `LinksStayConsistent`, `ExitClosesAll`, `PairsAlwaysFit`,
  `DeletionStaysInside`, and `PoolImplementsAbstract`, the refinement of `EventPool`
  for any size of pool and any modulus of the counter.
* **WindowsEngine**: `TypeOK` needs that a thread about to launch has a preset
  (`Control`) and that a benchmark in a test has one left to count (`Counting`);
  `QuitLeavesNetwork` needs that the Tk thread does nothing once the main loop has
  ended (`Settled`).  `ShownIsActual` needs what was displayed before winws was called
  (`Displayed`): a handler that fails in `start()` without a refresh is right only if
  the status then counted no winws and `stop()` has left none.  Results: `TypeCorrect`,
  `SystemProxyIsServed`, `QuitCleansNetwork`, `StatusIsActual`, for any number of
  presets, dialogs and threads.
* **Connection**: four layers.  `Basic` is `TypeOK` with `Counts` (no end gives more
  than was written to it, each new server takes a group of its own) and `Emptied` (a
  buffer that was emptied has its offset reset), which makes the assertion of
  `on_tunnel()` hold (`NothingLeftOver`).  `InOrder` relates what a server has got, what
  the buffer holds from the offset on, and what the client has still to write:
  `RequestStaysOrdered` for every profile, of slow sockets too.  It speaks of the
  request's own bytes: an offset behind the data may put `Stray` bytes between or behind
  them, which leaves their order as it is (`TunnelStrayOrder`).  `Inside` says that the
  remote end's offset never gets there, so that answers have no stray bytes.
  `Controlled` says which types the two ends have together, what is watched and
  reported, and that a server which does not speak first has said nothing before the
  request; it gives `PendingStaysWatched` and `AssertionsHold`.  On top of it,
  `Relaying` numbers the bytes of the answer from the server through the buffer to the
  client (`AnswerStaysIntact`), and `Requesting` those of the request, with the offset
  that fits the next piece (`RequestStaysIntact`, `AnswersAreToAll`).  The last two
  assume `Writes <= 2`: run `conn_segments` shows why.
* **Relay**: `ConnectionIsRelay`, the refinement, again for `Writes <= 2`.  The layers above
  are the invariant (`RelayInv`).  `HandlerMoves` sums up a handler: it appends to what at
  most one peer has got (`Moves`), whichever sends it is made of.  `HeardText` and
  `AnsweredText` turn the numbering into the text of a relay; they hold before and after
  the step, so that what was appended is the next part of the text.  What a handler
  passes on with the end of the connection is not covered by the invariant, which speaks
  of open connections, and has a lemma of its own (`LastWords`).
* **Desync**: `IInv` is `TypeOK` with `Room` (each round of `--tlsrec` has five bytes
  left, and `lp` lies inside the bytes in use) and `InOrder` (what was sent is a prefix
  of the buffer).  `RecordsRejoin` needs `AtRecord`: `part_tls()` is called at the start of
  a record, the last one, whose end is the end of the bytes in use.  A round divides that
  record in two and leaves the others as they are; the bytes of the old content are
  found again in either half (`DivisionCells`, `DivisionJoins`), and the second call
  starts from the unchanged request.  Results: `TypeCorrect`, `RoomIsKept`,
  `RequestDeliveredOnce`, `RecordsStayJoined`, for any request, any list of options and
  any positions.
* **StrategyCache**: `TypeCorrect`; `CacheIsEarned`, that a group which enters the cache
  got the true answer; `RetriesEnd`, that a connection asked again goes to a later group.
* **AndroidApp**: without faults everything agrees in every state: `IInv` is `TypeOK` with
  `faults = {} => Calm`, where `Calm` relates the status, the job, the descriptor, the
  socket, the mutex, the object and the order of the intents and broadcasts under way.
  Results: `TypesCorrect`, `CalmInvariant`, `NeverCrashes`, `NoOrphanLoop`,
  `StatusTellsTruth`, and `NoStartWaits`, which shows that a step the model leaves out
  (the cancellation of a `start()` that waits for the mutex) cannot happen, for any
  number of clicks.  `Shown` adds that a receiver with no broadcast to come either shows
  the status or waits for a call under way that will end in one, which gives
  `InterfaceTellsTruth`; with faults `InterfaceIsTrue` stays with TLC.

Only model-checked: the liveness properties (fairness and ENABLED are out of the
prover's reach), and `InterfaceIsTrue` with faults: the model is complete there only
up to five calls (the cancellation of a waiting `start()` that it leaves out may come
with more), so that a theorem for every number of them would say nothing of the code.
Facts about sequences of any length that need induction over data are not attempted.

## 5. Known defects

Three disagreements between the code and what the repository says have a run of
their own.

* `vpn_probe`: an abandoned preset's loop ends with code 0, and its handler
  (`ByeDpiVpnService.kt:262`) queues a `stop()` behind the `start()` that abandoned it.
  The next preset connects and is torn down at once.
* `vpn_telegram`: the Telegram coroutine (line 115) may get the mutex only after a
  whole `stop()`, finds `stopping` reset and starts the proxy.
* `conn_segments`: `desync()` returns a position, `extend.c:356` adds it to the offset:
  the third piece of a request is skipped.

Others were met while modelling; the runs leave out what triggers them, or check a
weaker property:

* VPN service.  When the selected loop ends by itself with code 0 (`accept4` fails), its
  handler joins its own job while it holds the mutex: every later call hangs.  After an
  initialisation error the service reports Failed and then Connected with a dead
  loop, and may keep the tunnel.  A job that the dispatcher starts too late
  throws in a coroutine nobody supervises, and `NOT_EXIT`, one global, lets an old loop
  end a new one.  A second START during the first cleans up its connection.
* VPN service, the order behind the mutex.  `stop()` and the clean-up show their status
  after the lock (lines 126, 191), but their `unlock()` has already run the START that
  waited.  If that START connects without a suspension, by the fallback, the late status
  shows Halted and clears `proxyJob` while tunnel and listener are up (`JobLost`, which
  `HaltedIsDown` excepts).  The next STOP then resets the listener without waiting for
  the job: the job throws in `runLoop()` if it has not got there, or else may live on, and
  with one more START two loops share `NOT_EXIT`.
* VPN service, the fallback.  `openFallbackPreset()` has no `delay` (lines 346-369): a STOP
  or a clean-up that waits for the mutex, or the clean-up after a `startTun2Socks()` that
  throws, takes the descriptor before the launched job has reached `runLoop()`, which
  throws there and ends the application.  `KeepsItsSocket` states what holds: only the
  teardown that waits for the job does so.
* Proxy-only service (the faults that `app_proxy` gives their own profiles).  A STOP
  handled before the launched job has opened its socket makes `proxy.stopProxy()` throw an
  exception nobody catches (`ByeDpiProxyService.kt:148`); so does a STOP under way when
  the socket cannot be bound.  A START that comes between the job's own report, Halted,
  and the end of `stop()` is lost: the tail of `stop()` reports Disconnected and
  `stopSelf()` destroys the object, while the new loop runs with nobody to stop it.  A
  START sent while a STOP is not delivered reaches an object that `stopSelf()` has
  condemned, with the same result, and a later STOP crashes.  A loop that ends by itself
  leaves a service in the foreground that the interface shows as halted.  The broadcasts
  PROBE_PROGRESS and TG_WS_READY carry no SENDER, and `MainActivity.kt:124` drops them.
* Strategy cache.  `on_fin` that runs out of groups keeps the bad entry until it expires;
  `on_torst` stops without deleting at a group that detects nothing (`--auto n`, or the
  extra group with filters, `utils.c:405`); `on_response` that runs out of groups passes
  the false answer on and saves the last group.  The key of an IPv6 address, 22 bytes
  from the start of the structure, omits its last bytes, so that servers of one /112 share
  an entry.
* Desynchronisation.  With `--tlsrec`, `on_desync_again` compares what `desync()` returns
  with the size before the headers (`extend.c:357`): a stop within the last bytes counts
  as complete and the rest is lost.  A `part_tls()` that returns the size, the record
  being shorter than the position, counts as five added bytes (`desync.c:476`), and five
  stale bytes are sent.  Negative positions of a later round of `--tlsrec` are shifted by
  each earlier one; positions of parts relative to the host name ignore headers added
  before it.  `send_oob` counts one byte too few when it is cut short, and that byte is
  sent twice (`desync.c:379`).
* Event pool.  `udp_associate()` writes through a null pointer when one place is free
  (`proxy.c:485`, `AssociateFull`).  The assertion of `conev.c:78` fails after the
  counter wraps.
* Connection.  The accepted part of the last send is ignored when it is short
  (`desync.c:566`).  A second piece of the request while the remote end waits to be
  writable trips `assert(!out)` (`extend.c:279`); a server that speaks first while the
  client's socket is full trips `extend.c:344`.  A remote end reported readable as a
  tunnel may be handled as `EV_DESYNC`: later bytes overtake the answer.  An offset that
  got behind the data on the client's end (`extend.c:356`) is taken over by the tunnel
  when the remote end has its rest sent first: the length in `proxy.c:588` is negative,
  `send()` is asked for the memory behind the buffer, and when one byte is missing its
  error, -1, passes for a complete send.  When both directions stall in one batch the
  interest in one of them is lost (`proxy.c:642`). After a retry the client keeps POLLIN
  while it is ignored.  Release builds define NDEBUG and go on where the assertions
  would stop.
* Windows.  `stop()` of `winws` tests `_launcher` and uses it, and a thread of a dialog
  may clear it in between: the exception leaves `engine.stop()` half done, or leaves a
  window that can no longer be quit.  A cancelled benchmark stops `winws` although the
  user has started it again, or launches it after the program has stopped
  everything.  After a benchmark `winws` is stopped and the display says it runs.

## 6. Plan and limits

Done: the modules above, in this order: the VPN service, the event pool, the connection,
the Windows program, the proxy-only service with its interface, the cache, the
arithmetic of `desync()`, and the proofs.  Next, in this order:

1. The relay of datagrams (`on_udp_tunnel`) with its two addresses, on top of
   `EventLoop`'s ring of three.
2. A Windows instance with two dialogs, when the state space allows it.

**Not modelled.**

* `hev-socks5-tunnel` with `lwip` and `yaml`, by far the largest part of the repository by
  lines, is third-party code that `ByeDpiVpnService` starts and stops by two calls; so is
  `kavl.h`.  A model of them would not say anything about this program.
* `libtgwsproxy.so` is a binary.  What its `StartProxy` and `StopProxy` do to each other
  decides whether the late answers of `TgWsProxy.kt` matter, so the wrapper's latch and
  thread are left out; `VpnService` has the one bit whether it runs.
* `parse_args`, the tables of presets, settings and JSON files, the parsers of `packets.c`,
  `mod_http()`, installers and widgets: data, or plain input and output, without an
  order of events.
* The `poll()` build of the event loop, which neither program builds.
