----------------------------- MODULE VpnService -----------------------------
(***************************************************************************)
(* The life cycle of the Android VPN service (ByeDpiVpnService.kt), of the  *)
(* Kotlin wrapper around the native proxy (ByeDpiProxy.kt) and of the JNI   *)
(* glue (native-lib.c) that share one listening socket and one global       *)
(* NOT_EXIT flag.                                                          *)
(*                                                                         *)
(* Every coroutine of the service is a process: start() and stop() run on   *)
(* Main.immediate, and each action is what one of them does up to the next  *)
(* call that suspends it (a mutex, a delay, a join) or resumes another: the *)
(* one that waits for the mutex runs inside the unlock() that resumes it.   *)
(* The body of a loop job runs on Dispatchers.IO around the native event    *)
(* loop and is posted to Main when the loop ends.                          *)
(***************************************************************************)
EXTENDS Naturals, Sequences, FiniteSets

CONSTANTS
    StartCalls,   \* the START_ACTION intents the service receives
    StopCalls,    \* the STOP_ACTION intents and onRevoke callbacks it receives
    Loops,        \* loop jobs; each is launched right after one openSocket, so
                  \* a loop job also names the listening socket opened for it
    TgJobs,       \* the coroutines that start the Telegram proxy
    Null,         \* null reference, closed descriptor (-1), free mutex
    Attempts,     \* presets tried by one start() before the fallback
    Cellular,     \* on LTE every preset is probed; otherwise the first is taken
    Timely,       \* Dispatchers.IO keeps up with the delays of the code: a loop
                  \* job reaches runLoop() within delay(400), and a preset's
                  \* job leaves its loop within the 2500 ms of a join
    InitErrors,   \* event_loop may fail to initialise (result < 0)
    AcceptErrors  \* accept4 may fail and end the event loop (result 0)

Coroutines == StartCalls \cup StopCalls \cup Loops \cup TgJobs

ASSUME SetsAssumption ==
    /\ StartCalls \cap (StopCalls \cup Loops \cup TgJobs) = {}
    /\ StopCalls \cap (Loops \cup TgJobs) = {}
    /\ Loops \cap TgJobs = {}
    /\ Null \notin Coroutines

ASSUME AttemptsAssumption == Attempts \in Nat

ASSUME FlagsAssumption ==
    {Cellular, Timely, InitErrors, AcceptErrors} \subseteq BOOLEAN

VARIABLES
    status,      \* companion object: the status START_ACTION looks at
    appStatus,   \* the status the user interface shows
    proxyJob,    \* the loop job of the selected preset
    tun,         \* tunFd # null: traffic is routed into the tunnel
    stopping,    \* a teardown is in progress
    holder,      \* owner of the service mutex
    waiters,     \* FIFO of the coroutines suspended in mutex.lock()
    turn,        \* the coroutines Main runs without a break: the first runs,
                 \* each of the others goes on when those before it suspend
    outer,       \* the one of them that was not resumed inside another (Null:
                 \* all were); what the others resume is queued behind them
    pc,          \* where each coroutine is suspended or blocked
    target,      \* the loop job a coroutine is trying or joining
    attempt,     \* presets a start() has tried
    tgws,        \* the Telegram proxy is running
    fd,          \* ByeDpiProxy.fd
    sock,        \* state of each listening socket in the kernel
    runs,        \* the socket the event loop of a job polls
    notExit,     \* the global NOT_EXIT of proxy.c
    crashed      \* an exception left a launched coroutine uncaught

service == <<status, appStatus, proxyJob, tun, stopping, tgws>>
lock    == <<holder, waiters>>
main    == <<turn, outer>>
control == <<pc, target, attempt>>
native  == <<fd, sock, runs, notExit>>
vars    == <<service, lock, main, control, native, crashed>>

StartPc == {"idle", "startLock", "opening", "testing", "joining", "connected",
            "failing", "cleanLock", "cleanJoin", "cleaned", "done"}
StopPc  == {"idle", "stopLock", "stopJoin", "stopped", "done"}
LoopPc  == {"idle", "launched", "running", "check", "ended", "failed",
            "stopLock", "stopJoin", "stopped", "done"}
TgPc    == {"idle", "launched", "tgLock", "done"}

ServiceTypes ==
    /\ status \in {"Disconnected", "Connected", "Failed"}
    /\ appStatus \in {"Halted", "Connecting", "Running"}
    /\ proxyJob \in Loops \cup {Null}
    /\ tun \in BOOLEAN /\ stopping \in BOOLEAN /\ tgws \in BOOLEAN

LockTypes ==
    /\ holder \in Coroutines \cup {Null}
    /\ waiters \in Seq(Coroutines)

MainTypes ==
    /\ turn \in Seq(Coroutines)
    /\ outer \in Coroutines \cup {Null}

PcTypes ==
    /\ pc \in [Coroutines -> StartPc \cup StopPc \cup LoopPc \cup TgPc]
    /\ \A c \in StartCalls : pc[c] \in StartPc
    /\ \A c \in StopCalls : pc[c] \in StopPc
    /\ \A c \in Loops : pc[c] \in LoopPc
    /\ \A c \in TgJobs : pc[c] \in TgPc

ControlTypes ==
    /\ PcTypes
    /\ target \in [Coroutines -> Loops \cup {Null}]
    /\ attempt \in [StartCalls -> 0 .. Attempts]

NativeTypes ==
    /\ fd \in Loops \cup {Null}
    /\ sock \in [Loops -> {"none", "open", "shut", "closed"}]
    /\ runs \in [Loops -> Loops \cup {Null}]
    /\ notExit \in BOOLEAN /\ crashed \in BOOLEAN

\* Every variable has its type and every coroutine the labels of its kind.
TypeOK == ServiceTypes /\ LockTypes /\ MainTypes /\ ControlTypes /\ NativeTypes

Init ==
    /\ status = "Disconnected"
    /\ appStatus = "Halted"
    /\ proxyJob = Null
    /\ tun = FALSE
    /\ stopping = FALSE
    /\ holder = Null
    /\ waiters = <<>>
    /\ turn = <<>>
    /\ outer = Null
    /\ pc = [c \in Coroutines |-> "idle"]
    /\ target = [c \in Coroutines |-> Null]
    /\ attempt = [c \in StartCalls |-> 0]
    /\ tgws = FALSE
    /\ fd = Null
    /\ sock = [s \in Loops |-> "none"]
    /\ runs = [j \in Loops |-> Null]
    /\ notExit = TRUE
    /\ crashed = FALSE

-----------------------------------------------------------------------------
(* The service mutex: kotlinx.coroutines hands it to waiters in FIFO order. *)

Lock_NoQueue(c) == holder' = c /\ UNCHANGED waiters

Lock(c) ==
    IF holder = Null
      THEN holder' = c /\ UNCHANGED waiters
      ELSE waiters' = Append(waiters, c) /\ UNCHANGED holder

Unlock ==
    IF waiters = <<>>
      THEN holder' = Null /\ UNCHANGED waiters
      ELSE holder' = Head(waiters) /\ waiters' = Tail(waiters)

Goto(c, l) == pc' = [pc EXCEPT ![c] = l]

\* A new coroutine takes an unused name; which one makes no difference.
Fresh(c, S) == pc[c] = "idle" /\ c = CHOOSE d \in S : pc[d] = "idle"

-----------------------------------------------------------------------------
(* The main thread.                                                        *)

\* x is running on Main, or Main is free to resume it.
OnMain(x) == turn # <<>> => Head(turn) = x

Turn(x) == IF turn = <<>> THEN <<x>> ELSE turn

Outer(x) == IF turn = <<>> THEN x ELSE outer

\* x goes on in the same turn.
Stay(x) == turn' = Turn(x) /\ outer' = Outer(x)

\* x is suspended, or returns to whoever resumed it.
Suspend(x) ==
    /\ turn' = Tail(Turn(x))
    /\ outer' = IF turn' = <<>> THEN Null ELSE outer

\* launch { } on Main.immediate, up to mutex.lock(), which suspends c unless the
\* mutex is free; c is then resumed by launch().
Launch(c) ==
    /\ turn = <<>>
    /\ Lock(c)
    /\ turn' = IF holder = Null THEN <<c>> ELSE <<>>
    /\ UNCHANGED outer

\* mutex.lock() in the middle of x.
Acquire(x) == Lock(x) /\ IF holder = Null THEN Stay(x) ELSE Suspend(x)

\* mutex.unlock() by x: a start() or stop() that gets the mutex runs before x goes
\* on, but is queued behind x when x itself was resumed in this turn. Loop jobs and
\* Telegram coroutines are dispatched.
Release(x) ==
    /\ Unlock
    /\ outer' = Outer(x)
    /\ turn' = IF holder' \notin StartCalls \cup StopCalls THEN Turn(x)
               ELSE IF outer' = x THEN <<holder'>> \o Turn(x)
               ELSE <<x, holder'>> \o Tail(Turn(x))

\* job.join() by x; the job of the native loop completes on another thread.
Join(x, j) ==
    \/ Suspend(x)
    \/ pc[j] = "done" /\ Stay(x)

-----------------------------------------------------------------------------
(* ByeDpiProxy: its operations on the listening socket.                    *)

\* shutdown(2) works on a listener and fails once the event loop has closed it.
ShutDown_Skipped(s) == sock

ShutDown(s) == IF sock[s] = "open" THEN [sock EXCEPT ![s] = "shut"] ELSE sock

SocketsReset_Forget == sock

SocketsReset == IF fd = Null THEN sock ELSE ShutDown(fd)

\* reset(): the result of jniStopProxy is ignored and the descriptor forgotten.
Reset ==
    /\ sock' = SocketsReset
    /\ fd' = Null

\* stopProxy() with fd >= 0: the descriptor is kept when shutdown fails.
StopNative ==
    /\ sock' = ShutDown(fd)
    /\ fd' = IF sock[fd] = "open" THEN Null ELSE fd

\* reset() and a successful openSocket(); the caller launches loop job j on it.
OpenSocket(j) ==
    /\ Fresh(j, Loops)
    /\ sock' = [SocketsReset EXCEPT ![j] = "open"]
    /\ fd' = j

\* delay(400) after the launch of a preset's loop job.
LoopsScheduled_NoDelay == TRUE

LoopsScheduled == Timely => \A j \in Loops : pc[j] # "launched"

UpdateStatus(new) ==
    /\ status' = new
    /\ appStatus' = IF new = "Connected" THEN "Running" ELSE "Halted"
    /\ proxyJob' = IF new = "Connected" THEN proxyJob ELSE Null

-----------------------------------------------------------------------------
(* start()                                                                 *)

OnStart(c) ==
    /\ pc[c] = "idle"
    /\ IF status = "Connected"
         THEN turn = <<>> /\ Goto(c, "done") /\ UNCHANGED <<appStatus, lock, main>>
         ELSE appStatus' = "Connecting" /\ Launch(c) /\ Goto(c, "startLock")
    /\ UNCHANGED <<status, proxyJob, tun, stopping, tgws, target, attempt,
                   native, crashed>>

\* An exception in withLock { }: the mutex is released before the handler runs.
Throw(c, pcs) ==
    /\ Release(c)
    /\ pc' = [pcs EXCEPT ![c] = "failing"]

\* startProxy() throws when the previous loop job is still referenced.
ProxyFieldsNull == proxyJob = Null

EnterStart(c) ==
    /\ pc[c] = "startLock" /\ holder = c /\ OnMain(c)
    /\ IF ProxyFieldsNull
         THEN Stay(c) /\ Goto(c, "opening") /\ UNCHANGED lock
         ELSE Throw(c, pc)
    /\ UNCHANGED <<service, target, attempt, native, crashed>>

\* The attempts of the for loop, MAX_CELLULAR_PROBE_ATTEMPTS of them on LTE.
MorePresets_OneTooMany(c) == attempt[c] <= Attempts

MorePresets(c) == attempt[c] < Attempts

TryPreset(c) ==
    /\ pc[c] = "opening" /\ OnMain(c) /\ MorePresets(c)
    /\ attempt' = [attempt EXCEPT ![c] = @ + 1]
    /\ \/ \E j \in Loops :
            /\ OpenSocket(j)
            /\ pc' = [pc EXCEPT ![c] = "testing", ![j] = "launched"]
            /\ target' = [target EXCEPT ![c] = j]
            /\ Suspend(c)
       \/ Reset /\ Stay(c) /\ UNCHANGED <<pc, target>>
    /\ UNCHANGED <<service, lock, runs, notExit, crashed>>

\* startProxy() returns loop job j and startTun2Socks() succeeds.
Connect(c, j, pcs) ==
    /\ tun = FALSE
    /\ tun' = TRUE
    /\ proxyJob' = j
    /\ Release(c)
    /\ pc' = [pcs EXCEPT ![c] = "connected"]
    /\ UNCHANGED <<status, appStatus, stopping, tgws>>

\* startTun2Socks() throws: tunFd is set, or establish() returned null.
TunnelFails(c, j, pcs) ==
    /\ proxyJob' = j
    /\ Throw(c, pcs)
    /\ UNCHANGED <<status, appStatus, tun, stopping, tgws>>

\* delay(400) is over and, on LTE, the probe of the preset has succeeded.
PresetWorks(c) ==
    /\ pc[c] = "testing" /\ turn = <<>> /\ LoopsScheduled
    /\ Connect(c, target[c], pc) \/ TunnelFails(c, target[c], pc)
    /\ UNCHANGED <<target, attempt, native, crashed>>

PresetFails(c) ==
    /\ Cellular
    /\ pc[c] = "testing" /\ turn = <<>> /\ LoopsScheduled
    /\ StopNative
    /\ Goto(c, "joining")
    /\ Join(c, target[c])
    /\ UNCHANGED <<service, lock, target, attempt, runs, notExit, crashed>>

\* withTimeoutOrNull(2500) is over before the job is: the job may still be in its
\* loop or wait for the mutex. The timer resumes c.
JoinTimesOut(c) ==
    /\ Timely => pc[target[c]] \notin {"launched", "running", "check", "ended",
                                       "failed"}
    /\ turn = <<>>
    /\ turn' = <<c>>
    /\ UNCHANGED outer

NextPreset(c) ==
    /\ pc[c] = "joining"
    /\ \/ JoinTimesOut(c)
       \/ pc[target[c]] = "done" /\ OnMain(c) /\ Stay(c)
    /\ Reset
    /\ Goto(c, "opening")
    /\ UNCHANGED <<service, lock, target, attempt, runs, notExit, crashed>>

Fallback(c) ==
    /\ pc[c] = "opening" /\ OnMain(c) /\ ~MorePresets(c)
    /\ \/ \E j \in Loops :
            /\ OpenSocket(j)
            /\ target' = [target EXCEPT ![c] = j]
            /\ LET launched == [pc EXCEPT ![j] = "launched"]
               IN  Connect(c, j, launched) \/ TunnelFails(c, j, launched)
       \/ Reset /\ Throw(c, pc) /\ UNCHANGED <<service, target>>
    /\ UNCHANGED <<attempt, runs, notExit, crashed>>

\* After the lock: the status, and the launch of the Telegram coroutine.
ShowConnected(c) ==
    /\ pc[c] = "connected" /\ OnMain(c)
    /\ UpdateStatus("Connected")
    /\ \E g \in TgJobs :
         /\ Fresh(g, TgJobs)
         /\ pc' = [pc EXCEPT ![c] = "done", ![g] = "launched"]
    /\ Suspend(c)
    /\ UNCHANGED <<tun, stopping, tgws, lock, target, attempt, native, crashed>>

\* The handler of start() enters cleanupAfterFailure().
Failing(c) ==
    /\ pc[c] = "failing" /\ OnMain(c)
    /\ Acquire(c)
    /\ Goto(c, "cleanLock")
    /\ UNCHANGED <<service, target, attempt, native, crashed>>

-----------------------------------------------------------------------------
(* What stop() and cleanupAfterFailure() share                             *)

\* stopTun2Socks() and TgWsProxy.stop()
TunnelDown_KeepsFd == tun' = tun /\ tgws' = FALSE

TunnelDown == tun' = FALSE /\ tgws' = FALSE

\* proxyJob?.join()
Joined_NoWait(x) == TRUE

Joined(x) == pc[target[x]] = "done"

\* The end of the withLock block; x still has to show the new status.
TornDown(x, l) ==
    /\ stopping' = FALSE
    /\ proxyJob' = Null
    /\ Release(x)
    /\ Goto(x, l)

\* Stop the loop and wait for its job, at label l, or reset() when there is no
\* job. stopProxy() never throws: a selected job has a descriptor (ListenerIsOwned).
TearDown(x, l, m) ==
    /\ holder = x /\ OnMain(x)
    /\ TunnelDown
    /\ IF proxyJob # Null
         THEN /\ StopNative
              /\ stopping' = TRUE
              /\ target' = [target EXCEPT ![x] = proxyJob]
              /\ Goto(x, l)
              /\ Join(x, proxyJob)
              /\ UNCHANGED <<proxyJob, lock>>
         ELSE TornDown(x, m) /\ Reset /\ UNCHANGED target
    /\ UNCHANGED <<status, appStatus, attempt, runs, notExit, crashed>>

TearDownJoined(x, m) ==
    /\ Joined(x) /\ OnMain(x)
    /\ TornDown(x, m)
    /\ UNCHANGED <<status, appStatus, tun, tgws, target, attempt, native, crashed>>

\* updateStatus() after the lock, when others may have had it.
Report_Nothing(x, new) == Suspend(x) /\ Goto(x, "done") /\ UNCHANGED service

Report(x, new) ==
    /\ OnMain(x)
    /\ UpdateStatus(new)
    /\ Suspend(x)
    /\ Goto(x, "done")
    /\ UNCHANGED <<tun, stopping, tgws>>

CleanUp(c) == pc[c] = "cleanLock" /\ TearDown(c, "cleanJoin", "cleaned")

CleanJoined(c) == pc[c] = "cleanJoin" /\ TearDownJoined(c, "cleaned")

ShowFailed(c) ==
    /\ pc[c] = "cleaned" /\ Report(c, "Failed")
    /\ UNCHANGED <<lock, target, attempt, native, crashed>>

-----------------------------------------------------------------------------
(* stop(), called by the intents and by a loop job whose loop has ended.    *)

OnStop(c) ==
    /\ pc[c] = "idle"
    /\ Launch(c)
    /\ Goto(c, "stopLock")
    /\ UNCHANGED <<service, target, attempt, native, crashed>>

Stop(x) == pc[x] = "stopLock" /\ TearDown(x, "stopJoin", "stopped")

StopJoined(x) == pc[x] = "stopJoin" /\ TearDownJoined(x, "stopped")

ShowDisconnected(x) ==
    /\ pc[x] = "stopped" /\ Report(x, "Disconnected")
    /\ UNCHANGED <<lock, target, attempt, native, crashed>>

-----------------------------------------------------------------------------
(* A loop job: runLoop(), the native event loop, and the handler on Main.   *)

\* runLoop() throws when the descriptor is gone: nothing catches it.
RunLoop(j) ==
    /\ pc[j] = "launched"
    /\ \/ fd = Null /\ crashed' = TRUE /\ UNCHANGED <<pc, sock, runs, notExit>>
       \/ /\ fd # Null /\ notExit' = TRUE
          /\ runs' = [runs EXCEPT ![j] = fd]
          /\ \/ Goto(j, "running") /\ UNCHANGED sock
             \/ InitErrors /\ Goto(j, "failed")
                           /\ sock' = [sock EXCEPT ![fd] = "closed"]
          /\ UNCHANGED crashed
    /\ UNCHANGED <<service, lock, main, target, attempt, fd>>

\* POLLHUP on the listener, and an accept4 error, clear NOT_EXIT.
Listener(j) ==
    /\ pc[j] = "running"
    /\ \/ sock[runs[j]] = "shut"
       \/ AcceptErrors /\ sock[runs[j]] = "open"
    /\ notExit' = FALSE
    /\ Goto(j, "check")
    /\ UNCHANGED <<service, lock, main, target, attempt, fd, sock, runs, crashed>>

\* while (NOT_EXIT): the flag may have been set again by another loop's start.
KeepsRunning_Always == TRUE

KeepsRunning == notExit

CheckExit(j) ==
    /\ \/ pc[j] = "check"
       \/ pc[j] = "running" /\ ~KeepsRunning \* after a client's event
    /\ IF KeepsRunning
         THEN Goto(j, "running") /\ UNCHANGED sock
         ELSE Goto(j, "ended") /\ sock' = [sock EXCEPT ![runs[j]] = "closed"]
    /\ UNCHANGED <<service, lock, main, target, attempt, fd, runs, notExit, crashed>>

LoopFailed(j) ==
    /\ pc[j] = "failed" /\ turn = <<>>
    /\ UpdateStatus("Failed")
    /\ Goto(j, "done")
    /\ UNCHANGED <<tun, stopping, tgws, lock, main, target, attempt, native, crashed>>

LoopEnded(j) ==
    /\ pc[j] = "ended" /\ turn = <<>>
    /\ IF stopping
         THEN Goto(j, "done") /\ UNCHANGED <<lock, main>>
         ELSE Goto(j, "stopLock") /\ Acquire(j)
    /\ UNCHANGED <<service, target, attempt, native, crashed>>

-----------------------------------------------------------------------------
(* The coroutine that starts the Telegram proxy after a successful start(). *)

TgLock(g) ==
    /\ pc[g] = "launched"
    /\ Lock(g)
    /\ Goto(g, "tgLock")
    /\ UNCHANGED <<service, main, target, attempt, native, crashed>>

TgStart(g) ==
    /\ pc[g] = "tgLock" /\ holder = g
    /\ tgws' \in IF stopping THEN {tgws} ELSE BOOLEAN
    /\ Unlock
    /\ Goto(g, "done")
    /\ UNCHANGED <<status, appStatus, proxyJob, tun, stopping, main, target,
                   attempt, native, crashed>>

-----------------------------------------------------------------------------
StartStep(c) ==
    \/ EnterStart(c) \/ TryPreset(c) \/ PresetWorks(c) \/ PresetFails(c)
    \/ NextPreset(c) \/ Fallback(c) \/ ShowConnected(c)
    \/ Failing(c) \/ CleanUp(c) \/ CleanJoined(c) \/ ShowFailed(c)

StopStep(x) == Stop(x) \/ StopJoined(x) \/ ShowDisconnected(x)

LoopStep(j) ==
    \/ RunLoop(j) \/ Listener(j) \/ CheckExit(j)
    \/ LoopFailed(j) \/ LoopEnded(j) \/ StopStep(j)

TgStep(g) == TgLock(g) \/ TgStart(g)

\* Every call has been handled and every loop is serving: nothing has to happen.
Quiet ==
    \/ crashed
    \/ /\ \A c \in StartCalls \cup StopCalls : pc[c] = "done"
       /\ \A j \in Loops : pc[j] \in {"idle", "running", "done"}
       /\ \A g \in TgJobs : pc[g] \in {"idle", "done"}

Next ==
    \/ /\ ~crashed
       /\ \/ \E c \in StartCalls : OnStart(c) \/ StartStep(c)
          \/ \E c \in StopCalls : OnStop(c) \/ StopStep(c)
          \/ \E j \in Loops : LoopStep(j)
          \/ \E g \in TgJobs : TgStep(g)
    \/ Quiet /\ UNCHANGED vars

\* The dispatchers run every coroutine that can run; intents and the errors of
\* accept4 need not happen, and a loop polls only its own sockets.
Fairness ==
    /\ \A c \in StartCalls : WF_vars(~crashed /\ StartStep(c))
    /\ \A c \in StopCalls : WF_vars(~crashed /\ StopStep(c))
    /\ \A j \in Loops :
         /\ WF_vars(~crashed /\ (RunLoop(j) \/ LoopFailed(j) \/ LoopEnded(j)))
         /\ WF_vars(~crashed /\ pc[j] = "running" /\ sock[runs[j]] = "shut"
                    /\ Listener(j))
         /\ WF_vars(~crashed /\ pc[j] = "check" /\ CheckExit(j))
         /\ WF_vars(~crashed /\ StopStep(j))
    /\ \A g \in TgJobs : WF_vars(~crashed /\ TgStep(g))

Spec == Init /\ [][Next]_vars /\ Fairness

-----------------------------------------------------------------------------
(* Safety                                                                  *)

InTeardown(x) == pc[x] \in {"stopJoin", "cleanJoin"}

Critical(x) == InTeardown(x) \/ pc[x] \in {"opening", "testing", "joining"}

\* Only the owner of the mutex is inside start(), stop() or the clean-up, and
\* the flag that makes a loop's handler skip stop() is up exactly while a
\* teardown waits for a loop job (lines 144-193: no path leaves it set).
TeardownIsExclusive ==
    /\ \A c \in Coroutines : Critical(c) => holder = c
    /\ stopping <=> \E c \in Coroutines : InTeardown(c)

\* A teardown that waits for a loop job has already closed the tunnel, stopped
\* the Telegram proxy and shut every listener, and nobody reopens one behind it.
TeardownIsDown ==
    (\E c \in Coroutines : InTeardown(c)) =>
        ~tun /\ ~tgws /\ \A s \in Loops : sock[s] # "open"

\* A listening socket that accepts connections is always the one ByeDpiProxy can
\* stop, and the job that is waited for in a teardown has one to stop: no reset,
\* retry, failure or second start leaves a listener behind, or a job without.
ListenerIsOwned ==
    /\ \A s \in Loops : sock[s] = "open" => fd = s
    /\ proxyJob # Null /\ ~stopping => fd # Null

\* A loop job that has ended, or is about to call stop() for that reason.
Ending(j) == pc[j] \in {"failed", "ended", "stopLock"}

\* A socket accepts connections, but it is not under test and proxyJob does not
\* refer to its loop job: updateStatus(), which runs after the lock and clears the
\* reference (lines 178-193, 573), has cleared the one of a start() in between.
JobLost ==
    /\ proxyJob = Null
    /\ \E s \in Loops : sock[s] = "open"
    /\ \A c \in StartCalls : pc[c] # "testing"

\* While the service says Connected, and Main is between two turns, traffic enters
\* the tunnel and the loop of the selected preset serves it on the current socket,
\* unless a teardown is under way or the end of the loop is still to be handled.
ConnectedIsServed ==
    status = "Connected" /\ turn = <<>> /\ ~stopping /\ ~crashed =>
        /\ tun
        /\ proxyJob # Null
        /\ \/ Ending(proxyJob) \/ pc[proxyJob] = "check"
           \/ /\ fd = proxyJob /\ sock[fd] = "open"
              /\ pc[proxyJob] = "running" => runs[proxyJob] = fd

\* The Telegram proxy does not outlive the service: startTgWsProxyAsync() is
\* skipped once the service stops (ByeDpiVpnService.kt:115-117, 450-453).
TgProxyOffWhenStopped ==
    Quiet /\ status # "Connected" => ~tgws

-----------------------------------------------------------------------------
(* Action properties                                                       *)

\* A connection ends only because stop() was asked for by an intent or by
\* onRevoke, or because another start() failed and cleaned up; never because of
\* a preset that was tried and abandoned before.
ConnectedUntilAsked ==
    [][status = "Connected" /\ status' # "Connected" =>
         \/ \E c \in StopCalls : pc[c] # "done" /\ pc'[c] = "done"
         \/ \E c \in StartCalls : pc[c] # "done" /\ pc'[c] = "done"]_vars

\* A descriptor is not taken away from a loop job that has still to reach
\* runLoop(), which would throw: only a stop() or clean-up that waits for this job,
\* or one that cannot because the reference to it was lost, does so.
KeepsItsSocket ==
    [][\A j \in Loops : pc[j] = "launched" /\ fd = j /\ fd' # j =>
         \/ \E c \in Coroutines : InTeardown(c)' /\ target'[c] = j
         \/ JobLost]_vars

\* stop() gives the mutex back only when nothing is left: no tunnel, no reference
\* to a loop job, no open listener, and the job it waited for has finished.
StopIsComplete ==
    [][\A c \in StopCalls : pc[c] # "stopped" /\ pc'[c] = "stopped" =>
         /\ ~tun' /\ ~tgws' /\ proxyJob' = Null
         /\ \A s \in Loops : sock'[s] # "open"
         /\ pc[c] = "stopJoin" => pc[target[c]] = "done"]_vars

\* With the mutex free and Main between two turns the service is up as a whole or
\* down as a whole: there is a tunnel exactly when a socket accepts its connections
\* and a loop serves them or is about to, and none when the interface shows Halted.
WholeOrHalted ==
    holder = Null /\ turn = <<>> /\ ~crashed =>
        /\ tun <=> \E s \in Loops : sock[s] = "open"
        /\ tun => \/ pc[fd] = "launched"
                  \/ pc[fd] = "running" /\ runs[fd] = fd
        /\ appStatus = "Halted" => ~tun

\* So it is for as long as no status has cleared the reference to a job in use.
HaltedIsDown == []~JobLost => []WholeOrHalted

-----------------------------------------------------------------------------
(* Liveness                                                                *)

\* Every call is answered: no start() or stop() waits forever for the mutex or
\* for a loop job, and the interface does not show Connecting forever.
CallsReturn ==
    /\ \A c \in StartCalls \cup StopCalls :
         pc[c] # "idle" ~> (pc[c] = "done" \/ crashed)
    /\ appStatus = "Connecting" ~> (appStatus # "Connecting" \/ crashed)

\* The mutex is always released in the end: a stop issued by the loop that has
\* ended does not wait for itself.
MutexIsReleased ==
    \A c \in Coroutines : holder = c ~> (holder # c \/ crashed)

=============================================================================
