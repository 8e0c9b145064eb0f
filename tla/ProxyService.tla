----------------------------- MODULE ProxyService -----------------------------
(***************************************************************************)
(* The proxy-only service of the Android application (ByeDpiProxyService),  *)
(* with the ByeDpiProxy object it owns and the native event loop behind it. *)
(*                                                                         *)
(* The service object lives from an intent to the onDestroy() that          *)
(* stopSelf() asks the system for; `status` and `appStatus` are static and  *)
(* outlive it, and so does an event loop, which nothing can cancel.         *)
(* start() and stop() are coroutines on Dispatchers.Main.immediate, where   *)
(* resumptions nest once: a coroutine that runs in launch(), or inside the  *)
(* unlock() that handed it the mutex, goes on to its next suspension before *)
(* a coroutine that it resumes itself; only a stop() that the main thread   *)
(* resumed from its join() lets the one it unlocks run first.  No other     *)
(* message of the main thread is handled in between.  The loop job runs on  *)
(* Dispatchers.IO beside it.                                               *)
(***************************************************************************)
EXTENDS Naturals, Sequences

CONSTANTS
    Calls,     \* the intents sent to the service, each with its coroutine
    Jobs,      \* loop jobs; a job also names the socket it opens
    Receivers, \* broadcast receivers of the process
    Null,      \* null reference, closed descriptor, free mutex
    Profiles   \* what may go wrong: sets of FaultKinds to choose from

FaultKinds == {"hasty", "slow", "bind", "loop"}

ASSUME NamesAssumption ==
    /\ Calls \cap Jobs = {} /\ Null \notin Calls \cup Jobs
    /\ "destroy" \notin Calls
ASSUME ProfilesAssumption == Profiles \subseteq SUBSET FaultKinds

VARIABLES
    faults,     \* what goes wrong in this behaviour
    inbox,      \* messages of the system for the main thread: a call stands for
                \* its onStartCommand(), "destroy" for onDestroy()
    alive,      \* there is a service object
    status,     \* companion object: the status START looks at
    appStatus,  \* ByeDpiStatus.appStatus, in Mode.Proxy
    proxyJob,   \* the loop job the service object refers to
    fd,         \* the descriptor of the ByeDpiProxy object it refers to
    mine,       \* the jobs of its lifecycleScope
    holder,     \* owner of its mutex
    waiters,    \* FIFO of the coroutines suspended in mutex.lock()
    pc,         \* where each call and each job is
    target,     \* the job a call joins
    sock,       \* the listening socket of each job, in the kernel
    notExit,    \* the global NOT_EXIT of proxy.c
    registered, \* the receivers that are registered
    pending,    \* broadcasts under way to each receiver
    crashed     \* an exception left a launched coroutine uncaught

static  == <<status, appStatus>>
object  == <<alive, proxyJob, fd, mine>>
lock    == <<holder, waiters>>
control == <<pc, target>>
native  == <<sock, notExit>>
cast    == <<registered, pending>>
serviceVars == <<faults, inbox, static, object, lock, control, native, cast,
                 crashed>>

CallPc == {"idle", "sentStart", "sentStop", "startLock", "stopLock", "join",
           "tail", "done"}
JobPc  == {"idle", "launched", "running", "check", "ended", "failed",
           "leaving", "done"}

StaticTypes ==
    /\ faults \in Profiles
    /\ status \in {"Disconnected", "Connected", "Failed"}
    /\ appStatus \in {"Halted", "Connecting", "Running"}

ObjectTypes ==
    /\ alive \in BOOLEAN
    /\ proxyJob \in Jobs \cup {Null}
    /\ fd \in Jobs \cup {Null}
    /\ mine \subseteq Jobs

LockTypes ==
    /\ holder \in Calls \cup {Null}
    /\ waiters \in Seq(Calls)

PcTypes ==
    /\ pc \in [Calls \cup Jobs -> CallPc \cup JobPc]
    /\ \A c \in Calls : pc[c] \in CallPc
    /\ \A j \in Jobs : pc[j] \in JobPc

ControlTypes ==
    /\ inbox \in Seq(Calls \cup {"destroy"})
    /\ target \in [Calls -> Jobs \cup {Null}]

NativeTypes ==
    /\ sock \in [Jobs -> {"none", "open", "shut", "closed"}]
    /\ notExit \in BOOLEAN /\ crashed \in BOOLEAN

CastTypes ==
    /\ registered \subseteq Receivers
    /\ pending \in [Receivers -> Nat]

ServiceTypeOK ==
    /\ StaticTypes /\ ObjectTypes /\ LockTypes /\ PcTypes
    /\ ControlTypes /\ NativeTypes /\ CastTypes

ServiceInit ==
    /\ faults \in Profiles
    /\ inbox = << >>
    /\ alive = FALSE
    /\ status = "Disconnected"
    /\ appStatus = "Halted"
    /\ proxyJob = Null
    /\ fd = Null
    /\ mine = {}
    /\ holder = Null
    /\ waiters = << >>
    /\ pc = [x \in Calls \cup Jobs |-> "idle"]
    /\ target = [c \in Calls |-> Null]
    /\ sock = [j \in Jobs |-> "none"]
    /\ notExit = TRUE
    /\ registered = {}
    /\ pending = [r \in Receivers |-> 0]
    /\ crashed = FALSE

-----------------------------------------------------------------------------
(* The main thread                                                         *)

\* A coroutine was handed the mutex inside the unlock() of another.
Woken == holder # Null /\ pc[holder] # "join"

\* No coroutine is between two suspension points.
MainFree == ~Woken /\ \A c \in Calls : pc[c] # "tail"

\* Without the fault "slow" Dispatchers.IO keeps up with the user: a job that
\* was launched has opened its socket, and a job that has reported its end has
\* completed and woken the stop() that joins it, before the main thread handles
\* the next intent or click.
Prompt ==
    "slow" \notin faults =>
        /\ \A j \in Jobs : pc[j] \notin {"launched", "leaving"}
        /\ \A c \in Calls : pc[c] = "join" => pc[target[c]] # "done"

Ready == MainFree /\ Prompt

Lock(c) ==
    IF holder = Null
      THEN holder' = c /\ UNCHANGED waiters
      ELSE waiters' = Append(waiters, c) /\ UNCHANGED holder

Unlock ==
    IF waiters = << >>
      THEN holder' = Null /\ UNCHANGED waiters
      ELSE holder' = Head(waiters) /\ waiters' = Tail(waiters)

\* withLock ends with an exception and its handler, stop(), locks again.
Relock(c) ==
    IF waiters = << >>
      THEN UNCHANGED lock
      ELSE holder' = Head(waiters) /\ waiters' = Append(Tail(waiters), c)

Goto(x, l) == pc' = [pc EXCEPT ![x] = l]

\* An intent or a job takes an unused name; which one makes no difference.
Fresh(x, S) == pc[x] = "idle" /\ x = CHOOSE y \in S : pc[y] = "idle"

UpdateStatus_NoReset(new) ==
    /\ status' = IF new = "Disconnected" THEN status ELSE new
    /\ appStatus' = IF new = "Connected" THEN "Running" ELSE "Halted"
    /\ pending' = [r \in Receivers |->
                      IF r \in registered THEN pending[r] + 1 ELSE pending[r]]
    /\ UNCHANGED registered

UpdateStatus_Silent(new) ==
    /\ status' = new
    /\ appStatus' = IF new = "Connected" THEN "Running" ELSE "Halted"
    /\ UNCHANGED cast

\* updateStatus(), up to the reset of proxyJob; every registered receiver will
\* get the broadcast.
UpdateStatus(new) ==
    /\ status' = new
    /\ appStatus' = IF new = "Connected" THEN "Running" ELSE "Halted"
    /\ pending' = [r \in Receivers |->
                      IF r \in registered THEN pending[r] + 1 ELSE pending[r]]
    /\ UNCHANGED registered

Halt(new) == UpdateStatus(new) /\ proxyJob' = Null

-----------------------------------------------------------------------------
(* ServiceManager, and what the system does with its intents               *)

Send(kind) ==
    \E c \in Calls :
        /\ Fresh(c, Calls)
        /\ Goto(c, kind)
        /\ inbox' = Append(inbox, c)

\* Without the fault "hasty" the user does not start the proxy again before the
\* service has got the last intent to stop it.
SendStart ==
    /\ "hasty" \notin faults => \A c \in Calls : pc[c] # "sentStop"
    /\ Send("sentStart")

SendStop == Send("sentStop")

\* stopSelf(): the object is destroyed after the intents that are under way.
\* It asks for its own end only, and only once.
StopSelf ==
    inbox' = IF \E i \in DOMAIN inbox : inbox[i] = "destroy"
               THEN inbox ELSE Append(inbox, "destroy")

\* onStartCommand(): the system creates a service object if there is none.
Delivered(c, kind) ==
    /\ Ready
    /\ inbox # << >> /\ Head(inbox) = c /\ pc[c] = kind
    /\ inbox' = Tail(inbox)
    /\ alive' = TRUE
    /\ UNCHANGED <<faults, static, proxyJob, fd, mine, target, native, cast,
                   crashed>>

StartRefused == status = "Connected"

OnStart(c) ==
    /\ Delivered(c, "sentStart")
    /\ IF StartRefused
         THEN Goto(c, "done") /\ UNCHANGED lock
         ELSE Goto(c, "startLock") /\ Lock(c)

OnStop(c) ==
    /\ Delivered(c, "sentStop")
    /\ Goto(c, "stopLock") /\ Lock(c)

\* onDestroy() cancels the lifecycleScope: the coroutines that are suspended
\* and the jobs that have not begun end, a running event loop does not notice.
\* A start() that waited for the mutex would catch its cancellation and call
\* stop(), which is not modelled: without faults none waits then, however many
\* calls there are, and with any fault none does with five calls or fewer.
OnDestroy ==
    /\ Ready
    /\ inbox # << >> /\ Head(inbox) = "destroy"
    /\ inbox' = Tail(inbox)
    /\ alive' = FALSE
    /\ proxyJob' = Null /\ fd' = Null /\ mine' = {}
    /\ holder' = Null /\ waiters' = << >>
    /\ pc' = [x \in Calls \cup Jobs |->
                IF pc[x] \in {"startLock", "stopLock", "join", "launched"}
                  THEN "done" ELSE pc[x]]
    /\ UNCHANGED <<faults, static, target, native, cast, crashed>>

-----------------------------------------------------------------------------
(* start()                                                                 *)

\* startProxy() launches the loop job and start() reports Connected; it throws
\* when a loop job is still referenced, and the handler enters stop(). A start()
\* runs in launch() or in the unlock() of another, so that whoever its own
\* unlock() resumes is queued behind its updateStatus().
EnterStart(c) ==
    /\ pc[c] = "startLock" /\ holder = c
    /\ \/ /\ proxyJob = Null
          /\ \E j \in Jobs :
               /\ Fresh(j, Jobs)
               /\ fd' = Null
               /\ proxyJob' = j
               /\ mine' = mine \cup {j}
               /\ pc' = [pc EXCEPT ![c] = "done", ![j] = "launched"]
          /\ Unlock
          /\ UpdateStatus("Connected")
       \/ /\ proxyJob # Null
          /\ Halt("Failed")
          /\ Relock(c)
          /\ Goto(c, "stopLock")
          /\ UNCHANGED <<fd, mine>>
    /\ UNCHANGED <<faults, inbox, alive, target, native, crashed>>

-----------------------------------------------------------------------------
(* stop()                                                                  *)

ShutDown_Skipped(s) == sock

ShutDown(s) == IF sock[s] = "open" THEN [sock EXCEPT ![s] = "shut"] ELSE sock

StopRefused_Inverted == status = "Connected"

StopRefused_Never == FALSE

StopRefused == status = "Disconnected"

\* updateStatus(Disconnected) and stopSelf().
Finish(c) ==
    /\ Halt("Disconnected")
    /\ StopSelf
    /\ Goto(c, "done")

\* stopProxy(); ByeDpiProxy.stopProxy() throws when there is no descriptor, and
\* keeps it when the event loop has closed the socket before. Without a job to
\* join, stop() goes on to its end before whoever its unlock() resumes.
EnterStop(c) ==
    /\ pc[c] = "stopLock" /\ holder = c
    /\ \/ /\ StopRefused
          /\ Unlock /\ Finish(c)
          /\ UNCHANGED <<target, fd, sock, crashed>>
       \/ /\ ~StopRefused /\ fd = Null
          /\ crashed' = TRUE
          /\ UNCHANGED <<inbox, static, proxyJob, lock, control, fd, sock, cast>>
       \/ /\ ~StopRefused /\ fd # Null
          /\ sock' = ShutDown(fd)
          /\ fd' = IF sock[fd] = "open" THEN Null ELSE fd
          /\ IF proxyJob = Null
               THEN Unlock /\ Finish(c) /\ UNCHANGED target
               ELSE /\ target' = [target EXCEPT ![c] = proxyJob]
                    /\ Goto(c, "join")
                    /\ UNCHANGED <<inbox, static, proxyJob, lock, cast>>
          /\ UNCHANGED crashed
    /\ UNCHANGED <<faults, alive, mine, notExit>>

\* proxyJob?.join()
JobEnded(j) == pc[j] = "done"

Joined(c) ==
    /\ pc[c] = "join" /\ MainFree /\ JobEnded(target[c])
    /\ proxyJob' = Null
    /\ Unlock /\ Goto(c, "tail")
    /\ UNCHANGED <<faults, inbox, static, alive, fd, mine, target, native, cast,
                   crashed>>

\* The end of a stop() that joined a job, after whoever got the mutex from it.
Stopped(c) ==
    /\ pc[c] = "tail" /\ ~Woken
    /\ Finish(c)
    /\ UNCHANGED <<faults, alive, fd, mine, lock, target, native, crashed>>

-----------------------------------------------------------------------------
(* A loop job, on Dispatchers.IO                                           *)

\* ByeDpiProxy.startProxy(): it throws when the object has a socket, returns -1
\* without one, and an error number when the event loop does not come up.
RunProxy(j) ==
    /\ pc[j] = "launched"
    /\ \/ /\ fd # Null /\ crashed' = TRUE
          /\ UNCHANGED <<pc, fd, native>>
       \/ /\ fd = Null
          /\ \/ /\ Goto(j, "running") /\ fd' = j /\ notExit' = TRUE
                /\ sock' = [sock EXCEPT ![j] = "open"]
             \/ /\ "bind" \in faults /\ Goto(j, "failed")
                /\ UNCHANGED <<fd, native>>
             \/ /\ "loop" \in faults /\ Goto(j, "failed")
                /\ fd' = j /\ notExit' = TRUE
                /\ sock' = [sock EXCEPT ![j] = "closed"]
          /\ UNCHANGED crashed
    /\ UNCHANGED <<faults, inbox, static, alive, proxyJob, mine, lock, target,
                   cast>>

\* POLLHUP on the listener, and an accept4 error, clear NOT_EXIT.
Listener(j) ==
    /\ pc[j] = "running"
    /\ sock[j] = "shut" \/ ("loop" \in faults /\ sock[j] = "open")
    /\ notExit' = FALSE
    /\ Goto(j, "check")
    /\ UNCHANGED <<faults, inbox, static, object, lock, target, sock, cast,
                   crashed>>

\* while (NOT_EXIT), after the listener's event or a client's: the loop of
\* another job may have cleared the flag, or set it again.
CheckExit(j) ==
    /\ pc[j] = "check" \/ (pc[j] = "running" /\ ~notExit)
    /\ IF notExit
         THEN Goto(j, "running") /\ UNCHANGED sock
         ELSE Goto(j, "ended") /\ sock' = [sock EXCEPT ![j] = "closed"]
    /\ UNCHANGED <<faults, inbox, static, object, lock, target, notExit, cast,
                   crashed>>

\* withContext(Main) reports how the loop ended, unless the job was cancelled.
Reported(j) ==
    /\ pc[j] \in {"ended", "failed"}
    /\ IF j \in mine
         THEN /\ MainFree
              /\ Halt(IF pc[j] = "failed" THEN "Failed" ELSE "Disconnected")
              /\ Goto(j, "leaving")
         ELSE Goto(j, "done") /\ UNCHANGED <<static, proxyJob, cast>>
    /\ UNCHANGED <<faults, inbox, alive, fd, mine, lock, target, native, crashed>>

Leave(j) ==
    /\ pc[j] = "leaving"
    /\ Goto(j, "done")
    /\ UNCHANGED <<faults, inbox, static, object, lock, target, native, cast,
                   crashed>>

-----------------------------------------------------------------------------
CallStep(c) == EnterStart(c) \/ EnterStop(c) \/ Joined(c) \/ Stopped(c)

JobStep(j) ==
    RunProxy(j) \/ Listener(j) \/ CheckExit(j) \/ Reported(j) \/ Leave(j)

ServiceStep ==
    \/ \E c \in Calls : OnStart(c) \/ OnStop(c) \/ CallStep(c)
    \/ OnDestroy
    \/ \E j \in Jobs : JobStep(j)

=============================================================================
