-------------------------- MODULE AndroidApp_proofs --------------------------
(***************************************************************************)
(* Proofs about AndroidApp for any number of intents and loop jobs: type    *)
(* correctness, and that without faults no exception ends the process, no   *)
(* event loop is left behind, `status` tells whether the proxy listens, and *)
(* the activity and the tile show it.                                       *)
(***************************************************************************)
EXTENDS AndroidApp, TLAPS

-----------------------------------------------------------------------------
(* The inductive invariant of behaviours without faults                    *)

Serving == {"launched", "running", "check", "ended"}

Stopping(c) == pc[c] \in {"stopLock", "join", "tail"}

\* status is Connected exactly while one job comes up, serves or winds down.
StatusFollowsJob ==
    /\ status \in {"Connected", "Disconnected"}
    /\ status = "Connected" <=> appStatus = "Running"
    /\ status = "Connected" =>
         alive /\ proxyJob \in mine /\ pc[proxyJob] \in Serving
    /\ proxyJob # Null => status = "Connected"
    /\ \A j \in Jobs : pc[j] \in Serving => status = "Connected" /\ proxyJob = j
    /\ \A j \in Jobs : pc[j] # "failed"

\* The descriptor is that of the socket that accepts connections; a loop whose
\* socket does not is being joined.
SocketFollowsFd ==
    /\ fd # Null => sock[fd] = "open"
    /\ \A j \in Jobs :
         /\ sock[j] = "open" => pc[j] = "running" /\ fd = j /\ notExit
         /\ pc[j] \in {"check", "ended"} \/ (pc[j] = "running" /\ sock[j] # "open")
              => \E c \in Calls : pc[c] = "join"

Joiners ==
    \A c \in Calls : pc[c] = "join" =>
        /\ holder = c /\ fd = Null /\ target[c] \in Jobs
        /\ IF status = "Connected"
             THEN target[c] = proxyJob /\ pc[proxyJob] # "launched"
             ELSE pc[target[c]] \in {"leaving", "done"}

Starters ==
    \A c \in Calls : pc[c] = "startLock" =>
        /\ holder = c /\ alive /\ status # "Connected"
        /\ \A d \in Calls : ~Stopping(d)
        /\ \A i \in DOMAIN inbox : inbox[i] # "destroy"

Stoppers ==
    \A c \in Calls :
        /\ pc[c] = "stopLock" =>
             /\ \/ holder = c
                \/ holder # Null /\ \E i \in DOMAIN waiters : waiters[i] = c
             /\ \A j \in Jobs : pc[j] # "launched"
        /\ pc[c] = "tail" => status # "Connected"
        /\ Stopping(c) =>
             \A i \in DOMAIN inbox : inbox[i] \in Calls => pc[inbox[i]] # "sentStart"

\* No intent to start the proxy is under way behind one to stop it or before
\* the destruction of the object.
InboxOrder ==
    /\ \A i \in DOMAIN inbox : inbox[i] \in Calls => pc[inbox[i]] # "idle"
    /\ \A i \in DOMAIN inbox : inbox[i] = "destroy" => status # "Connected"
    /\ \A i \in DOMAIN inbox : \A k \in DOMAIN inbox :
         /\ i < k /\ inbox[i] \in Calls /\ pc[inbox[i]] = "sentStart"
              => inbox[k] # "destroy"
         /\ i < k /\ inbox[k] \in Calls /\ pc[inbox[k]] = "sentStart"
              => ~(inbox[i] \in Calls /\ pc[inbox[i]] = "sentStop")

Calm ==
    /\ ~crashed
    /\ StatusFollowsJob /\ SocketFollowsFd
    /\ Joiners /\ Starters /\ Stoppers /\ InboxOrder

IInv == TypeOK /\ (faults = {} => Calm)

-----------------------------------------------------------------------------
(* Sequences                                                               *)

LEMMA TailOf ==
    ASSUME NEW S, NEW q \in Seq(S), q # << >>
    PROVE  /\ Tail(q) \in Seq(S)
           /\ 1 \in DOMAIN q /\ Head(q) = q[1] /\ Head(q) \in S
           /\ \A i \in DOMAIN Tail(q) :
                 i \in Nat /\ i > 0 /\ i + 1 \in DOMAIN q /\ Tail(q)[i] = q[i + 1]
OBVIOUS

LEMMA AppendTo ==
    ASSUME NEW S, NEW q \in Seq(S), NEW x \in S
    PROVE  /\ Append(q, x) \in Seq(S)
           /\ \A i \in DOMAIN q : i \in Nat /\ i < Len(q) + 1
           /\ \A i \in DOMAIN Append(q, x) :
                 \/ i \in DOMAIN q /\ Append(q, x)[i] = q[i]
                 \/ i = Len(q) + 1 /\ Append(q, x)[i] = x
OBVIOUS

-----------------------------------------------------------------------------
(* Type correctness                                                        *)

LEMMA GotoCallTypes ==
    ASSUME PcTypes, NEW c \in Calls, NEW l \in CallPc, Goto(c, l)
    PROVE  PcTypes'
BY NamesAssumption DEF PcTypes, Goto

LEMMA GotoJobTypes ==
    ASSUME PcTypes, NEW j \in Jobs, NEW l \in JobPc, Goto(j, l)
    PROVE  PcTypes'
BY NamesAssumption DEF PcTypes, Goto

LEMMA LockingTypes ==
    ASSUME LockTypes, NEW c \in Calls,
           Lock(c) \/ Unlock \/ Relock(c) \/ UNCHANGED lock
    PROVE  LockTypes'
<1>1. CASE Lock(c)
  BY <1>1 DEF Lock, LockTypes
<1>2. CASE Unlock
  BY <1>2 DEF Unlock, LockTypes
<1>3. CASE Relock(c)
  BY <1>3 DEF Relock, lock, LockTypes
<1>4. CASE UNCHANGED lock
  BY <1>4 DEF lock, LockTypes
<1> QED
  BY <1>1, <1>2, <1>3, <1>4

LEMMA HaltTypes ==
    ASSUME StaticTypes, CastTypes, UNCHANGED faults,
           NEW new \in {"Disconnected", "Connected", "Failed"}, UpdateStatus(new)
    PROVE  StaticTypes' /\ CastTypes'
BY DEF UpdateStatus, StaticTypes, CastTypes

LEMMA SendTypes ==
    ASSUME PcTypes, ControlTypes, UNCHANGED target,
           NEW k \in {"sentStart", "sentStop"}, Send(k)
    PROVE  PcTypes' /\ ControlTypes'
<1>1. PICK c \in Calls : Goto(c, k) /\ inbox' = Append(inbox, c)
  BY DEF Send
<1>2. PcTypes'
  BY <1>1, GotoCallTypes DEF CallPc
<1>3. ControlTypes'
  BY <1>1 DEF ControlTypes
<1> QED
  BY <1>2, <1>3

LEMMA InitTypes == Init => TypeOK
<1> SUFFICES ASSUME Init PROVE TypeOK
  OBVIOUS
<1>1. PcTypes
  BY NamesAssumption DEF Init, ServiceInit, PcTypes, CallPc, JobPc
<1>2. StaticTypes /\ ObjectTypes
  BY DEF Init, ServiceInit, StaticTypes, ObjectTypes
<1>3. LockTypes
  BY DEF Init, ServiceInit, LockTypes
<1>4. ControlTypes
  BY DEF Init, ServiceInit, ControlTypes
<1>5. NativeTypes /\ CastTypes
  BY DEF Init, ServiceInit, NativeTypes, CastTypes
<1> QED
  BY <1>1, <1>2, <1>3, <1>4, <1>5 DEF Init, TypeOK, ServiceTypeOK

LEMMA DeliveredTypes ==
    ASSUME TypeOK, NEW c \in Calls, OnStart(c) \/ OnStop(c)
    PROVE  ServiceTypeOK'
<1>1. PICK l \in {"done", "startLock", "stopLock"} : Goto(c, l)
  BY DEF OnStart, OnStop
<1>2. PcTypes'
  BY <1>1, GotoCallTypes DEF CallPc, TypeOK, ServiceTypeOK
<1>3. LockTypes'
  BY LockingTypes DEF OnStart, OnStop, TypeOK, ServiceTypeOK
<1>4. PICK k : Delivered(c, k)
  BY DEF OnStart, OnStop
<1>5. StaticTypes' /\ ObjectTypes' /\ NativeTypes' /\ CastTypes'
  BY <1>4 DEF Delivered, TypeOK, ServiceTypeOK, StaticTypes, ObjectTypes,
              NativeTypes, CastTypes, static, native, cast
<1>6. ControlTypes'
  BY <1>4 DEF Delivered, TypeOK, ServiceTypeOK, ControlTypes
<1> QED
  BY <1>2, <1>3, <1>5, <1>6 DEF ServiceTypeOK

LEMMA OnDestroyTypes ==
    ASSUME TypeOK, OnDestroy
    PROVE  ServiceTypeOK'
<1>1. PcTypes'
  BY NamesAssumption
     DEF OnDestroy, TypeOK, ServiceTypeOK, PcTypes, CallPc, JobPc
<1>2. StaticTypes' /\ ObjectTypes'
  BY DEF OnDestroy, TypeOK, ServiceTypeOK, StaticTypes, ObjectTypes, static
<1>3. LockTypes'
  BY DEF OnDestroy, LockTypes
<1>4. ControlTypes'
  BY DEF OnDestroy, TypeOK, ServiceTypeOK, ControlTypes
<1>5. NativeTypes' /\ CastTypes'
  BY DEF OnDestroy, TypeOK, ServiceTypeOK, NativeTypes, CastTypes, native, cast
<1> QED
  BY <1>1, <1>2, <1>3, <1>4, <1>5 DEF ServiceTypeOK

LEMMA EnterStartTypes ==
    ASSUME TypeOK, NEW c \in Calls, EnterStart(c)
    PROVE  ServiceTypeOK'
<1>1. PcTypes'
  BY NamesAssumption
     DEF EnterStart, Goto, TypeOK, ServiceTypeOK, PcTypes, CallPc, JobPc
<1>2. LockTypes'
  BY LockingTypes DEF EnterStart, TypeOK, ServiceTypeOK
<1>3. StaticTypes' /\ CastTypes'
  BY HaltTypes DEF EnterStart, Halt, TypeOK, ServiceTypeOK
<1>4. ObjectTypes'
  BY DEF EnterStart, Halt, TypeOK, ServiceTypeOK, ObjectTypes
<1>5. ControlTypes' /\ NativeTypes'
  BY DEF EnterStart, TypeOK, ServiceTypeOK, ControlTypes, NativeTypes, native
<1> QED
  BY <1>1, <1>2, <1>3, <1>4, <1>5 DEF ServiceTypeOK

LEMMA FinishTypes ==
    ASSUME TypeOK, NEW c \in Calls, Finish(c), UNCHANGED faults
    PROVE  /\ PcTypes' /\ StaticTypes' /\ CastTypes'
           /\ proxyJob' = Null
           /\ inbox' \in Seq(Calls \cup {"destroy"})
<1>1. PcTypes'
  BY GotoCallTypes DEF Finish, TypeOK, ServiceTypeOK, CallPc
<1>2. StaticTypes' /\ CastTypes'
  BY HaltTypes DEF Finish, Halt, TypeOK, ServiceTypeOK
<1> QED
  BY <1>1, <1>2 DEF Finish, Halt, StopSelf, TypeOK, ServiceTypeOK, ControlTypes

\* EnterStop() either finishes or leaves what Finish() changes, except pc.
LEMMA EnterStopCases ==
    ASSUME NEW c \in Calls, EnterStop(c)
    PROVE  \/ Finish(c)
           \/ /\ UNCHANGED <<inbox, static, proxyJob, cast>>
              /\ UNCHANGED pc \/ Goto(c, "join")
BY DEF EnterStop, control

LEMMA EnterStopTypes ==
    ASSUME TypeOK, NEW c \in Calls, EnterStop(c)
    PROVE  ServiceTypeOK'
<1>1. /\ PcTypes' /\ StaticTypes' /\ CastTypes'
      /\ proxyJob' \in Jobs \cup {Null}
      /\ inbox' \in Seq(Calls \cup {"destroy"})
  <2>1. CASE Finish(c)
    BY <2>1, FinishTypes DEF EnterStop
  <2>2. CASE /\ UNCHANGED <<inbox, static, proxyJob, cast>>
             /\ UNCHANGED pc \/ Goto(c, "join")
    <3>1. PcTypes'
      <4>1. CASE UNCHANGED pc
        BY <4>1 DEF TypeOK, ServiceTypeOK, PcTypes
      <4>2. CASE Goto(c, "join")
        BY <4>2, GotoCallTypes DEF TypeOK, ServiceTypeOK, CallPc
      <4> QED
        BY <2>2, <4>1, <4>2
    <3>2. UNCHANGED faults
      BY DEF EnterStop
    <3> QED
      BY <2>2, <3>1, <3>2
         DEF TypeOK, ServiceTypeOK, StaticTypes, CastTypes, ObjectTypes,
             ControlTypes, static, cast
  <2> QED
    BY <2>1, <2>2, EnterStopCases
<1>2. LockTypes'
  BY LockingTypes DEF EnterStop, TypeOK, ServiceTypeOK
<1>3. alive' \in BOOLEAN /\ fd' \in Jobs \cup {Null} /\ mine' \subseteq Jobs
  BY DEF EnterStop, TypeOK, ServiceTypeOK, ObjectTypes
<1>4. target' \in [Calls -> Jobs \cup {Null}]
  BY DEF EnterStop, TypeOK, ServiceTypeOK, ControlTypes, ObjectTypes, control
<1>5. NativeTypes'
  BY DEF EnterStop, TypeOK, ServiceTypeOK, NativeTypes, ObjectTypes, ShutDown
<1> QED
  BY <1>1, <1>2, <1>3, <1>4, <1>5 DEF ServiceTypeOK, ObjectTypes, ControlTypes

LEMMA JoinedTypes ==
    ASSUME TypeOK, NEW c \in Calls, Joined(c)
    PROVE  ServiceTypeOK'
<1>1. PcTypes'
  BY GotoCallTypes DEF Joined, TypeOK, ServiceTypeOK, CallPc
<1>2. LockTypes'
  BY LockingTypes DEF Joined, TypeOK, ServiceTypeOK
<1>3. StaticTypes' /\ ObjectTypes' /\ CastTypes'
  BY DEF Joined, TypeOK, ServiceTypeOK, StaticTypes, ObjectTypes, CastTypes,
         static, cast
<1>4. ControlTypes' /\ NativeTypes'
  BY DEF Joined, TypeOK, ServiceTypeOK, ControlTypes, NativeTypes, native
<1> QED
  BY <1>1, <1>2, <1>3, <1>4 DEF ServiceTypeOK

LEMMA StoppedTypes ==
    ASSUME TypeOK, NEW c \in Calls, Stopped(c)
    PROVE  ServiceTypeOK'
<1>1. /\ PcTypes' /\ StaticTypes' /\ CastTypes' /\ proxyJob' = Null
      /\ inbox' \in Seq(Calls \cup {"destroy"})
  BY FinishTypes DEF Stopped
<1>2. ObjectTypes' /\ LockTypes'
  BY <1>1 DEF Stopped, TypeOK, ServiceTypeOK, ObjectTypes, LockTypes, lock
<1>3. ControlTypes' /\ NativeTypes'
  BY <1>1 DEF Stopped, TypeOK, ServiceTypeOK, ControlTypes, NativeTypes, native
<1> QED
  BY <1>1, <1>2, <1>3 DEF ServiceTypeOK

\* RunProxy and Listener and CheckExit and Leave: the job and its socket only.
LEMMA LoopTypes ==
    ASSUME TypeOK, NEW j \in Jobs, RunProxy(j) \/ Listener(j) \/ CheckExit(j)
                                 \/ Leave(j)
    PROVE  ServiceTypeOK'
<1>1. PcTypes'
  <2>1. CASE UNCHANGED pc
    BY <2>1 DEF TypeOK, ServiceTypeOK, PcTypes
  <2>2. CASE \E l \in {"running", "failed", "check", "ended", "done"} : Goto(j, l)
    BY <2>2, GotoJobTypes DEF TypeOK, ServiceTypeOK, JobPc
  <2> QED
    BY <2>1, <2>2 DEF RunProxy, Listener, CheckExit, Leave
<1>2. StaticTypes' /\ CastTypes'
  BY DEF RunProxy, Listener, CheckExit, Leave, TypeOK, ServiceTypeOK,
         StaticTypes, CastTypes, static, cast
<1>3. ObjectTypes' /\ LockTypes'
  BY DEF RunProxy, Listener, CheckExit, Leave, TypeOK, ServiceTypeOK,
         ObjectTypes, LockTypes, object, lock
<1>4. ControlTypes'
  BY DEF RunProxy, Listener, CheckExit, Leave, TypeOK, ServiceTypeOK,
         ControlTypes
<1>5. NativeTypes'
  BY DEF RunProxy, Listener, CheckExit, Leave, TypeOK, ServiceTypeOK,
         NativeTypes, native
<1> QED
  BY <1>1, <1>2, <1>3, <1>4, <1>5 DEF ServiceTypeOK

LEMMA ReportedTypes ==
    ASSUME TypeOK, NEW j \in Jobs, Reported(j)
    PROVE  ServiceTypeOK'
<1>1. PcTypes'
  <2>1. \E l \in {"leaving", "done"} : Goto(j, l)
    BY DEF Reported
  <2> QED
    BY <2>1, GotoJobTypes DEF TypeOK, ServiceTypeOK, JobPc
<1>2. StaticTypes' /\ CastTypes'
  <2>1. CASE UNCHANGED <<static, cast>>
    BY <2>1 DEF Reported, TypeOK, ServiceTypeOK, StaticTypes, CastTypes, static,
                cast
  <2>2. CASE \E new \in {"Failed", "Disconnected"} : UpdateStatus(new)
    BY <2>2, HaltTypes DEF Reported, TypeOK, ServiceTypeOK
  <2> QED
    BY <2>1, <2>2 DEF Reported, Halt
<1>3. ObjectTypes' /\ LockTypes'
  BY DEF Reported, Halt, TypeOK, ServiceTypeOK, ObjectTypes, LockTypes, lock
<1>4. ControlTypes' /\ NativeTypes'
  BY DEF Reported, TypeOK, ServiceTypeOK, ControlTypes, NativeTypes, native
<1> QED
  BY <1>1, <1>2, <1>3, <1>4 DEF ServiceTypeOK

LEMMA ServiceTypes == TypeOK /\ ServiceStep /\ UNCHANGED ui => TypeOK'
<1> SUFFICES ASSUME TypeOK, ServiceStep, UNCHANGED ui PROVE TypeOK'
  OBVIOUS
<1>1. ServiceTypeOK'
  BY DeliveredTypes, OnDestroyTypes, EnterStartTypes, EnterStopTypes,
     JoinedTypes, StoppedTypes, LoopTypes, ReportedTypes
     DEF ServiceStep, CallStep, JobStep
<1> QED
  BY <1>1 DEF TypeOK, ui

\* What the receivers and the user leave alone.
LEMMA BesideTypes ==
    ASSUME TypeOK, UNCHANGED <<faults, object, lock, native, crashed>>
    PROVE  /\ ObjectTypes' /\ LockTypes' /\ NativeTypes'
           /\ UNCHANGED static => StaticTypes'
           /\ UNCHANGED <<inbox, control>> => PcTypes' /\ ControlTypes'
           /\ UNCHANGED cast => CastTypes'
<1>1. ObjectTypes' /\ LockTypes' /\ NativeTypes'
  BY DEF TypeOK, ServiceTypeOK, ObjectTypes, LockTypes, NativeTypes, object,
         lock, native
<1>2. UNCHANGED static => StaticTypes'
  BY DEF TypeOK, ServiceTypeOK, StaticTypes, static
<1>3. UNCHANGED <<inbox, control>> => PcTypes' /\ ControlTypes'
  BY DEF TypeOK, ServiceTypeOK, PcTypes, ControlTypes, control
<1>4. UNCHANGED cast => CastTypes'
  BY DEF TypeOK, ServiceTypeOK, CastTypes, cast
<1> QED
  BY <1>1, <1>2, <1>3, <1>4

LEMMA ShowTypes ==
    ASSUME TypeOK, NEW r \in Receivers, Show(r)
    PROVE  /\ activity' \in {"gone", "Halted", "Connecting", "Running"}
           /\ tile' \in {"INACTIVE", "ACTIVE", "UNAVAILABLE"}
BY DEF TypeOK, ServiceTypeOK, StaticTypes, Show, TileFor

LEMMA RegisterTypes ==
    ASSUME TypeOK, NEW r \in Receivers, Register(r) \/ Unregister(r)
    PROVE  CastTypes'
BY DEF TypeOK, ServiceTypeOK, CastTypes, Register, Unregister

LEMMA ReceiveTypes ==
    ASSUME TypeOK, NEW r \in Receivers, Receive(r)
    PROVE  TypeOK'
<1>1. CastTypes'
  BY DEF Receive, TypeOK, ServiceTypeOK, CastTypes
<1>2. ServiceTypeOK'
  BY <1>1, BesideTypes DEF Receive, ServiceTypeOK
<1> QED
  BY <1>2, ShowTypes DEF TypeOK, Receive

LEMMA WatchTypes ==
    ASSUME TypeOK, Open \/ Close \/ StartListening \/ StopListening
    PROVE  TypeOK'
<1>1. "activity" \in Receivers /\ "tile" \in Receivers
  BY ReceiversAssumption
<1>2. CastTypes'
  BY <1>1, RegisterTypes DEF Open, Close, StartListening, StopListening
<1>3. ServiceTypeOK'
  BY <1>2, BesideTypes
     DEF Open, Close, StartListening, StopListening, UiStep, ServiceTypeOK
<1>4. /\ activity' \in {"gone", "Halted", "Connecting", "Running"}
      /\ tile' \in {"INACTIVE", "ACTIVE", "UNAVAILABLE"}
  BY <1>1, ShowTypes DEF Open, Close, StartListening, StopListening, TypeOK, ui
<1> QED
  BY <1>3, <1>4 DEF TypeOK

LEMMA ClickTypes ==
    ASSUME TypeOK, Press \/ Tap
    PROVE  TypeOK'
<1>1. PcTypes' /\ ControlTypes'
  BY SendTypes DEF Press, Tap, SendStart, SendStop, TypeOK, ServiceTypeOK
<1>2. StaticTypes'
  BY DEF Press, Tap, UiStep, TypeOK, ServiceTypeOK, StaticTypes, static
<1>3. ServiceTypeOK'
  BY <1>1, <1>2, BesideTypes DEF Press, Tap, UiStep, ServiceTypeOK
<1>4. /\ activity' \in {"gone", "Halted", "Connecting", "Running"}
      /\ tile' \in {"INACTIVE", "ACTIVE", "UNAVAILABLE"}
  BY DEF Press, Tap, TypeOK
<1> QED
  BY <1>3, <1>4 DEF TypeOK

LEMMA NextTypes == TypeOK /\ [Next]_vars => TypeOK'
<1> SUFFICES ASSUME TypeOK, [Next]_vars PROVE TypeOK'
  OBVIOUS
<1>1. CASE ServiceStep /\ UNCHANGED ui
  BY <1>1, ServiceTypes
<1>2. CASE \E r \in Receivers : Receive(r)
  BY <1>2, ReceiveTypes
<1>3. CASE User
  BY <1>3, WatchTypes, ClickTypes DEF User
<1>4. CASE UNCHANGED vars
  <2>1. UNCHANGED <<faults, object, lock, native, crashed, static, inbox,
                    control, cast, ui>>
    BY <1>4 DEF vars, serviceVars
  <2>2. ServiceTypeOK'
    BY <2>1, BesideTypes DEF ServiceTypeOK
  <2> QED
    BY <2>1, <2>2 DEF TypeOK, ui
<1> QED
  BY <1>1, <1>2, <1>3, <1>4 DEF Next

\* Type correctness of the proxy-only service and its interface.
THEOREM TypesCorrect == Spec => []TypeOK
<1>1. Init => TypeOK
  BY InitTypes
<1>2. TypeOK /\ [Next]_vars => TypeOK'
  BY NextTypes
<1> QED
  BY <1>1, <1>2, PTL DEF Spec

-----------------------------------------------------------------------------
(* What the invariant gives                                                *)

LEMMA CalmIsSafe == IInv => NoCrash /\ ListenerIsOwned /\ StatusIsTrue
<1> SUFFICES ASSUME IInv, faults = {}
             PROVE  ~crashed /\ ListenerIsOwned /\ StatusIsTrue
  BY DEF NoCrash, ListenerIsOwned, StatusIsTrue
<1>1. Calm
  BY DEF IInv
<1>2. ListenerIsOwned
  BY <1>1 DEF Calm, ListenerIsOwned, Listening, StatusFollowsJob,
              SocketFollowsFd, Serving
<1>3. ASSUME Idle
      PROVE  status = "Connected" <=> \E j \in Jobs : Listening(j)
  <2>1. ASSUME NEW j \in Jobs, Listening(j) PROVE status = "Connected"
    BY <1>1, <2>1 DEF Calm, Listening, StatusFollowsJob, SocketFollowsFd, Serving
  <2>2. ASSUME status = "Connected" PROVE \E j \in Jobs : Listening(j)
    <3>1. proxyJob \in Jobs
      BY <1>1, <2>2 DEF IInv, TypeOK, ServiceTypeOK, ObjectTypes, Calm,
                        StatusFollowsJob
    <3>2. pc[proxyJob] = "running"
      BY <1>1, <2>2, <3>1, <1>3 DEF Calm, StatusFollowsJob, Serving, Idle
    <3>3. \A c \in Calls : pc[c] # "join"
      BY <1>3 DEF Idle
    <3> QED
      BY <1>1, <3>1, <3>2, <3>3 DEF Calm, SocketFollowsFd, Listening
  <2> QED
    BY <2>1, <2>2
<1> QED
  BY <1>1, <1>2, <1>3 DEF Calm, StatusIsTrue

LEMMA InitCalm == Init => IInv
<1> SUFFICES ASSUME Init PROVE IInv
  OBVIOUS
<1>1. \A x \in Calls \cup Jobs : pc[x] = "idle"
  BY DEF Init, ServiceInit
<1>2. DOMAIN inbox = {}
  BY DEF Init, ServiceInit
<1>3. \A j \in Jobs : sock[j] = "none"
  BY DEF Init, ServiceInit
<1>4. StatusFollowsJob /\ SocketFollowsFd
  BY <1>1, <1>3 DEF Init, ServiceInit, StatusFollowsJob, SocketFollowsFd, Serving
<1>5. Joiners /\ Starters /\ Stoppers /\ InboxOrder
  BY <1>1, <1>2 DEF Joiners, Starters, Stoppers, InboxOrder, Stopping
<1> QED
  BY <1>4, <1>5, InitTypes DEF Init, ServiceInit, IInv, Calm

-----------------------------------------------------------------------------
(* Facts used by the steps                                                 *)

LEMMA GotoMoves ==
    ASSUME TypeOK, NEW x \in Calls \cup Jobs, NEW l, Goto(x, l)
    PROVE  /\ pc'[x] = l
           /\ \A y \in Calls \cup Jobs : y # x => pc'[y] = pc[y]
BY DEF TypeOK, ServiceTypeOK, PcTypes, Goto

LEMMA Distinct == /\ \A c \in Calls : c \notin Jobs /\ c # Null /\ c # "destroy"
                  /\ \A j \in Jobs : j \notin Calls /\ j # Null
BY NamesAssumption

\* The main thread takes a message: nobody starts, and nobody stops unless the
\* service is connected.
LEMMA WhenReady ==
    ASSUME IInv, faults = {}, Ready
    PROVE  /\ \A j \in Jobs : pc[j] \notin {"launched", "leaving"}
           /\ \A c \in Calls : pc[c] \notin {"startLock", "tail"}
           /\ holder # Null => pc[holder] = "join"
           /\ status # "Connected" => holder = Null /\ \A c \in Calls : ~Stopping(c)
<1>1. Calm
  BY DEF IInv
<1>2. /\ \A j \in Jobs : pc[j] \notin {"launched", "leaving"}
      /\ \A c \in Calls : pc[c] = "join" => pc[target[c]] # "done"
  BY DEF Ready, Prompt
<1>3. holder # Null => pc[holder] = "join"
  BY DEF Ready, MainFree, Woken
<1>4. \A c \in Calls : pc[c] \notin {"startLock", "tail"}
  BY <1>1, <1>3, Distinct DEF Ready, MainFree, Calm, Starters
<1>5. ASSUME status # "Connected" PROVE \A c \in Calls : pc[c] # "join"
  BY <1>1, <1>2, <1>5 DEF Calm, Joiners
<1>6. ASSUME status # "Connected" PROVE holder = Null
  <2>1. holder \in Calls \cup {Null}
    BY DEF IInv, TypeOK, ServiceTypeOK, LockTypes
  <2> QED
    BY <2>1, <1>3, <1>5, <1>6
<1>7. ASSUME status # "Connected", NEW c \in Calls PROVE pc[c] # "stopLock"
  BY <1>1, <1>6, <1>7, Distinct DEF Calm, Stoppers
<1> QED
  BY <1>2, <1>3, <1>4, <1>5, <1>6, <1>7 DEF Stopping

\* A call that unlocks leaves every stop() that waits as the holder or waiting.
LEMMA UnlockKeeps ==
    ASSUME IInv, faults = {}, NEW c \in Calls, holder = c, Unlock,
           NEW d \in Calls, d # c, pc[d] = "stopLock"
    PROVE  \/ holder' = d
           \/ holder' # Null /\ \E i \in DOMAIN waiters' : waiters'[i] = d
<1>1. PICK i \in DOMAIN waiters : waiters[i] = d
  BY DEF IInv, Calm, Stoppers
<1>2. waiters \in Seq(Calls)
  BY DEF IInv, TypeOK, ServiceTypeOK, LockTypes
<1>3. waiters # << >>
  BY <1>1
<1>4. holder' = Head(waiters) /\ waiters' = Tail(waiters)
  BY <1>3 DEF Unlock
<1>5. Head(waiters) # Null
  BY <1>2, <1>3, TailOf, Distinct
<1>6. CASE i = 1
  BY <1>1, <1>2, <1>3, <1>4, <1>6, TailOf
<1>7. CASE i # 1
  <2>1. i - 1 \in DOMAIN Tail(waiters) /\ Tail(waiters)[i - 1] = waiters[i]
    BY <1>1, <1>2, <1>3, <1>7
  <2> QED
    BY <2>1, <1>1, <1>4, <1>5
<1> QED
  BY <1>6, <1>7

LEMMA InboxIs ==
    ASSUME TypeOK
    PROVE  /\ inbox \in Seq(Calls \cup {"destroy"})
           /\ \A i \in DOMAIN inbox : i \in Nat /\ inbox[i] \in Calls \cup {"destroy"}
BY DEF TypeOK, ServiceTypeOK, ControlTypes

LEMMA Shifted ==
    ASSUME TypeOK, inbox # << >>, inbox' = Tail(inbox)
    PROVE  /\ 1 \in DOMAIN inbox
           /\ \A i \in DOMAIN inbox' : /\ i + 1 \in DOMAIN inbox /\ 1 < i + 1
                                      /\ inbox'[i] = inbox[i + 1]
<1>1. \A i \in DOMAIN Tail(inbox) :
         i \in Nat /\ i > 0 /\ i + 1 \in DOMAIN inbox /\ Tail(inbox)[i] = inbox[i + 1]
  BY TailOf, InboxIs
<1>2. \A i \in DOMAIN Tail(inbox) : 1 < i + 1
  BY <1>1
<1>3. 1 \in DOMAIN inbox
  BY TailOf, InboxIs
<1> QED
  BY <1>1, <1>2, <1>3

\* The main thread takes the first message: the order of the others stays.
LEMMA TakenInOrder ==
    ASSUME IInv, faults = {}, inbox # << >>, inbox' = Tail(inbox),
           \A x \in Calls : pc'[x] # pc[x] =>
              pc'[x] \notin {"idle", "sentStart", "sentStop"},
           status' = status
    PROVE  InboxOrder'
<1> DEFINE q == Tail(inbox)
<1>1. \A i \in DOMAIN q : /\ i \in Nat /\ i + 1 \in DOMAIN inbox
                         /\ q[i] = inbox[i + 1]
  BY TailOf, InboxIs DEF IInv
<1>2. InboxOrder
  BY DEF IInv, Calm
<1>3. \A i \in DOMAIN q : \A k \in DOMAIN q : i < k => i + 1 < k + 1
  BY <1>1
<1> HIDE DEF q
<1>4. inbox' = q
  BY DEF q
<1>5. \A i \in DOMAIN q : q[i] \in Calls => pc'[q[i]] # "idle"
  BY <1>1, <1>2 DEF InboxOrder
<1>6. \A i \in DOMAIN q : q[i] = "destroy" => status' # "Connected"
  BY <1>1, <1>2 DEF InboxOrder
<1>7. ASSUME NEW i \in DOMAIN q, NEW k \in DOMAIN q, i < k
      PROVE  /\ q[i] \in Calls /\ pc'[q[i]] = "sentStart" => q[k] # "destroy"
             /\ q[k] \in Calls /\ pc'[q[k]] = "sentStart"
                  => ~(q[i] \in Calls /\ pc'[q[i]] = "sentStop")
  <2>1. i + 1 \in DOMAIN inbox /\ k + 1 \in DOMAIN inbox /\ i + 1 < k + 1
    BY <1>1, <1>3, <1>7
  <2>2. q[i] = inbox[i + 1] /\ q[k] = inbox[k + 1]
    BY <1>1
  <2> QED
    BY <1>2, <2>1, <2>2 DEF InboxOrder
<1> QED
  BY <1>4, <1>5, <1>6, <1>7 DEF InboxOrder

\* The inbox is left alone.
LEMMA SameOrder ==
    ASSUME InboxOrder, UNCHANGED inbox,
           \A x \in Calls : pc'[x] # pc[x] =>
              pc'[x] \notin {"idle", "sentStart", "sentStop"},
           status' = "Connected" => status = "Connected"
              \/ \A i \in DOMAIN inbox : inbox[i] # "destroy"
    PROVE  InboxOrder'
BY DEF InboxOrder

-----------------------------------------------------------------------------
(* Every step preserves the invariant: intents and onDestroy()             *)

\* What an intent that is delivered leaves as it was.
LEMMA DeliveredCalm ==
    ASSUME IInv, faults = {}, NEW c \in Calls, OnStart(c) \/ OnStop(c)
    PROVE  /\ StatusFollowsJob' /\ SocketFollowsFd' /\ InboxOrder' /\ ~crashed'
           /\ \A d \in Calls : d # c => pc'[d] = pc[d]
           /\ \A j \in Jobs : pc'[j] = pc[j]
           /\ inbox # << >> /\ inbox' = Tail(inbox) /\ inbox[1] = c
           /\ alive' /\ UNCHANGED <<status, proxyJob, fd, target>> /\ Ready
<1>1. PICK l \in {"done", "startLock", "stopLock"} : Goto(c, l)
  BY DEF OnStart, OnStop
<1>2. PICK k \in {"sentStart", "sentStop"} : Delivered(c, k)
  BY DEF OnStart, OnStop
<1>3. /\ pc'[c] = l
      /\ \A d \in Calls : d # c => pc'[d] = pc[d]
      /\ \A j \in Jobs : pc'[j] = pc[j]
  BY <1>1, GotoMoves, Distinct DEF IInv
<1>4. /\ Ready /\ inbox # << >> /\ inbox' = Tail(inbox) /\ Head(inbox) = c
      /\ pc[c] = k /\ alive'
      /\ UNCHANGED <<status, appStatus, proxyJob, fd, mine, target, sock, notExit,
                     crashed>>
  BY <1>2 DEF Delivered, static, native
<1>5. Calm
  BY DEF IInv
<1>6. StatusFollowsJob'
  <2>1. status = "Connected" => proxyJob \in Jobs
    BY <1>5 DEF IInv, TypeOK, ServiceTypeOK, ObjectTypes, Calm, StatusFollowsJob
  <2> QED
    BY <2>1, <1>3, <1>4, <1>5 DEF Calm, StatusFollowsJob
<1>7. SocketFollowsFd'
  BY <1>3, <1>4, <1>5 DEF Calm, SocketFollowsFd
<1>8. InboxOrder'
  BY <1>3, <1>4, TakenInOrder
<1>9. inbox[1] = c
  BY <1>4, TailOf, InboxIs DEF IInv
<1> QED
  BY <1>3, <1>4, <1>5, <1>6, <1>7, <1>8, <1>9 DEF Calm

LEMMA OnStartCalm ==
    ASSUME IInv, faults = {}, NEW c \in Calls, OnStart(c)
    PROVE  Calm'
<1>1. Calm
  BY DEF IInv
<1>2. pc[c] = "sentStart" /\ pc'[c] \in {"done", "startLock"}
  BY GotoMoves DEF OnStart, Delivered, IInv
<1>3. /\ inbox # << >> /\ inbox' = Tail(inbox) /\ inbox[1] = c /\ Ready
      /\ \A i \in DOMAIN inbox' : /\ i + 1 \in DOMAIN inbox /\ 1 < i + 1
                                 /\ inbox'[i] = inbox[i + 1]
      /\ 1 \in DOMAIN inbox
  BY DeliveredCalm, Shifted DEF IInv
<1>4. \A d \in Calls : ~Stopping(d)
  BY <1>1, <1>2, <1>3 DEF Calm, Stoppers
<1>5. holder = Null
  BY <1>3, <1>4, WhenReady DEF IInv, TypeOK, ServiceTypeOK, LockTypes, Stopping
<1>6. \A d \in Calls : ~Stopping(d)'
  BY <1>2, <1>4, DeliveredCalm DEF Stopping
<1>7. Joiners' /\ Stoppers'
  BY <1>6 DEF Joiners, Stoppers, Stopping
<1>8. Starters'
  <2>1. \A d \in Calls : d # c => pc'[d] # "startLock"
    BY <1>3, WhenReady, DeliveredCalm
  <2>2. \A i \in DOMAIN inbox' : inbox'[i] # "destroy"
    BY <1>1, <1>2, <1>3 DEF Calm, InboxOrder
  <2>3. ASSUME pc'[c] = "startLock" PROVE holder' = c /\ status # "Connected"
    BY <2>3, <1>2, <1>5, GotoMoves DEF OnStart, StartRefused, Lock, IInv
  <2> QED
    BY <1>6, <2>1, <2>2, <2>3, DeliveredCalm DEF Starters
<1> QED
  BY <1>7, <1>8, DeliveredCalm DEF Calm

LEMMA OnStopCalm ==
    ASSUME IInv, faults = {}, NEW c \in Calls, OnStop(c)
    PROVE  Calm'
<1>1. Calm
  BY DEF IInv
<1>2. pc[c] = "sentStop" /\ pc'[c] = "stopLock" /\ Lock(c)
  BY GotoMoves DEF OnStop, Delivered, IInv
<1>3. /\ inbox # << >> /\ inbox' = Tail(inbox) /\ inbox[1] = c /\ Ready
      /\ \A i \in DOMAIN inbox' : /\ i + 1 \in DOMAIN inbox /\ 1 < i + 1
                                 /\ inbox'[i] = inbox[i + 1]
      /\ 1 \in DOMAIN inbox
  BY DeliveredCalm, Shifted DEF IInv
<1>4. holder # Null => holder' = holder
  BY <1>2 DEF Lock
<1>5. Joiners'
  <2>1. status = "Connected" => proxyJob \in Jobs
    BY <1>1 DEF IInv, TypeOK, ServiceTypeOK, ObjectTypes, Calm, StatusFollowsJob
  <2>2. ASSUME NEW d \in Calls, pc'[d] = "join"
        PROVE  pc[d] = "join" /\ holder' = d
    BY <1>1, <1>2, <1>4, <2>2, Distinct, DeliveredCalm DEF Calm, Joiners
  <2> QED
    BY <1>1, <2>1, <2>2, DeliveredCalm DEF Calm, Joiners
<1>6. Starters'
  BY <1>2, <1>3, WhenReady, DeliveredCalm DEF Starters
<1>7. Stoppers'
  <2>1. \A j \in Jobs : pc'[j] # "launched"
    BY <1>3, WhenReady, DeliveredCalm
  <2>2. ASSUME NEW d \in Calls, pc'[d] = "stopLock"
        PROVE  \/ holder' = d
               \/ holder' # Null /\ \E i \in DOMAIN waiters' : waiters'[i] = d
    <3>1. waiters \in Seq(Calls)
      BY DEF IInv, TypeOK, ServiceTypeOK, LockTypes
    <3>2. /\ Len(waiters) + 1 \in DOMAIN Append(waiters, c)
          /\ Append(waiters, c)[Len(waiters) + 1] = c
          /\ \A i \in DOMAIN waiters : /\ i \in DOMAIN Append(waiters, c)
                                     /\ Append(waiters, c)[i] = waiters[i]
      BY <3>1
    <3>3. CASE d = c
      BY <1>2, <3>2, <3>3 DEF Lock
    <3>4. CASE d # c
      <4>1. pc[d] = "stopLock"
        BY <2>2, <3>4, DeliveredCalm
      <4>2. \/ holder = d
            \/ holder # Null /\ \E i \in DOMAIN waiters : waiters[i] = d
        BY <1>1, <4>1 DEF Calm, Stoppers
      <4>3. holder # Null /\ holder' = holder /\ waiters' = Append(waiters, c)
        BY <1>2, <4>2, Distinct DEF Lock
      <4> QED
        BY <3>2, <4>2, <4>3
    <3> QED
      BY <3>3, <3>4
  <2>3. \A d \in Calls : pc'[d] # "tail"
    BY <1>2, <1>3, WhenReady, DeliveredCalm
  <2>4. \A i \in DOMAIN inbox' : inbox'[i] \in Calls => pc'[inbox'[i]] # "sentStart"
    BY <1>1, <1>2, <1>3, DeliveredCalm DEF Calm, InboxOrder
  <2> QED
    BY <2>1, <2>2, <2>3, <2>4 DEF Stoppers
<1> QED
  BY <1>5, <1>6, <1>7, DeliveredCalm DEF Calm

LEMMA OnDestroyCalm ==
    ASSUME IInv, faults = {}, OnDestroy
    PROVE  Calm'
<1>1. Calm
  BY DEF IInv
<1>2. /\ Ready /\ inbox # << >> /\ Head(inbox) = "destroy" /\ inbox' = Tail(inbox)
      /\ proxyJob' = Null /\ fd' = Null
      /\ UNCHANGED <<status, appStatus, sock, notExit, crashed>>
  BY DEF OnDestroy, static, native
<1>3. status # "Connected"
  BY <1>1, <1>2, TailOf, InboxIs DEF IInv, Calm, InboxOrder
<1>4. \A d \in Calls : ~Stopping(d) /\ pc[d] # "startLock"
  BY <1>2, <1>3, WhenReady
<1>5. \A j \in Jobs : pc[j] \notin Serving
  BY <1>1, <1>3 DEF Calm, StatusFollowsJob
<1>6. \A x \in Calls \cup Jobs : pc'[x] = pc[x]
  <2>1. ASSUME NEW c \in Calls PROVE pc'[c] = pc[c]
    BY <1>4, Distinct
       DEF OnDestroy, Stopping, IInv, TypeOK, ServiceTypeOK, PcTypes, CallPc
  <2>2. ASSUME NEW j \in Jobs PROVE pc'[j] = pc[j]
    BY <1>5, Distinct
       DEF OnDestroy, Serving, IInv, TypeOK, ServiceTypeOK, PcTypes, JobPc
  <2> QED
    BY <2>1, <2>2
<1>7. InboxOrder'
  BY <1>2, <1>6, TakenInOrder
<1>8. StatusFollowsJob' /\ SocketFollowsFd'
  BY <1>1, <1>2, <1>3, <1>5, <1>6
     DEF Calm, StatusFollowsJob, SocketFollowsFd, Serving
<1>9. Joiners' /\ Starters' /\ Stoppers'
  BY <1>4, <1>6 DEF Joiners, Starters, Stoppers, Stopping
<1> QED
  BY <1>1, <1>2, <1>7, <1>8, <1>9 DEF Calm

-----------------------------------------------------------------------------
(* Every step preserves the invariant: start() and stop()                  *)

LEMMA EnterStartCalm ==
    ASSUME IInv, faults = {}, NEW c \in Calls, EnterStart(c)
    PROVE  Calm'
<1>1. Calm /\ TypeOK
  BY DEF IInv
<1>2. /\ holder = c /\ alive /\ status # "Connected" /\ pc[c] = "startLock"
      /\ \A d \in Calls : ~Stopping(d)
      /\ \A i \in DOMAIN inbox : inbox[i] # "destroy"
      /\ proxyJob = Null
  BY <1>1 DEF EnterStart, Calm, Starters, StatusFollowsJob
<1>3. PICK j \in Jobs :
         /\ pc[j] = "idle" /\ fd' = Null /\ proxyJob' = j /\ mine' = mine \cup {j}
         /\ pc' = [pc EXCEPT ![c] = "done", ![j] = "launched"]
         /\ UpdateStatus("Connected")
  BY <1>2 DEF EnterStart, Fresh
<1>4. /\ pc'[c] = "done" /\ pc'[j] = "launched"
      /\ \A d \in Calls : d # c => pc'[d] = pc[d]
      /\ \A k \in Jobs : k # j => pc'[k] = pc[k]
  BY <1>1, <1>3, Distinct DEF TypeOK, ServiceTypeOK, PcTypes
<1>5. UNCHANGED <<inbox, alive, target, sock, notExit, crashed>>
  BY DEF EnterStart, native
<1>6. status' = "Connected" /\ appStatus' = "Running"
  BY <1>3 DEF UpdateStatus
<1>7. \A k \in Jobs : pc[k] \notin Serving /\ sock[k] # "open"
  BY <1>1, <1>2 DEF Calm, StatusFollowsJob, SocketFollowsFd, Serving
<1>8. \A d \in Calls : ~Stopping(d)' /\ pc'[d] # "startLock"
  BY <1>1, <1>2, <1>4 DEF Calm, Starters, Stopping
<1>9. StatusFollowsJob'
  BY <1>1, <1>2, <1>3, <1>4, <1>5, <1>6, <1>7
     DEF Calm, StatusFollowsJob, Serving
<1>10. SocketFollowsFd'
  BY <1>3, <1>4, <1>5, <1>7 DEF SocketFollowsFd, Serving
<1>11. Joiners' /\ Starters' /\ Stoppers'
  BY <1>8 DEF Joiners, Starters, Stoppers, Stopping
<1>12. InboxOrder'
  BY <1>1, <1>2, <1>4, <1>5, SameOrder DEF Calm
<1> QED
  BY <1>1, <1>5, <1>9, <1>10, <1>11, <1>12 DEF Calm

\* The facts of a stop() that is inside the mutex.
LEMMA InsideStop ==
    ASSUME IInv, faults = {}, NEW c \in Calls, pc[c] = "stopLock", holder = c
    PROVE  /\ \A d \in Calls : pc[d] \notin {"startLock", "join"}
           /\ \A j \in Jobs : pc[j] # "launched"
           /\ status = "Connected" =>
                /\ fd \in Jobs /\ proxyJob = fd
                /\ pc[fd] = "running" /\ sock[fd] = "open"
<1>1. Calm
  BY DEF IInv
<1>2. Stopping(c)
  BY DEF Stopping
<1>3. \A d \in Calls : pc[d] \notin {"startLock", "join"}
  BY <1>1, <1>2 DEF Calm, Starters, Joiners
<1>4. \A j \in Jobs : pc[j] # "launched"
  BY <1>1 DEF Calm, Stoppers
<1>5. ASSUME status = "Connected"
      PROVE  /\ fd \in Jobs /\ proxyJob = fd
             /\ pc[fd] = "running" /\ sock[fd] = "open"
  <2>1. proxyJob \in Jobs /\ pc[proxyJob] \in Serving
    BY <1>1, <1>5 DEF IInv, TypeOK, ServiceTypeOK, ObjectTypes, Calm,
                      StatusFollowsJob
  <2>2. pc[proxyJob] = "running" /\ sock[proxyJob] = "open"
    BY <1>1, <1>3, <1>4, <2>1 DEF Calm, SocketFollowsFd, Serving
  <2>3. fd = proxyJob
    BY <1>1, <2>1, <2>2 DEF Calm, SocketFollowsFd
  <2> QED
    BY <2>1, <2>2, <2>3
<1> QED
  BY <1>3, <1>4, <1>5

\* A stop() that tears nothing down reports its end and asks for that of the
\* object, after its unlock() or in one step with it.
LEMMA FinishCalm ==
    ASSUME IInv, faults = {}, NEW c \in Calls, Stopping(c), Finish(c),
           status # "Connected",
           UNCHANGED lock \/ (holder = c /\ Unlock),
           UNCHANGED <<alive, fd, target, sock, notExit, crashed>>
    PROVE  Calm'
<1>1. Calm /\ TypeOK
  BY DEF IInv
<1>2. /\ status' = "Disconnected" /\ appStatus' = "Halted"
      /\ proxyJob' = Null /\ StopSelf /\ Goto(c, "done")
  BY DEF Finish, Halt, UpdateStatus
<1>3. \A j \in Jobs : pc[j] \notin Serving
  BY <1>1 DEF Calm, StatusFollowsJob
<1>4. /\ pc'[c] = "done"
      /\ \A d \in Calls : d # c => pc'[d] = pc[d]
      /\ \A j \in Jobs : pc'[j] = pc[j]
  BY <1>1, <1>2, GotoMoves, Distinct
<1>5. StatusFollowsJob' /\ SocketFollowsFd'
  BY <1>1, <1>2, <1>3, <1>4 DEF Calm, StatusFollowsJob, SocketFollowsFd, Serving
<1>6. Joiners'
  <2>1. ASSUME NEW d \in Calls, pc'[d] = "join"
        PROVE  /\ holder' = d /\ fd = Null /\ target[d] \in Jobs
               /\ pc[target[d]] \in {"leaving", "done"}
    <3>1. d # c /\ pc[d] = "join"
      BY <1>4, <2>1
    <3>2. /\ holder = d /\ fd = Null /\ target[d] \in Jobs
          /\ pc[target[d]] \in {"leaving", "done"}
      BY <1>1, <3>1 DEF Calm, Joiners
    <3> QED
      BY <3>1, <3>2 DEF lock
  <2> QED
    BY <1>2, <1>4, <2>1 DEF Joiners
<1>7. Starters'
  BY <1>1, <1>4 DEF Calm, Starters
<1>8. \A i \in DOMAIN inbox : inbox[i] \in Calls => pc[inbox[i]] # "sentStart"
  BY <1>1 DEF Calm, Stoppers
<1>9. \A i \in DOMAIN inbox' :
          \/ i \in DOMAIN inbox /\ inbox'[i] = inbox[i]
          \/ inbox'[i] = "destroy"
  BY <1>1, <1>2, InboxIs, AppendTo DEF StopSelf
<1>10. \A i \in DOMAIN inbox' : inbox'[i] \in Calls => pc'[inbox'[i]] # "sentStart"
  BY <1>4, <1>8, <1>9, Distinct
<1>11. Stoppers'
  <2>1. ASSUME NEW d \in Calls, pc'[d] = "stopLock"
        PROVE  /\ \/ holder' = d
                  \/ holder' # Null /\ \E i \in DOMAIN waiters' : waiters'[i] = d
               /\ \A j \in Jobs : pc'[j] # "launched"
    <3>1. d # c /\ pc[d] = "stopLock"
      BY <1>4, <2>1
    <3>2. CASE UNCHANGED lock
      BY <1>1, <1>4, <3>1, <3>2 DEF Calm, Stoppers, lock
    <3>3. CASE holder = c /\ Unlock
      BY <1>3, <1>4, <3>1, <3>3, UnlockKeeps DEF Serving
    <3> QED
      BY <3>2, <3>3
  <2> QED
    BY <1>2, <1>10, <2>1 DEF Stoppers
<1>12. InboxOrder'
  BY <1>1, <1>2, <1>4, <1>9, <1>10, Distinct DEF Calm, InboxOrder
<1> QED
  BY <1>1, <1>5, <1>6, <1>7, <1>11, <1>12 DEF Calm

LEMMA EnterStopCalm ==
    ASSUME IInv, faults = {}, NEW c \in Calls, EnterStop(c)
    PROVE  Calm'
<1>1. Calm /\ TypeOK
  BY DEF IInv
<1>2. pc[c] = "stopLock" /\ holder = c
  BY DEF EnterStop
<1>3. UNCHANGED <<alive, mine, notExit>>
  BY DEF EnterStop
<1>4. status \in {"Connected", "Disconnected"}
  BY <1>1 DEF Calm, StatusFollowsJob
<1>5. CASE StopRefused
  <2>1. Unlock /\ Finish(c) /\ UNCHANGED <<target, fd, sock, crashed>>
    BY <1>5 DEF EnterStop
  <2>2. status # "Connected"
    BY <1>5 DEF StopRefused
  <2> QED
    BY <1>2, <1>3, <2>1, <2>2, FinishCalm DEF Stopping
<1>6. CASE ~StopRefused
  <2>1. /\ status = "Connected" /\ fd \in Jobs /\ proxyJob = fd /\ fd # Null
        /\ pc[fd] = "running" /\ sock[fd] = "open"
    BY <1>2, <1>4, <1>6, InsideStop, Distinct DEF StopRefused
  <2>2. /\ sock' = [sock EXCEPT ![fd] = "shut"] /\ fd' = Null
        /\ target' = [target EXCEPT ![c] = proxyJob]
        /\ Goto(c, "join") /\ UNCHANGED <<inbox, static, proxyJob, lock, crashed>>
    BY <1>6, <2>1 DEF EnterStop, ShutDown
  <2>3. /\ pc'[c] = "join"
        /\ \A d \in Calls : d # c => pc'[d] = pc[d]
        /\ \A j \in Jobs : pc'[j] = pc[j]
    BY <1>1, <2>2, GotoMoves, Distinct
  <2>4. target'[c] = proxyJob
    BY <1>1, <2>2 DEF TypeOK, ServiceTypeOK, ControlTypes
  <2>5. StatusFollowsJob'
    BY <1>1, <1>3, <2>1, <2>2, <2>3 DEF Calm, StatusFollowsJob, static
  <2>6. SocketFollowsFd'
    <3>1. \A j \in Jobs : sock'[j] # "open"
      BY <1>1, <2>1, <2>2
         DEF TypeOK, ServiceTypeOK, NativeTypes, Calm, SocketFollowsFd
    <3> QED
      BY <2>2, <2>3, <3>1 DEF SocketFollowsFd
  <2>7. Joiners'
    <3>1. \A d \in Calls : pc'[d] = "join" => d = c
      BY <1>2, <2>3, InsideStop
    <3> QED
      BY <1>2, <2>1, <2>2, <2>3, <2>4, <3>1 DEF Joiners, lock, static
  <2>8. Starters'
    BY <1>2, <2>3, InsideStop DEF Starters
  <2>9. Stoppers'
    <3>1. ASSUME NEW d \in Calls, pc'[d] = "stopLock"
          PROVE  /\ \/ holder' = d
                    \/ holder' # Null /\ \E i \in DOMAIN waiters' : waiters'[i] = d
                 /\ \A j \in Jobs : pc'[j] # "launched"
      BY <1>1, <2>2, <2>3, <3>1 DEF Calm, Stoppers, lock
    <3>2. \A i \in DOMAIN inbox : inbox[i] \in Calls => pc'[inbox[i]] # "sentStart"
      BY <1>1, <1>2, <2>3 DEF Calm, Stoppers, Stopping
    <3>3. \A d \in Calls : pc'[d] # "tail"
      BY <1>1, <2>1, <2>3 DEF Calm, Stoppers
    <3> QED
      BY <2>2, <3>1, <3>2, <3>3 DEF Stoppers
  <2>10. InboxOrder'
    BY <1>1, <2>2, <2>3, SameOrder DEF Calm, static
  <2> QED
    BY <1>1, <2>2, <2>5, <2>6, <2>7, <2>8, <2>9, <2>10 DEF Calm
<1> QED
  BY <1>5, <1>6

LEMMA JoinedCalm ==
    ASSUME IInv, faults = {}, NEW c \in Calls, Joined(c)
    PROVE  Calm'
<1>1. Calm /\ TypeOK
  BY DEF IInv
<1>2. /\ pc[c] = "join" /\ pc[target[c]] = "done" /\ MainFree /\ proxyJob' = Null
      /\ Unlock /\ Goto(c, "tail")
      /\ UNCHANGED <<inbox, status, appStatus, alive, fd, target, sock, notExit,
                     crashed>>
  BY DEF Joined, JobEnded, static, native
<1>3. holder = c /\ \A d \in Calls : pc[d] = "join" => d = c
  BY <1>1, <1>2 DEF Calm, Joiners
<1>4. status # "Connected"
  BY <1>1, <1>2 DEF Calm, Joiners, StatusFollowsJob, Serving
<1>5. \A j \in Jobs : pc[j] \notin Serving
  BY <1>1, <1>4 DEF Calm, StatusFollowsJob
<1>6. /\ pc'[c] = "tail"
      /\ \A d \in Calls : d # c => pc'[d] = pc[d]
      /\ \A j \in Jobs : pc'[j] = pc[j]
  BY <1>1, <1>2, GotoMoves, Distinct
<1>7. StatusFollowsJob' /\ SocketFollowsFd'
  BY <1>1, <1>2, <1>4, <1>5, <1>6
     DEF Calm, StatusFollowsJob, SocketFollowsFd, Serving
<1>8. Joiners' /\ Starters'
  BY <1>1, <1>2, <1>3, <1>6 DEF Calm, Joiners, Starters, Stopping
<1>9. Stoppers'
  <2>1. ASSUME NEW d \in Calls, pc'[d] = "stopLock"
        PROVE  /\ \/ holder' = d
                  \/ holder' # Null /\ \E i \in DOMAIN waiters' : waiters'[i] = d
               /\ \A j \in Jobs : pc'[j] # "launched"
    BY <1>2, <1>3, <1>5, <1>6, <2>1, UnlockKeeps DEF Serving
  <2>2. \A i \in DOMAIN inbox : inbox[i] \in Calls => pc'[inbox[i]] # "sentStart"
    BY <1>1, <1>2, <1>6 DEF Calm, Stoppers, Stopping
  <2> QED
    BY <1>2, <1>4, <2>1, <2>2 DEF Stoppers
<1>10. InboxOrder'
  BY <1>1, <1>2, <1>6, SameOrder DEF Calm
<1> QED
  BY <1>1, <1>2, <1>7, <1>8, <1>9, <1>10 DEF Calm

LEMMA StoppedCalm ==
    ASSUME IInv, faults = {}, NEW c \in Calls, Stopped(c)
    PROVE  Calm'
<1>1. pc[c] = "tail" /\ status # "Connected"
  BY DEF Stopped, IInv, Calm, Stoppers
<1> QED
  BY <1>1, FinishCalm DEF Stopped, Stopping, native

-----------------------------------------------------------------------------
(* Every step preserves the invariant: a loop job                          *)

\* What the steps of a job leave as it was.
LEMMA JobFrame ==
    ASSUME IInv, faults = {}, NEW j \in Jobs, NEW l, l # "launched", Goto(j, l),
           UNCHANGED <<inbox, alive, lock, target>>,
           status' = status \/ status' = "Disconnected"
    PROVE  /\ Starters' /\ Stoppers' /\ InboxOrder'
           /\ \A c \in Calls : pc'[c] = pc[c]
           /\ pc'[j] = l /\ \A k \in Jobs : k # j => pc'[k] = pc[k]
<1>1. Calm /\ TypeOK
  BY DEF IInv
<1>2. /\ \A c \in Calls : pc'[c] = pc[c]
      /\ pc'[j] = l /\ \A k \in Jobs : k # j => pc'[k] = pc[k]
  BY <1>1, GotoMoves, Distinct
<1>3. Starters'
  BY <1>1, <1>2 DEF Calm, Starters, Stopping, lock
<1>4. Stoppers'
  BY <1>1, <1>2 DEF Calm, Stoppers, Stopping, lock
<1>5. InboxOrder'
  BY <1>1, <1>2, SameOrder DEF Calm
<1> QED
  BY <1>2, <1>3, <1>4, <1>5

LEMMA RunProxyCalm ==
    ASSUME IInv, faults = {}, NEW j \in Jobs, RunProxy(j)
    PROVE  Calm'
<1>1. Calm /\ TypeOK
  BY DEF IInv
<1>2. pc[j] = "launched" /\ status = "Connected" /\ proxyJob = j
  BY <1>1 DEF RunProxy, Calm, StatusFollowsJob, Serving
<1>3. fd = Null
  <2>1. ASSUME fd \in Jobs PROVE FALSE
    <3>1. pc[fd] = "running"
      BY <1>1, <2>1, Distinct DEF Calm, SocketFollowsFd
    <3>2. proxyJob = fd
      BY <1>1, <2>1, <3>1 DEF Calm, StatusFollowsJob, Serving
    <3> QED
      BY <1>2, <3>1, <3>2
  <2> QED
    BY <1>1, <2>1 DEF TypeOK, ServiceTypeOK, ObjectTypes
<1>4. /\ Goto(j, "running") /\ fd' = j /\ notExit' = TRUE
      /\ sock' = [sock EXCEPT ![j] = "open"] /\ UNCHANGED crashed
      /\ UNCHANGED <<inbox, status, appStatus, alive, proxyJob, mine, lock, target>>
  BY <1>3 DEF RunProxy, static
<1>5. /\ Starters' /\ Stoppers' /\ InboxOrder'
      /\ \A c \in Calls : pc'[c] = pc[c]
      /\ pc'[j] = "running" /\ \A k \in Jobs : k # j => pc'[k] = pc[k]
  BY <1>4, JobFrame
<1>6. StatusFollowsJob'
  BY <1>1, <1>2, <1>4, <1>5 DEF Calm, StatusFollowsJob, Serving
<1>7. /\ sock'[j] = "open"
      /\ \A k \in Jobs : k # j => sock'[k] = sock[k] /\ sock[k] # "open"
  BY <1>1, <1>3, <1>4, Distinct
     DEF TypeOK, ServiceTypeOK, NativeTypes, Calm, SocketFollowsFd
<1>8. SocketFollowsFd'
  BY <1>1, <1>4, <1>5, <1>7 DEF Calm, SocketFollowsFd
<1>9. \A c \in Calls : pc[c] # "join"
  BY <1>1, <1>2 DEF Calm, Joiners
<1>10. Joiners'
  BY <1>5, <1>9 DEF Joiners
<1> QED
  BY <1>1, <1>4, <1>5, <1>6, <1>8, <1>10 DEF Calm

\* A loop whose socket was shut down goes on to its end.
LEMMA WindDownCalm ==
    ASSUME IInv, faults = {}, NEW j \in Jobs,
           NEW l \in {"running", "check", "ended"}, Goto(j, l),
           pc[j] \in {"running", "check"}, sock[j] # "open",
           \A k \in Jobs : sock'[k] = sock[k] \/ (k = j /\ sock'[k] # "open"),
           UNCHANGED <<inbox, static, object, lock, target, crashed>>
    PROVE  Calm'
<1>1. Calm /\ TypeOK
  BY DEF IInv
<1>2. UNCHANGED <<status, appStatus, alive, proxyJob, fd, mine>>
  BY DEF static, object
<1>3. /\ Starters' /\ Stoppers' /\ InboxOrder'
      /\ \A c \in Calls : pc'[c] = pc[c]
      /\ pc'[j] = l /\ \A k \in Jobs : k # j => pc'[k] = pc[k]
  BY <1>2, JobFrame
<1>4. status = "Connected" /\ proxyJob = j
  BY <1>1 DEF Calm, StatusFollowsJob, Serving
<1>5. PICK c \in Calls : pc[c] = "join"
  BY <1>1 DEF Calm, SocketFollowsFd
<1>6. fd = Null
  BY <1>1, <1>5 DEF Calm, Joiners
<1>7. \A k \in Jobs : sock[k] # "open" /\ sock'[k] # "open"
  BY <1>1, <1>6, Distinct DEF Calm, SocketFollowsFd
<1>8. StatusFollowsJob'
  BY <1>1, <1>2, <1>3, <1>4 DEF Calm, StatusFollowsJob, Serving
<1>9. SocketFollowsFd'
  BY <1>2, <1>3, <1>5, <1>6, <1>7 DEF SocketFollowsFd
<1>10. Joiners'
  BY <1>1, <1>2, <1>3, <1>4 DEF Calm, Joiners, lock
<1> QED
  BY <1>1, <1>3, <1>8, <1>9, <1>10 DEF Calm

LEMMA ListenerCalm ==
    ASSUME IInv, faults = {}, NEW j \in Jobs, Listener(j) \/ CheckExit(j)
    PROVE  Calm'
<1>1. Calm /\ TypeOK
  BY DEF IInv
<1>2. UNCHANGED <<inbox, static, object, lock, target, crashed>>
  BY DEF Listener, CheckExit
<1>3. CASE Listener(j)
  <2>1. sock[j] = "shut"
    BY <1>3 DEF Listener
  <2> QED
    BY <1>2, <1>3, <2>1, WindDownCalm DEF Listener
<1>4. CASE CheckExit(j)
  <2>1. sock[j] # "open"
    BY <1>1, <1>4 DEF CheckExit, Calm, SocketFollowsFd
  <2>2. \A k \in Jobs : sock'[k] = sock[k] \/ (k = j /\ sock'[k] # "open")
    BY <1>1, <1>4 DEF CheckExit, TypeOK, ServiceTypeOK, NativeTypes
  <2>3. PICK l \in {"running", "ended"} : Goto(j, l)
    BY <1>4 DEF CheckExit
  <2>4. pc[j] \in {"running", "check"}
    BY <1>4 DEF CheckExit
  <2> QED
    BY <1>2, <2>1, <2>2, <2>3, <2>4, WindDownCalm
<1> QED
  BY <1>3, <1>4

LEMMA ReportedCalm ==
    ASSUME IInv, faults = {}, NEW j \in Jobs, Reported(j)
    PROVE  Calm'
<1>1. Calm /\ TypeOK
  BY DEF IInv
<1>2. pc[j] = "ended"
  BY <1>1 DEF Reported, Calm, StatusFollowsJob
<1>3. status = "Connected" /\ proxyJob = j /\ j \in mine
  BY <1>1, <1>2 DEF Calm, StatusFollowsJob, Serving
<1>4. /\ status' = "Disconnected" /\ appStatus' = "Halted" /\ proxyJob' = Null
      /\ Goto(j, "leaving")
      /\ UNCHANGED <<inbox, alive, fd, mine, lock, target, sock, notExit, crashed>>
  BY <1>2, <1>3 DEF Reported, Halt, UpdateStatus, native
<1>5. /\ Starters' /\ Stoppers' /\ InboxOrder'
      /\ \A c \in Calls : pc'[c] = pc[c]
      /\ pc'[j] = "leaving" /\ \A k \in Jobs : k # j => pc'[k] = pc[k]
  BY <1>4, JobFrame
<1>6. \A k \in Jobs : pc'[k] \notin Serving
  BY <1>1, <1>3, <1>5 DEF Calm, StatusFollowsJob, Serving
<1>7. StatusFollowsJob'
  BY <1>1, <1>4, <1>5, <1>6 DEF Calm, StatusFollowsJob
<1>8. SocketFollowsFd'
  <2>1. \A k \in Jobs : sock[k] # "open"
    BY <1>1, <1>2, <1>3 DEF Calm, StatusFollowsJob, SocketFollowsFd, Serving
  <2>2. fd = Null
    BY <1>1, <2>1 DEF TypeOK, ServiceTypeOK, ObjectTypes, Calm, SocketFollowsFd
  <2> QED
    BY <1>4, <1>6, <2>1, <2>2 DEF SocketFollowsFd, Serving
<1>9. Joiners'
  BY <1>1, <1>3, <1>4, <1>5 DEF Calm, Joiners, lock
<1> QED
  BY <1>1, <1>4, <1>5, <1>7, <1>8, <1>9 DEF Calm

LEMMA LeaveCalm ==
    ASSUME IInv, faults = {}, NEW j \in Jobs, Leave(j)
    PROVE  Calm'
<1>1. Calm /\ TypeOK
  BY DEF IInv
<1>2. /\ pc[j] = "leaving" /\ Goto(j, "done")
      /\ UNCHANGED <<inbox, status, appStatus, alive, proxyJob, fd, mine, lock,
                     target, sock, notExit, crashed>>
  BY DEF Leave, static, object, native
<1>3. /\ Starters' /\ Stoppers' /\ InboxOrder'
      /\ \A c \in Calls : pc'[c] = pc[c]
      /\ pc'[j] = "done" /\ \A k \in Jobs : k # j => pc'[k] = pc[k]
  BY <1>2, JobFrame
<1>4. status = "Connected" => proxyJob \in Jobs /\ proxyJob # j
  BY <1>1, <1>2 DEF TypeOK, ServiceTypeOK, ObjectTypes, Calm, StatusFollowsJob,
                    Serving
<1>5. StatusFollowsJob'
  BY <1>1, <1>2, <1>3, <1>4 DEF Calm, StatusFollowsJob, Serving
<1>6. SocketFollowsFd'
  BY <1>1, <1>2, <1>3 DEF Calm, SocketFollowsFd
<1>7. Joiners'
  BY <1>1, <1>2, <1>3, <1>4 DEF Calm, Joiners, lock
<1> QED
  BY <1>1, <1>2, <1>3, <1>5, <1>6, <1>7 DEF Calm

-----------------------------------------------------------------------------
(* Every step preserves the invariant: receivers and clicks                *)

LEMMA BesideCalm ==
    ASSUME IInv, faults = {}, UNCHANGED <<inbox, static, object, lock, control,
                                          native, crashed>>
    PROVE  Calm'
<1>1. Calm
  BY DEF IInv
<1>2. UNCHANGED <<inbox, status, appStatus, alive, proxyJob, fd, mine, holder,
                  waiters, pc, target, sock, notExit, crashed>>
  BY DEF static, object, lock, control, native
<1>3. StatusFollowsJob' /\ SocketFollowsFd' /\ Joiners'
  BY <1>1, <1>2 DEF Calm, StatusFollowsJob, SocketFollowsFd, Joiners
<1>4. Starters' /\ Stoppers' /\ InboxOrder'
  BY <1>1, <1>2 DEF Calm, Starters, Stoppers, InboxOrder, Stopping
<1> QED
  BY <1>1, <1>2, <1>3, <1>4 DEF Calm

LEMMA SentCalm ==
    ASSUME IInv, faults = {}, Ready, NEW kind \in {"sentStart", "sentStop"},
           Send(kind),
           kind = "sentStart" =>
              /\ status # "Connected"
              /\ \A c \in Calls : pc[c] # "sentStop",
           status = "Connected" <=> appStatus' = "Running",
           UNCHANGED <<status, object, lock, target, native, crashed>>
    PROVE  Calm'
<1>1. Calm /\ TypeOK
  BY DEF IInv
<1>2. PICK c \in Calls : pc[c] = "idle" /\ Goto(c, kind) /\ inbox' = Append(inbox, c)
  BY DEF Send, Fresh
<1>3. /\ pc'[c] = kind
      /\ \A d \in Calls : d # c => pc'[d] = pc[d]
      /\ \A j \in Jobs : pc'[j] = pc[j]
  BY <1>1, <1>2, GotoMoves, Distinct
<1>4. UNCHANGED <<status, alive, proxyJob, fd, mine, holder, waiters, target,
                  sock, notExit, crashed>>
  BY DEF object, lock, native
<1>5. /\ \A i \in DOMAIN inbox : i \in Nat /\ i < Len(inbox) + 1
      /\ \A i \in DOMAIN inbox' :
            \/ i \in DOMAIN inbox /\ inbox'[i] = inbox[i]
            \/ i = Len(inbox) + 1 /\ inbox'[i] = c
  BY <1>1, <1>2, InboxIs, AppendTo
<1>6. \A i \in DOMAIN inbox : inbox[i] # c
  BY <1>1, <1>2 DEF Calm, InboxOrder
<1>7. StatusFollowsJob'
  <2>1. status = "Connected" => proxyJob \in Jobs
    BY <1>1 DEF TypeOK, ServiceTypeOK, ObjectTypes, Calm, StatusFollowsJob
  <2> QED
    BY <1>1, <1>3, <1>4, <2>1 DEF Calm, StatusFollowsJob
<1>8. SocketFollowsFd'
  BY <1>1, <1>2, <1>3, <1>4 DEF Calm, SocketFollowsFd
<1>9. Joiners'
  <2>1. status = "Connected" => proxyJob \in Jobs
    BY <1>1 DEF TypeOK, ServiceTypeOK, ObjectTypes, Calm, StatusFollowsJob
  <2> QED
    BY <1>1, <1>3, <1>4, <2>1 DEF Calm, Joiners
<1>10. Starters'
  BY <1>3, WhenReady DEF Starters
<1>11. Stoppers'
  <2>1. ASSUME NEW d \in Calls, Stopping(d)'
        PROVE  Stopping(d) /\ kind = "sentStop"
    BY <1>3, <2>1, WhenReady DEF Stopping
  <2>2. ASSUME NEW d \in Calls, Stopping(d)', NEW i \in DOMAIN inbox',
               inbox'[i] \in Calls
        PROVE  pc'[inbox'[i]] # "sentStart"
    BY <1>1, <1>3, <1>5, <1>6, <2>1, <2>2 DEF Calm, Stoppers
  <2> QED
    BY <1>1, <1>3, <1>4, <2>1, <2>2 DEF Calm, Stoppers, Stopping
<1>12. InboxOrder'
  <2>1. \A i \in DOMAIN inbox' : inbox'[i] \in Calls => pc'[inbox'[i]] # "idle"
    BY <1>1, <1>3, <1>5, <1>6 DEF Calm, InboxOrder
  <2>2. \A i \in DOMAIN inbox' : inbox'[i] = "destroy" => status' # "Connected"
    BY <1>1, <1>4, <1>5, Distinct DEF Calm, InboxOrder
  <2>3. ASSUME NEW i \in DOMAIN inbox', NEW k \in DOMAIN inbox', i < k
        PROVE  /\ inbox'[i] \in Calls /\ pc'[inbox'[i]] = "sentStart"
                    => inbox'[k] # "destroy"
               /\ inbox'[k] \in Calls /\ pc'[inbox'[k]] = "sentStart"
                    => ~(inbox'[i] \in Calls /\ pc'[inbox'[i]] = "sentStop")
    <3>1. i \in DOMAIN inbox /\ inbox'[i] = inbox[i] /\ inbox[i] # c
      BY <1>1, <1>5, <1>6, <2>3, InboxIs
    <3>2. CASE k \in DOMAIN inbox /\ inbox'[k] = inbox[k]
      BY <1>1, <1>3, <1>6, <2>3, <3>1, <3>2 DEF Calm, InboxOrder
    <3>3. CASE inbox'[k] = c
      BY <1>3, <3>1, <3>3, Distinct
    <3> QED
      BY <1>5, <3>2, <3>3
  <2> QED
    BY <2>1, <2>2, <2>3 DEF InboxOrder
<1> QED
  BY <1>1, <1>4, <1>7, <1>8, <1>9, <1>10, <1>11, <1>12 DEF Calm

LEMMA ClickCalm ==
    ASSUME IInv, faults = {}, Press \/ Tap
    PROVE  Calm'
<1>1. Calm
  BY DEF IInv
<1>2. Ready /\ UNCHANGED <<status, object, lock, target, native, crashed>>
  BY DEF Press, Tap, UiStep, static
<1>3. status = "Connected" <=> appStatus = "Running"
  BY <1>1 DEF Calm, StatusFollowsJob
<1>4. status = "Connected" <=> appStatus' = "Running"
  BY <1>3 DEF Press, Tap, static
<1>5. CASE appStatus = "Halted"
  <2>1. SendStart
    BY <1>5 DEF Press, Tap
  <2>2. Send("sentStart") /\ \A c \in Calls : pc[c] # "sentStop"
    BY <2>1 DEF SendStart
  <2> QED
    BY <1>2, <1>3, <1>4, <1>5, <2>2, SentCalm
<1>6. CASE appStatus # "Halted"
  <2>1. Send("sentStop")
    BY <1>6 DEF Press, Tap, SendStop
  <2> QED
    BY <1>2, <1>4, <2>1, SentCalm
<1> QED
  BY <1>5, <1>6

LEMMA WatchCalm ==
    ASSUME IInv, faults = {},
           Open \/ Close \/ StartListening \/ StopListening
             \/ \E r \in Receivers : Receive(r)
    PROVE  Calm'
<1>1. UNCHANGED <<inbox, static, object, lock, control, native, crashed>>
  BY DEF Open, Close, StartListening, StopListening, Receive, UiStep
<1> QED
  BY <1>1, BesideCalm

-----------------------------------------------------------------------------
(* The theorems                                                            *)

LEMMA NextKeepsFaults == [Next]_vars => UNCHANGED faults
<1>1. ServiceStep => UNCHANGED faults
  BY DEF ServiceStep, OnStart, OnStop, Delivered, CallStep, EnterStart,
         EnterStop, Joined, Stopped, OnDestroy, JobStep, RunProxy, Listener,
         CheckExit, Reported, Leave
<1>2. (User \/ \E r \in Receivers : Receive(r)) => UNCHANGED faults
  BY DEF User, Open, Close, Press, StartListening, StopListening, Tap, UiStep,
         Receive
<1> QED
  BY <1>1, <1>2 DEF Next, vars, serviceVars

LEMMA NextCalm == IInv /\ [Next]_vars => IInv'
<1> SUFFICES ASSUME IInv, [Next]_vars PROVE IInv'
  OBVIOUS
<1>1. TypeOK'
  BY NextTypes DEF IInv
<1>2. UNCHANGED faults
  BY NextKeepsFaults
<1>3. ASSUME faults = {} PROVE Calm'
  <2>1. CASE ServiceStep
    BY <1>3, <2>1, OnStartCalm, OnStopCalm, OnDestroyCalm, EnterStartCalm,
       EnterStopCalm, JoinedCalm, StoppedCalm, RunProxyCalm, ListenerCalm,
       ReportedCalm, LeaveCalm
       DEF ServiceStep, CallStep, JobStep
  <2>2. CASE User \/ \E r \in Receivers : Receive(r)
    BY <1>3, <2>2, ClickCalm, WatchCalm DEF User
  <2>3. CASE UNCHANGED vars
    BY <1>3, <2>3, BesideCalm
       DEF vars, serviceVars, static, object, lock, control, native
  <2> QED
    BY <2>1, <2>2, <2>3 DEF Next
<1> QED
  BY <1>1, <1>2, <1>3 DEF IInv

\* Without faults the invariant holds in every reachable state.
THEOREM CalmInvariant == Spec => []IInv
<1>1. Init => IInv
  BY InitCalm
<1>2. IInv /\ [Next]_vars => IInv'
  BY NextCalm
<1> QED
  BY <1>1, <1>2, PTL DEF Spec

\* However often the user clicks, no call of stopProxy() or startProxy() throws
\* an exception that ends the process.
THEOREM NeverCrashes == Spec => []NoCrash
BY CalmInvariant, CalmIsSafe, PTL

\* However many starts, stops and destructions are interleaved, the listening
\* socket is the one the living service object holds.
THEOREM NoOrphanLoop == Spec => []ListenerIsOwned
BY CalmInvariant, CalmIsSafe, PTL

\* Whenever the service has nothing to do, `status` is Connected exactly when a
\* socket accepts connections.
THEOREM StatusTellsTruth == Spec => []StatusIsTrue
BY CalmInvariant, CalmIsSafe, PTL

\* A start() never waits for the mutex behind another call, so onDestroy()
\* finds none to cancel.
StartsAtOnce ==
    faults = {} => \A c \in Calls : pc[c] = "startLock" => holder = c

THEOREM NoStartWaits == Spec => []StartsAtOnce
<1>1. IInv => StartsAtOnce
  BY DEF IInv, Calm, Starters, StartsAtOnce
<1> QED
  BY <1>1, CalmInvariant, PTL

-----------------------------------------------------------------------------
(* What the activity and the tile show                                     *)

Starting(c) == pc[c] \in {"sentStart", "startLock"} /\ status # "Connected"

Ending(c) == pc[c] = "sentStop" \/ Stopping(c)

Asked == \E c \in Calls : Starting(c)

Awaited == \E c \in Calls : Starting(c) \/ Ending(c)

\* A receiver without a broadcast under way shows the state of the application,
\* or a call under way will end in a broadcast.
Shown ==
    /\ appStatus = "Connecting" => Asked
    /\ activity = "gone" <=> "activity" \notin registered
    /\ \A r \in Receivers : pending[r] # 0 => r \in registered
    /\ "activity" \in registered /\ pending["activity"] = 0 => activity = appStatus
    /\ "tile" \in registered /\ pending["tile"] = 0 =>
          \/ tile = TileFor(appStatus)
          \/ appStatus = "Connecting"
          \/ tile = "UNAVAILABLE" /\ Awaited

ShownInv == IInv /\ (faults = {} => Shown)

LEMMA Watchers == "activity" \in Receivers /\ "tile" \in Receivers
BY ReceiversAssumption

\* After updateStatus() every registered receiver has a broadcast to come.
LEMMA BroadcastShown ==
    ASSUME TypeOK, Shown, UNCHANGED ui,
           NEW new \in {"Disconnected", "Connected", "Failed"}, UpdateStatus(new)
    PROVE  Shown'
<1>1. appStatus' # "Connecting"
  BY DEF UpdateStatus
<1>2. UNCHANGED <<registered, activity, tile>>
  BY DEF UpdateStatus, ui
<1>3. ASSUME NEW r \in Receivers, r \in registered' PROVE pending'[r] # 0
  BY <1>3 DEF UpdateStatus, TypeOK, ServiceTypeOK, CastTypes
<1>4. \A r \in Receivers : pending'[r] # 0 => r \in registered'
  BY DEF UpdateStatus, Shown
<1> QED
  BY <1>1, <1>2, <1>3, <1>4, Watchers DEF Shown

\* Between two broadcasts no call that will end in one is lost.
LEMMA QuietShown ==
    ASSUME Shown, UNCHANGED <<static, cast, ui>>,
           \A c \in Calls : /\ Starting(c) => Starting(c)'
                            /\ Ending(c) => Ending(c)'
    PROVE  Shown'
BY DEF Shown, Asked, Awaited, static, cast, ui, TileFor

LEMMA JobKeepsCalls ==
    ASSUME TypeOK, NEW j \in Jobs, JobStep(j)
    PROVE  \A d \in Calls : pc'[d] = pc[d]
<1>1. UNCHANGED pc \/ \E l : Goto(j, l)
  BY DEF JobStep, RunProxy, Listener, CheckExit, Reported, Leave
<1> QED
  BY <1>1, Distinct DEF Goto, TypeOK, ServiceTypeOK, PcTypes

LEMMA DeliveredShown ==
    ASSUME TypeOK, Shown, NEW c \in Calls, OnStart(c) \/ OnStop(c), UNCHANGED ui
    PROVE  Shown'
<1>1. UNCHANGED <<static, cast>>
  BY DEF OnStart, OnStop, Delivered
<1>2. CASE OnStart(c)
  <2>1. /\ pc[c] = "sentStart"
        /\ status # "Connected" => Goto(c, "startLock")
        /\ \E l : Goto(c, l)
    BY <1>2 DEF OnStart, Delivered, StartRefused
  <2> QED
    BY <1>1, <2>1, GotoMoves, QuietShown DEF Starting, Ending, Stopping, static
<1>3. CASE OnStop(c)
  <2>1. pc[c] = "sentStop" /\ Goto(c, "stopLock")
    BY <1>3 DEF OnStop, Delivered
  <2> QED
    BY <1>1, <2>1, GotoMoves, QuietShown DEF Starting, Ending, Stopping, static
<1> QED
  BY <1>2, <1>3

LEMMA StopShown ==
    ASSUME TypeOK, Shown, NEW c \in Calls,
           EnterStop(c) \/ Joined(c) \/ Stopped(c), UNCHANGED ui
    PROVE  Shown'
<1>1. CASE Finish(c)
  BY <1>1, BroadcastShown DEF Finish, Halt
<1>2. CASE ~Finish(c)
  <2>1. UNCHANGED <<static, cast>>
    BY <1>2, EnterStopCases DEF Joined, Stopped
  <2>2. Stopping(c)
    BY <1>2 DEF EnterStop, Joined, Stopped, Stopping
  <2>3. UNCHANGED pc \/ \E l \in {"join", "tail"} : Goto(c, l)
    BY <1>2, EnterStopCases DEF Joined, Stopped
  <2> QED
    BY <2>1, <2>2, <2>3, GotoMoves, QuietShown
       DEF Starting, Ending, Stopping, static
<1> QED
  BY <1>1, <1>2

LEMMA DestroyShown ==
    ASSUME IInv, faults = {}, Shown, OnDestroy, UNCHANGED ui
    PROVE  Shown'
<1>1. Calm /\ TypeOK
  BY DEF IInv
<1>2. /\ Ready /\ inbox # << >> /\ Head(inbox) = "destroy"
      /\ UNCHANGED <<static, cast>>
  BY DEF OnDestroy
<1>3. status # "Connected"
  BY <1>1, <1>2, TailOf, InboxIs DEF Calm, InboxOrder
<1>4. \A d \in Calls : ~Stopping(d) /\ pc[d] # "startLock"
  BY <1>2, <1>3, WhenReady
<1>5. \A d \in Calls : pc[d] = "sentStart" => pc'[d] = "sentStart"
  BY DEF OnDestroy
<1>6. \A d \in Calls : pc[d] = "sentStop" => pc'[d] = "sentStop"
  BY DEF OnDestroy
<1> QED
  BY <1>2, <1>4, <1>5, <1>6, QuietShown DEF Starting, Ending, Stopping, static

LEMMA JobShown ==
    ASSUME TypeOK, Shown, NEW j \in Jobs, JobStep(j), UNCHANGED ui
    PROVE  Shown'
<1>1. CASE UNCHANGED <<static, cast>>
  BY <1>1, JobKeepsCalls, QuietShown DEF Starting, Ending, Stopping, static
<1>2. CASE \E new \in {"Failed", "Disconnected"} : UpdateStatus(new)
  BY <1>2, BroadcastShown
<1> QED
  BY <1>1, <1>2
     DEF JobStep, RunProxy, Listener, CheckExit, Reported, Leave, Halt

LEMMA ServiceShown ==
    ASSUME IInv, faults = {}, Shown, ServiceStep, UNCHANGED ui
    PROVE  Shown'
<1>1. TypeOK
  BY DEF IInv
<1>2. ASSUME NEW c \in Calls, EnterStart(c) PROVE Shown'
  <2>1. \E new \in {"Connected", "Failed"} : UpdateStatus(new)
    BY <1>2 DEF EnterStart, Halt
  <2> QED
    BY <1>1, <2>1, BroadcastShown
<1> QED
  BY <1>1, <1>2, DeliveredShown, StopShown, DestroyShown, JobShown
     DEF ServiceStep, CallStep

LEMMA WatchShown ==
    ASSUME TypeOK, Shown,
           Open \/ Close \/ StartListening \/ StopListening
             \/ \E r \in Receivers : Receive(r)
    PROVE  Shown'
<1>1. UNCHANGED <<pc, status, appStatus>>
  BY DEF Open, Close, StartListening, StopListening, Receive, UiStep, control,
         static
<1>2. (Asked => Asked') /\ (Awaited => Awaited')
  BY <1>1 DEF Asked, Awaited, Starting, Ending, Stopping
<1>3. pending \in [Receivers -> Nat] /\ appStatus # "gone"
  BY DEF TypeOK, ServiceTypeOK, CastTypes, StaticTypes
<1>4. ASSUME NEW r \in Receivers, Receive(r) PROVE Shown'
  <2>1. UNCHANGED registered /\ pending' = [pending EXCEPT ![r] = @ - 1]
        /\ Show(r) /\ pending[r] > 0
    BY <1>4 DEF Receive
  <2>2. CASE r = "activity"
    BY <1>1, <1>2, <1>3, <2>1, <2>2, Watchers DEF Shown, Show, TileFor
  <2>3. CASE r = "tile"
    BY <1>1, <1>2, <1>3, <2>1, <2>3, Watchers DEF Shown, Show, TileFor
  <2> QED
    BY <2>2, <2>3, ReceiversAssumption
<1>5. CASE Open
  BY <1>1, <1>2, <1>3, <1>5, Watchers DEF Open, Register, Shown, Show, TileFor
<1>6. CASE Close
  BY <1>1, <1>2, <1>3, <1>6, Watchers DEF Close, Unregister, Shown, TileFor
<1>7. CASE StartListening
  BY <1>1, <1>2, <1>3, <1>7, Watchers
     DEF StartListening, Register, Shown, Show, TileFor
<1>8. CASE StopListening
  BY <1>1, <1>2, <1>3, <1>8, Watchers DEF StopListening, Unregister, Shown, TileFor, ui
<1> QED
  BY <1>4, <1>5, <1>6, <1>7, <1>8

\* A click sends an intent that ends in a broadcast, and takes nothing back.
LEMMA ClickShown ==
    ASSUME IInv, faults = {}, Shown, Press \/ Tap
    PROVE  Shown'
<1>1. TypeOK /\ (status = "Connected" <=> appStatus = "Running")
  BY DEF IInv, Calm, StatusFollowsJob
<1>2. UNCHANGED <<status, cast>>
  BY DEF Press, Tap, static
<1>3. PICK k \in {"sentStart", "sentStop"} :
        Send(k) /\ (k = "sentStart" <=> appStatus = "Halted")
  BY DEF Press, Tap, SendStart, SendStop
<1>4. PICK c \in Calls : pc[c] = "idle" /\ Goto(c, k)
  BY <1>3 DEF Send, Fresh
<1>5. pc'[c] = k /\ \A d \in Calls \ {c} : pc'[d] = pc[d]
  BY <1>1, <1>4, GotoMoves
<1>6. \A d \in Calls : /\ Starting(d) => Starting(d)'
                       /\ Ending(d) => Ending(d)'
  BY <1>2, <1>4, <1>5 DEF Starting, Ending, Stopping
<1>7. (Asked => Asked') /\ Awaited'
  <2>1. Starting(c)' \/ Ending(c)'
    BY <1>1, <1>2, <1>3, <1>5 DEF Starting, Ending
  <2> QED
    BY <1>6, <2>1 DEF Asked, Awaited
<1>8. (Asked => Asked') /\ (k = "sentStart" => Asked')
  <2>1. k = "sentStart" => Starting(c)'
    BY <1>1, <1>2, <1>3, <1>5 DEF Starting
  <2> QED
    BY <1>6, <2>1 DEF Asked
<1>9. CASE Press
  <2>1. \/ k = "sentStart" /\ appStatus' = "Connecting" /\ activity' = "Connecting"
        \/ k = "sentStop" /\ UNCHANGED <<appStatus, activity>>
    BY <1>3, <1>9 DEF Press
  <2>2. activity # "gone" /\ UNCHANGED tile
    BY <1>9 DEF Press
  <2> QED
    BY <1>2, <1>7, <1>8, <2>1, <2>2 DEF Shown, cast, TileFor
<1>10. CASE Tap
  <2>1. UNCHANGED <<appStatus, activity>> /\ tile' = "UNAVAILABLE"
    BY <1>10 DEF Tap, static
  <2> QED
    BY <1>2, <1>7, <2>1 DEF Shown, cast
<1> QED
  BY <1>9, <1>10

LEMMA NextShown == ShownInv /\ [Next]_vars => ShownInv'
<1> SUFFICES ASSUME ShownInv, [Next]_vars PROVE ShownInv'
  OBVIOUS
<1>1. IInv /\ TypeOK /\ IInv'
  BY NextCalm DEF ShownInv, IInv
<1>2. UNCHANGED faults
  BY NextKeepsFaults
<1>3. ASSUME faults = {} PROVE Shown'
  <2>1. Shown
    BY <1>3 DEF ShownInv
  <2>2. CASE ServiceStep /\ UNCHANGED ui
    BY <1>1, <1>3, <2>1, <2>2, ServiceShown
  <2>3. CASE User \/ \E r \in Receivers : Receive(r)
    BY <1>1, <1>3, <2>1, <2>3, ClickShown, WatchShown DEF User
  <2>4. CASE UNCHANGED vars
    BY <2>1, <2>4, QuietShown
       DEF vars, serviceVars, static, cast, control, ui, Starting, Ending,
           Stopping
  <2> QED
    BY <2>2, <2>3, <2>4 DEF Next
<1> QED
  BY <1>1, <1>2, <1>3 DEF ShownInv

LEMMA InitShown == Init => ShownInv
<1> SUFFICES ASSUME Init PROVE ShownInv
  OBVIOUS
<1>1. IInv
  BY InitCalm
<1>2. Shown
  BY DEF Init, ServiceInit, Shown
<1> QED
  BY <1>1, <1>2 DEF ShownInv

LEMMA ShownIsTrue == ShownInv => (faults = {} => InterfaceIsTrue)
<1> SUFFICES ASSUME ShownInv, faults = {}, Idle,
                    \A r \in Receivers : pending[r] = 0
             PROVE  /\ appStatus = (IF status = "Connected" THEN "Running"
                                                            ELSE "Halted")
                    /\ activity \in {"gone", appStatus}
                    /\ "tile" \in registered => tile = TileFor(appStatus)
  BY DEF InterfaceIsTrue
<1>1. Shown /\ TypeOK /\ (status = "Connected" <=> appStatus = "Running")
  BY DEF ShownInv, IInv, Calm, StatusFollowsJob
<1>2. \A c \in Calls : ~Starting(c) /\ ~Ending(c)
  BY DEF Idle, Starting, Ending, Stopping
<1>3. appStatus \in {"Halted", "Running"}
  BY <1>1, <1>2 DEF Shown, Asked, TypeOK, ServiceTypeOK, StaticTypes
<1> QED
  BY <1>1, <1>2, <1>3, Watchers DEF Shown, Awaited

\* Without faults, whenever the service has nothing to do and every broadcast
\* has been received, the activity and the tile show the status of the service.
THEOREM InterfaceTellsTruth == Spec => [](faults = {} => InterfaceIsTrue)
<1>1. Init => ShownInv
  BY InitShown
<1>2. ShownInv /\ [Next]_vars => ShownInv'
  BY NextShown
<1>3. ShownInv => (faults = {} => InterfaceIsTrue)
  BY ShownIsTrue
<1> QED
  BY <1>1, <1>2, <1>3, PTL DEF Spec
=============================================================================
