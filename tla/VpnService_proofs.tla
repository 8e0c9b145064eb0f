------------------------- MODULE VpnService_proofs --------------------------
(***************************************************************************)
(* Proofs about VpnService for every set of calls, loop jobs and Telegram   *)
(* jobs, every number of attempts and every choice of the fault constants:  *)
(* type correctness, the exclusion of teardowns, the ownership of the       *)
(* listening socket, the completeness of stop() and the accounts of the     *)
(* mutex and of the main thread; and, when the dispatcher keeps up, the     *)
(* native calls do not fail and no status clears the reference to a job in  *)
(* use, that what is shown is served.                                       *)
(***************************************************************************)
EXTENDS VpnService, TLAPS

-----------------------------------------------------------------------------
(* Labels, the mutex and the main thread                                   *)

\* Label l is one of the labels of coroutine c.
Fits(c, l) ==
    /\ l \in StartPc \cup StopPc \cup LoopPc \cup TgPc
    /\ c \in StartCalls => l \in StartPc
    /\ c \in StopCalls => l \in StopPc
    /\ c \in Loops => l \in LoopPc
    /\ c \in TgJobs => l \in TgPc

LEMMA FitsStart == ASSUME NEW c \in StartCalls, NEW l \in StartPc
                   PROVE  Fits(c, l)
BY SetsAssumption DEF Fits

LEMMA FitsStop == ASSUME NEW c \in StopCalls, NEW l \in StopPc
                  PROVE  Fits(c, l)
BY SetsAssumption DEF Fits

LEMMA FitsLoop == ASSUME NEW c \in Loops, NEW l \in LoopPc
                  PROVE  Fits(c, l)
BY SetsAssumption DEF Fits

LEMMA FitsTg == ASSUME NEW c \in TgJobs, NEW l \in TgPc
                PROVE  Fits(c, l)
BY SetsAssumption DEF Fits

\* One coroutine moves.
LEMMA GotoTypes ==
    ASSUME PcTypes, NEW c \in Coroutines, NEW l, Fits(c, l), Goto(c, l)
    PROVE  PcTypes'
BY DEF PcTypes, Fits, Goto, Coroutines

\* Two coroutines move: one launches the other.
LEMMA Goto2Types ==
    ASSUME PcTypes, NEW c \in Coroutines, NEW l, NEW d \in Coroutines, NEW m,
           Fits(c, l), Fits(d, m), pc' = [pc EXCEPT ![c] = l, ![d] = m]
    PROVE  PcTypes'
BY DEF PcTypes, Fits, Coroutines

LEMMA LockingTypes ==
    ASSUME LockTypes, NEW c \in Coroutines, Lock(c) \/ Unlock \/ UNCHANGED lock
    PROVE  LockTypes'
<1>1. CASE Lock(c)
  BY <1>1 DEF Lock, LockTypes
<1>2. CASE Unlock
  BY <1>2 DEF Unlock, LockTypes
<1>3. CASE UNCHANGED lock
  BY <1>3 DEF lock, LockTypes
<1> QED
  BY <1>1, <1>2, <1>3

LEMMA TurnIsSequence ==
    ASSUME MainTypes, NEW x \in Coroutines
    PROVE  /\ Turn(x) \in Seq(Coroutines) /\ Turn(x) # <<>>
           /\ Tail(Turn(x)) \in Seq(Coroutines)
           /\ Outer(x) \in Coroutines \cup {Null}
BY DEF MainTypes, Turn, Outer

LEMMA TurnTypes ==
    ASSUME MainTypes, NEW x \in Coroutines, Stay(x) \/ Suspend(x) \/ UNCHANGED main
    PROVE  MainTypes'
BY TurnIsSequence DEF MainTypes, Stay, Suspend, main

\* A coroutine enters the mutex, leaves it or leaves it alone.
LEMMA SwitchTypes ==
    ASSUME LockTypes, MainTypes, NEW x \in Coroutines,
           \/ Launch(x) \/ Acquire(x) \/ Release(x)
           \/ UNCHANGED lock /\ (Stay(x) \/ Suspend(x) \/ UNCHANGED main)
    PROVE  LockTypes' /\ MainTypes'
<1>1. CASE Launch(x)
  BY <1>1, LockingTypes DEF Launch, MainTypes
<1>2. CASE Acquire(x)
  BY <1>2, LockingTypes, TurnTypes DEF Acquire
<1>3. CASE Release(x)
  <2>1. LockTypes'
    BY <1>3, LockingTypes DEF Release
  <2>2. outer' \in Coroutines \cup {Null}
    BY <1>3, TurnIsSequence DEF Release
  <2>3. turn' \in Seq(Coroutines)
    <3>1. CASE holder' \notin StartCalls \cup StopCalls
      <4>1. turn' = Turn(x)
        BY <1>3, <3>1 DEF Release
      <4> QED
        BY <4>1, TurnIsSequence
    <3>2. CASE holder' \in StartCalls \cup StopCalls
      <4>1. turn' = <<holder'>> \o Turn(x) \/ turn' = <<x, holder'>> \o Tail(Turn(x))
        BY <1>3, <3>2 DEF Release
      <4>2. <<holder'>> \in Seq(Coroutines) /\ <<x, holder'>> \in Seq(Coroutines)
        BY <3>2 DEF Coroutines
      <4>3. \A s, t \in Seq(Coroutines) : s \o t \in Seq(Coroutines)
        OBVIOUS
      <4> QED
        BY <4>1, <4>2, <4>3, TurnIsSequence
    <3> QED
      BY <3>1, <3>2
  <2> QED
    BY <2>1, <2>2, <2>3 DEF MainTypes
<1>4. CASE UNCHANGED lock /\ (Stay(x) \/ Suspend(x) \/ UNCHANGED main)
  BY <1>4, LockingTypes, TurnTypes
<1> QED
  BY <1>1, <1>2, <1>3, <1>4

LEMMA SocketTypes ==
    ASSUME NativeTypes, Reset \/ StopNative, UNCHANGED <<runs, notExit, crashed>>
    PROVE  NativeTypes'
<1>1. CASE Reset
  BY <1>1 DEF NativeTypes, Reset, ShutDown, SocketsReset
<1>2. CASE StopNative
  BY <1>2 DEF NativeTypes, StopNative, ShutDown
<1> QED
  BY <1>1, <1>2

LEMMA OpenTypes ==
    ASSUME NativeTypes, NEW j \in Loops, OpenSocket(j),
           UNCHANGED <<runs, notExit, crashed>>
    PROVE  NativeTypes'
BY DEF NativeTypes, OpenSocket, ShutDown, SocketsReset

-----------------------------------------------------------------------------
(* Type correctness                                                        *)

LEMMA InitTypes == Init => TypeOK
<1> SUFFICES ASSUME Init PROVE TypeOK
  OBVIOUS
<1>1. ServiceTypes
  BY DEF Init, ServiceTypes
<1>2. LockTypes /\ MainTypes
  BY DEF Init, LockTypes, MainTypes
<1>3. ControlTypes
  BY SetsAssumption, AttemptsAssumption
     DEF Init, ControlTypes, PcTypes, StartPc, StopPc, LoopPc, TgPc, Coroutines
<1>4. NativeTypes
  BY DEF Init, NativeTypes
<1> QED
  BY <1>1, <1>2, <1>3, <1>4 DEF TypeOK

\* A call enters on Main.
LEMMA OnCallTypes ==
    ASSUME TypeOK, NEW c \in StartCalls \cup StopCalls,
           (c \in StartCalls /\ OnStart(c)) \/ (c \in StopCalls /\ OnStop(c))
    PROVE  TypeOK'
<1>1. c \in Coroutines
  BY DEF Coroutines
<1>2. PcTypes'
  <2>1. CASE c \in StartCalls /\ OnStart(c)
    <3>1. PICK l \in {"done", "startLock"} : Goto(c, l)
      BY <2>1 DEF OnStart
    <3> QED
      BY <1>1, <2>1, <3>1, FitsStart, GotoTypes DEF StartPc, TypeOK, ControlTypes
  <2>2. CASE c \in StopCalls /\ OnStop(c)
    BY <1>1, <2>2, FitsStop, GotoTypes DEF OnStop, StopPc, TypeOK, ControlTypes
  <2> QED
    BY <2>1, <2>2
<1>3. LockTypes' /\ MainTypes'
  BY <1>1, SwitchTypes DEF OnStart, OnStop, TypeOK
<1>4. ServiceTypes' /\ ControlTypes' /\ NativeTypes'
  BY <1>2 DEF OnStart, OnStop, TypeOK, ServiceTypes, ControlTypes, NativeTypes,
              service, native
<1> QED
  BY <1>3, <1>4 DEF TypeOK

\* The steps of start() before it opens a socket, after it gave one up, and on the
\* way from the mutex to the clean-up.
LEMMA EnterTypes ==
    ASSUME TypeOK, NEW c \in StartCalls,
           EnterStart(c) \/ PresetFails(c) \/ NextPreset(c) \/ Failing(c)
    PROVE  TypeOK'
<1>0. c \in Coroutines
  BY DEF Coroutines
<1>1. PICK l \in {"opening", "failing", "joining", "cleanLock"} : Goto(c, l)
  BY DEF EnterStart, PresetFails, NextPreset, Failing, Throw, Goto
<1>2. PcTypes'
  BY <1>0, <1>1, FitsStart, GotoTypes DEF StartPc, TypeOK, ControlTypes
<1>3. LockTypes' /\ MainTypes'
  <2>1. CASE EnterStart(c) \/ Failing(c)
    BY <1>0, <2>1, SwitchTypes DEF EnterStart, Failing, Throw, TypeOK, lock
  <2>2. CASE PresetFails(c)
    BY <1>0, <2>2, SwitchTypes DEF PresetFails, Join, TypeOK
  <2>3. CASE NextPreset(c)
    <3>1. UNCHANGED lock /\ (Stay(c) \/ (turn' = <<c>> /\ outer' = outer))
      BY <2>3 DEF NextPreset, JoinTimesOut
    <3>2. LockTypes'
      BY <1>0, <3>1, LockingTypes DEF TypeOK
    <3>3. MainTypes'
      <4>1. CASE Stay(c)
        BY <1>0, <4>1, TurnTypes DEF TypeOK
      <4>2. CASE turn' = <<c>> /\ outer' = outer
        BY <1>0, <4>2 DEF TypeOK, MainTypes
      <4> QED
        BY <3>1, <4>1, <4>2
    <3> QED
      BY <3>2, <3>3
  <2> QED
    BY <2>1, <2>2, <2>3
<1>4. ServiceTypes' /\ ControlTypes'
  BY <1>2 DEF EnterStart, PresetFails, NextPreset, Failing, TypeOK, ServiceTypes,
              ControlTypes, service
<1>5. NativeTypes'
  <2>1. CASE EnterStart(c) \/ Failing(c)
    BY <2>1 DEF EnterStart, Failing, TypeOK, NativeTypes, native
  <2>2. CASE PresetFails(c) \/ NextPreset(c)
    BY <2>2, SocketTypes DEF PresetFails, NextPreset, TypeOK
  <2> QED
    BY <2>1, <2>2
<1> QED
  BY <1>3, <1>4, <1>5 DEF TypeOK

LEMMA TryPresetTypes ==
    ASSUME TypeOK, NEW c \in StartCalls, TryPreset(c)
    PROVE  TypeOK'
<1>0. c \in Coroutines
  BY DEF Coroutines
<1>1. ServiceTypes'
  BY DEF TryPreset, TypeOK, ServiceTypes, service
<1>m. LockTypes' /\ MainTypes'
  BY <1>0, SwitchTypes DEF TryPreset, TypeOK
<1>2. attempt' \in [StartCalls -> 0 .. Attempts]
  BY AttemptsAssumption DEF TryPreset, MorePresets, TypeOK, ControlTypes
<1>3. CASE Reset /\ UNCHANGED <<pc, target>>
  <2>1. NativeTypes'
    BY <1>3, SocketTypes DEF TryPreset, TypeOK
  <2>2. ControlTypes'
    BY <1>2, <1>3 DEF TypeOK, ControlTypes, PcTypes
  <2> QED
    BY <1>1, <1>m, <2>1, <2>2 DEF TypeOK
<1>4. ASSUME NEW j \in Loops, OpenSocket(j),
             pc' = [pc EXCEPT ![c] = "testing", ![j] = "launched"],
             target' = [target EXCEPT ![c] = j]
      PROVE  TypeOK'
  <2>1. NativeTypes'
    BY <1>4, OpenTypes DEF TryPreset, TypeOK
  <2>2. PcTypes'
    BY <1>4, FitsStart, FitsLoop, Goto2Types
       DEF StartPc, LoopPc, TypeOK, ControlTypes, Coroutines
  <2>3. ControlTypes'
    BY <1>2, <1>4, <2>2 DEF TypeOK, ControlTypes, Coroutines
  <2> QED
    BY <1>1, <1>m, <2>1, <2>3 DEF TypeOK
<1> QED
  BY <1>3, <1>4 DEF TryPreset

\* What Connect, TunnelFails and Throw do, given the labels pcs they start from.
LEMMA SelectTypes ==
    ASSUME TypeOK, NEW c \in StartCalls, NEW j \in Loops \cup {Null}, NEW pcs,
           pcs \in [Coroutines -> StartPc \cup StopPc \cup LoopPc \cup TgPc],
           \A d \in Coroutines : Fits(d, pcs[d]),
           Connect(c, j, pcs) \/ TunnelFails(c, j, pcs)
    PROVE  ServiceTypes' /\ LockTypes' /\ MainTypes' /\ PcTypes'
<1>0. c \in Coroutines
  BY DEF Coroutines
<1>1. ServiceTypes'
  BY DEF Connect, TunnelFails, TypeOK, ServiceTypes
<1>2. LockTypes' /\ MainTypes'
  BY <1>0, SwitchTypes DEF Connect, TunnelFails, Throw, TypeOK
<1>3. PcTypes'
  <2>1. PICK l \in {"connected", "failing"} : pc' = [pcs EXCEPT ![c] = l]
    BY DEF Connect, TunnelFails, Throw
  <2>2. Fits(c, l)
    BY FitsStart DEF StartPc
  <2> QED
    BY <1>0, <2>1, <2>2 DEF PcTypes, Fits, Coroutines
<1> QED
  BY <1>1, <1>2, <1>3

LEMMA PcFits ==
    ASSUME TypeOK PROVE \A d \in Coroutines : Fits(d, pc[d])
BY SetsAssumption DEF TypeOK, ControlTypes, PcTypes, Fits, Coroutines

LEMMA PresetWorksTypes ==
    ASSUME TypeOK, NEW c \in StartCalls, PresetWorks(c)
    PROVE  TypeOK'
<1>1. ServiceTypes' /\ LockTypes' /\ MainTypes' /\ PcTypes'
  <2>1. target[c] \in Loops \cup {Null}
    BY DEF TypeOK, ControlTypes, Coroutines
  <2>2. pc \in [Coroutines -> StartPc \cup StopPc \cup LoopPc \cup TgPc]
    BY DEF TypeOK, ControlTypes, PcTypes
  <2> QED
    BY <2>1, <2>2, PcFits, SelectTypes DEF PresetWorks
<1>2. ControlTypes' /\ NativeTypes'
  BY <1>1 DEF PresetWorks, TypeOK, ControlTypes, NativeTypes, native
<1> QED
  BY <1>1, <1>2 DEF TypeOK

LEMMA FallbackTypes ==
    ASSUME TypeOK, NEW c \in StartCalls, Fallback(c)
    PROVE  TypeOK'
<1>1. CASE Reset /\ Throw(c, pc) /\ UNCHANGED <<service, target>>
  <2>0. c \in Coroutines
    BY DEF Coroutines
  <2>1. PcTypes'
    BY <1>1, <2>0, FitsStart, GotoTypes DEF Throw, Goto, StartPc, TypeOK, ControlTypes
  <2>2. LockTypes' /\ MainTypes' /\ NativeTypes'
    BY <1>1, <2>0, SwitchTypes, SocketTypes DEF Throw, Fallback, TypeOK
  <2>3. ServiceTypes' /\ ControlTypes'
    BY <1>1, <2>1 DEF Fallback, TypeOK, ServiceTypes, ControlTypes, service
  <2> QED
    BY <2>2, <2>3 DEF TypeOK
<1>2. ASSUME NEW j \in Loops, OpenSocket(j), target' = [target EXCEPT ![c] = j],
             LET launched == [pc EXCEPT ![j] = "launched"]
             IN  Connect(c, j, launched) \/ TunnelFails(c, j, launched)
      PROVE  TypeOK'
  <2> DEFINE launched == [pc EXCEPT ![j] = "launched"]
  <2>1. /\ launched \in [Coroutines -> StartPc \cup StopPc \cup LoopPc \cup TgPc]
        /\ \A d \in Coroutines : Fits(d, launched[d])
    BY PcFits, FitsLoop DEF TypeOK, ControlTypes, PcTypes, LoopPc, Coroutines
  <2>2. Connect(c, j, launched) \/ TunnelFails(c, j, launched)
    BY <1>2
  <2> HIDE DEF launched
  <2>3. ServiceTypes' /\ LockTypes' /\ MainTypes' /\ PcTypes'
    BY <2>1, <2>2, SelectTypes
  <2>4. ControlTypes'
    BY <1>2, <2>3 DEF Fallback, TypeOK, ControlTypes, Coroutines
  <2>5. NativeTypes'
    BY <1>2, OpenTypes DEF Fallback, TypeOK
  <2> QED
    BY <2>3, <2>4, <2>5 DEF TypeOK
<1> QED
  BY <1>1, <1>2 DEF Fallback

LEMMA ShowConnectedTypes ==
    ASSUME TypeOK, NEW c \in StartCalls, ShowConnected(c)
    PROVE  TypeOK'
<1>0. c \in Coroutines
  BY DEF Coroutines
<1>1. PICK g \in TgJobs : pc' = [pc EXCEPT ![c] = "done", ![g] = "launched"]
  BY DEF ShowConnected
<1>2. PcTypes'
  BY <1>1, FitsStart, FitsTg, Goto2Types
     DEF StartPc, TgPc, TypeOK, ControlTypes, Coroutines
<1>3. LockTypes' /\ MainTypes'
  BY <1>0, SwitchTypes DEF ShowConnected, TypeOK
<1>4. ServiceTypes' /\ ControlTypes' /\ NativeTypes'
  BY <1>2 DEF ShowConnected, UpdateStatus, TypeOK, ServiceTypes, ControlTypes,
              NativeTypes, native
<1> QED
  BY <1>3, <1>4 DEF TypeOK

LEMMA TearDownTypes ==
    ASSUME TypeOK, NEW x \in Coroutines, NEW l, NEW m,
           Fits(x, l), Fits(x, m), TearDown(x, l, m)
    PROVE  TypeOK'
<1>1. PcTypes'
  BY GotoTypes DEF TearDown, TornDown, TypeOK, ControlTypes
<1>2. LockTypes' /\ MainTypes'
  BY SwitchTypes DEF TearDown, TornDown, Join, TypeOK
<1>3. ServiceTypes'
  BY DEF TearDown, TornDown, TunnelDown, TypeOK, ServiceTypes
<1>4. ControlTypes'
  BY <1>1 DEF TearDown, TypeOK, ServiceTypes, ControlTypes
<1>5. NativeTypes'
  BY SocketTypes DEF TearDown, TypeOK
<1> QED
  BY <1>2, <1>3, <1>4, <1>5 DEF TypeOK

LEMMA TearDownJoinedTypes ==
    ASSUME TypeOK, NEW x \in Coroutines, NEW m, Fits(x, m), TearDownJoined(x, m)
    PROVE  TypeOK'
<1>1. PcTypes'
  BY GotoTypes DEF TearDownJoined, TornDown, TypeOK, ControlTypes
<1>2. LockTypes' /\ MainTypes'
  BY SwitchTypes DEF TearDownJoined, TornDown, TypeOK
<1>3. ServiceTypes' /\ ControlTypes' /\ NativeTypes'
  BY <1>1 DEF TearDownJoined, TornDown, TypeOK, ServiceTypes, ControlTypes,
              NativeTypes, native
<1> QED
  BY <1>2, <1>3 DEF TypeOK

LEMMA ReportTypes ==
    ASSUME TypeOK, NEW x \in Coroutines, NEW new \in {"Failed", "Disconnected"},
           Fits(x, "done"), Report(x, new),
           UNCHANGED <<lock, target, attempt, native, crashed>>
    PROVE  TypeOK'
<1>1. PcTypes'
  BY GotoTypes DEF Report, TypeOK, ControlTypes
<1>2. LockTypes' /\ MainTypes'
  BY SwitchTypes DEF Report, TypeOK
<1>3. ServiceTypes' /\ ControlTypes' /\ NativeTypes'
  BY <1>1 DEF Report, UpdateStatus, TypeOK, ServiceTypes, ControlTypes, NativeTypes,
              native
<1> QED
  BY <1>2, <1>3 DEF TypeOK

LEMMA TeardownStepTypes ==
    ASSUME TypeOK, NEW x \in Coroutines,
           \/ x \in StartCalls /\ (CleanUp(x) \/ CleanJoined(x) \/ ShowFailed(x))
           \/ x \in StopCalls \cup Loops /\ StopStep(x)
    PROVE  TypeOK'
<1>1. CASE x \in StartCalls /\ (CleanUp(x) \/ CleanJoined(x) \/ ShowFailed(x))
  <2>1. Fits(x, "cleanJoin") /\ Fits(x, "cleaned") /\ Fits(x, "done")
    BY <1>1, FitsStart DEF StartPc
  <2> QED
    BY <1>1, <2>1, TearDownTypes, TearDownJoinedTypes, ReportTypes
       DEF CleanUp, CleanJoined, ShowFailed
<1>2. CASE x \in StopCalls \cup Loops /\ StopStep(x)
  <2>1. Fits(x, "stopJoin") /\ Fits(x, "stopped") /\ Fits(x, "done")
    BY <1>2, FitsStop, FitsLoop DEF StopPc, LoopPc
  <2> QED
    BY <1>2, <2>1, TearDownTypes, TearDownJoinedTypes, ReportTypes
       DEF StopStep, Stop, StopJoined, ShowDisconnected
<1> QED
  BY <1>1, <1>2

LEMMA LoopTypes ==
    ASSUME TypeOK, NEW j \in Loops,
           RunLoop(j) \/ Listener(j) \/ CheckExit(j) \/ LoopFailed(j) \/ LoopEnded(j)
    PROVE  TypeOK'
<1>1. PcTypes'
  <2>1. UNCHANGED pc
          \/ \E l \in {"running", "failed", "check", "ended", "done", "stopLock"} :
               Goto(j, l)
    BY DEF RunLoop, Listener, CheckExit, LoopFailed, LoopEnded
  <2>2. CASE UNCHANGED pc
    BY <2>2 DEF TypeOK, ControlTypes, PcTypes
  <2> QED
    BY <2>1, <2>2, FitsLoop, GotoTypes
       DEF LoopPc, TypeOK, ControlTypes, Coroutines
<1>2. LockTypes' /\ MainTypes'
  BY SwitchTypes DEF RunLoop, Listener, CheckExit, LoopFailed, LoopEnded, TypeOK,
                     Coroutines, lock, main
<1>3. ServiceTypes'
  BY DEF RunLoop, Listener, CheckExit, LoopFailed, LoopEnded, UpdateStatus, TypeOK,
         ServiceTypes, service
<1>4. ControlTypes'
  BY <1>1 DEF RunLoop, Listener, CheckExit, LoopFailed, LoopEnded, TypeOK,
              ControlTypes
<1>5. NativeTypes'
  <2>1. CASE RunLoop(j)
    BY <2>1 DEF RunLoop, TypeOK, NativeTypes
  <2>2. CASE Listener(j) \/ CheckExit(j)
    BY <2>2 DEF Listener, CheckExit, TypeOK, NativeTypes
  <2>3. CASE LoopFailed(j) \/ LoopEnded(j)
    BY <2>3 DEF LoopFailed, LoopEnded, native, TypeOK, NativeTypes
  <2> QED
    BY <2>1, <2>2, <2>3
<1> QED
  BY <1>2, <1>3, <1>4, <1>5 DEF TypeOK

LEMMA TgTypes ==
    ASSUME TypeOK, NEW g \in TgJobs, TgStep(g)
    PROVE  TypeOK'
<1>1. PICK l \in {"tgLock", "done"} : Goto(g, l)
  BY DEF TgStep, TgLock, TgStart
<1>2. PcTypes'
  BY <1>1, FitsTg, GotoTypes DEF TgPc, TypeOK, ControlTypes, Coroutines
<1>3. LockTypes' /\ MainTypes'
  BY LockingTypes, TurnTypes DEF TgStep, TgLock, TgStart, TypeOK, Coroutines, main,
                                 MainTypes
<1>4. ServiceTypes'
  BY DEF TgStep, TgLock, TgStart, TypeOK, ServiceTypes, service
<1>5. ControlTypes' /\ NativeTypes'
  BY <1>2 DEF TgStep, TgLock, TgStart, TypeOK, ControlTypes, NativeTypes, native
<1> QED
  BY <1>3, <1>4, <1>5 DEF TypeOK

LEMMA NextTypes == TypeOK /\ [Next]_vars => TypeOK'
<1> SUFFICES ASSUME TypeOK, [Next]_vars PROVE TypeOK'
  OBVIOUS
<1>1. ASSUME NEW c \in StartCalls, OnStart(c) \/ StartStep(c) PROVE TypeOK'
  <2>1. CASE OnStart(c)
    BY <2>1, OnCallTypes
  <2>2. CASE EnterStart(c) \/ PresetFails(c) \/ NextPreset(c) \/ Failing(c)
    BY <2>2, EnterTypes
  <2>3. CASE TryPreset(c) \/ PresetWorks(c) \/ Fallback(c) \/ ShowConnected(c)
    BY <2>3, TryPresetTypes, PresetWorksTypes, FallbackTypes, ShowConnectedTypes
  <2>4. CASE CleanUp(c) \/ CleanJoined(c) \/ ShowFailed(c)
    BY <2>4, TeardownStepTypes DEF Coroutines
  <2> QED
    BY <1>1, <2>1, <2>2, <2>3, <2>4 DEF StartStep
<1>2. ASSUME NEW c \in StopCalls, OnStop(c) \/ StopStep(c) PROVE TypeOK'
  BY <1>2, OnCallTypes, TeardownStepTypes DEF Coroutines
<1>3. ASSUME NEW j \in Loops, LoopStep(j) PROVE TypeOK'
  BY <1>3, LoopTypes, TeardownStepTypes DEF LoopStep, Coroutines
<1>4. ASSUME NEW g \in TgJobs, TgStep(g) PROVE TypeOK'
  BY <1>4, TgTypes
<1>5. CASE UNCHANGED vars
  BY <1>5 DEF vars, service, lock, main, control, native, TypeOK, ServiceTypes,
              LockTypes, MainTypes, ControlTypes, PcTypes, NativeTypes
<1> QED
  BY <1>1, <1>2, <1>3, <1>4, <1>5 DEF Next

\* Every variable keeps its type, and every coroutine the labels of its kind.
THEOREM TypeCorrect == Spec => []TypeOK
BY InitTypes, NextTypes, PTL DEF Spec

-----------------------------------------------------------------------------
(* The inductive invariant                                                 *)

OpenIsOwned == \A s \in Loops : sock[s] = "open" => fd = s

\* Nobody is selected while a start() still tries presets; the preset under test
\* and the selected one have the descriptor.
Selected ==
    /\ \A c \in StartCalls :
         /\ pc[c] \in {"opening", "testing", "joining"} => proxyJob = Null
         /\ pc[c] = "testing" => fd = target[c] /\ fd # Null
    /\ proxyJob # Null /\ ~stopping => fd # Null

IInv ==
    /\ TypeOK /\ TeardownIsExclusive /\ ListenerIsOwned /\ TeardownIsDown
    /\ Selected

\* reset() leaves no listener open.
LEMMA ResetShuts ==
    ASSUME NativeTypes, OpenIsOwned
    PROVE  /\ SocketsReset \in [Loops -> {"none", "open", "shut", "closed"}]
           /\ \A s \in Loops : SocketsReset[s] # "open"
<1>1. CASE fd = Null
  BY <1>1, SetsAssumption
     DEF SocketsReset, NativeTypes, OpenIsOwned, Coroutines
<1>2. CASE fd # Null
  <2>1. SocketsReset = ShutDown(fd) /\ fd \in Loops
    BY <1>2 DEF SocketsReset, NativeTypes
  <2>2. CASE sock[fd] = "open"
    BY <2>1, <2>2 DEF ShutDown, NativeTypes, OpenIsOwned
  <2>3. CASE sock[fd] # "open"
    BY <2>1, <2>3 DEF ShutDown, NativeTypes, OpenIsOwned
  <2> QED
    BY <2>2, <2>3
<1> QED
  BY <1>1, <1>2

LEMMA ListenerStep ==
    ASSUME NativeTypes, OpenIsOwned,
           \/ Reset \/ StopNative
           \/ \E j \in Loops : OpenSocket(j) 
           \/ \E j \in Loops : RunLoop(j) \/ CheckExit(j)
           \/ UNCHANGED <<fd, sock>>
    PROVE  OpenIsOwned'
<1>1. CASE Reset
  BY <1>1, ResetShuts DEF Reset, OpenIsOwned
<1>2. CASE StopNative
  <2> SUFFICES ASSUME NEW s \in Loops, sock'[s] = "open" PROVE fd' = s
    BY DEF OpenIsOwned
  <2>1. sock[s] = "open"
    BY <1>2 DEF StopNative, ShutDown, NativeTypes
  <2>2. fd = s
    BY <2>1 DEF OpenIsOwned
  <2>3. sock' = [sock EXCEPT ![s] = "shut"]
    BY <1>2, <2>1, <2>2 DEF StopNative, ShutDown
  <2>4. sock'[s] = "shut"
    BY <2>3 DEF NativeTypes
  <2> QED
    BY <2>4
<1>3. ASSUME NEW j \in Loops, OpenSocket(j) PROVE OpenIsOwned'
  BY <1>3, ResetShuts DEF OpenSocket, OpenIsOwned
<1>4. ASSUME NEW j \in Loops, RunLoop(j) \/ CheckExit(j) PROVE OpenIsOwned'
  BY <1>4 DEF RunLoop, CheckExit, NativeTypes, OpenIsOwned
<1>5. CASE UNCHANGED <<fd, sock>>
  BY <1>5 DEF OpenIsOwned
<1> QED
  BY <1>1, <1>2, <1>3, <1>4, <1>5

LEMMA ListenerInductive ==
    TypeOK /\ OpenIsOwned /\ [Next]_vars => OpenIsOwned'
<1> SUFFICES ASSUME TypeOK, OpenIsOwned, [Next]_vars PROVE OpenIsOwned'
  OBVIOUS
<1> USE DEF TypeOK
<1>1. ASSUME NEW c \in StartCalls, OnStart(c) \/ StartStep(c)
      PROVE  OpenIsOwned'
  <2>1. \/ Reset \/ StopNative \/ \E j \in Loops : OpenSocket(j)
        \/ UNCHANGED <<fd, sock>>
    BY <1>1 DEF OnStart, StartStep, EnterStart, TryPreset, PresetWorks, PresetFails,
         NextPreset, Fallback, ShowConnected, Failing, CleanUp, CleanJoined,
         ShowFailed, TearDown, TearDownJoined, native
  <2> QED
    BY <2>1, ListenerStep
<1>2. ASSUME NEW x \in Coroutines, OnStop(x) \/ StopStep(x)
      PROVE  OpenIsOwned'
  <2>1. Reset \/ StopNative \/ UNCHANGED <<fd, sock>>
    BY <1>2 DEF OnStop, StopStep, Stop, StopJoined, ShowDisconnected, TearDown,
                TearDownJoined, native
  <2> QED
    BY <2>1, ListenerStep
<1>3. ASSUME NEW j \in Loops, LoopStep(j)
      PROVE  OpenIsOwned'
  <2>1. CASE RunLoop(j) \/ CheckExit(j)
    BY <2>1, ListenerStep
  <2>2. CASE StopStep(j)
    BY <2>2, <1>2 DEF Coroutines
  <2>3. CASE Listener(j) \/ LoopFailed(j) \/ LoopEnded(j)
    <3>1. UNCHANGED <<fd, sock>>
      BY <2>3 DEF Listener, LoopFailed, LoopEnded, native
    <3> QED
      BY <3>1, ListenerStep
  <2> QED
    BY <1>3, <2>1, <2>2, <2>3 DEF LoopStep
<1>4. ASSUME NEW g \in TgJobs, TgStep(g) PROVE OpenIsOwned'
  BY <1>4, ListenerStep DEF TgStep, TgLock, TgStart, native
<1>5. CASE UNCHANGED vars
  BY <1>5 DEF vars, native, OpenIsOwned
<1> QED
  BY <1>1, <1>2, <1>3, <1>4, <1>5 DEF Next, Coroutines

LEMMA ExclusiveInductive ==
    TypeOK /\ TeardownIsExclusive /\ [Next]_vars => TeardownIsExclusive'
<1> SUFFICES ASSUME TypeOK, TeardownIsExclusive, [Next]_vars
             PROVE  TeardownIsExclusive'
  OBVIOUS
<1> USE SetsAssumption
    DEF TypeOK, ControlTypes, PcTypes, TeardownIsExclusive, Critical, InTeardown,
        Coroutines, Lock, Unlock, Goto, lock
<1>1. ASSUME NEW c \in StartCalls, OnStart(c) PROVE TeardownIsExclusive'
  BY <1>1 DEF OnStart, Launch
<1>2. ASSUME NEW c \in StartCalls, EnterStart(c) PROVE TeardownIsExclusive'
  <2>1. /\ c \in Coroutines /\ holder = c /\ pc[c] = "startLock" /\ stopping' = stopping
        /\ \E l \in {"opening", "failing"} : pc' = [pc EXCEPT ![c] = l]
        /\ pc'[c] = "opening" => holder' = holder
    BY <1>2 DEF EnterStart, Throw, service
  <2>2. \A d \in Coroutines : ~Critical(d)
    BY <2>1
  <2>3. \A d \in Coroutines : /\ ~InTeardown(d)'
                              /\ Critical(d)' => d = c /\ pc'[c] = "opening"
    BY <2>1, <2>2
  <2> QED
    BY <2>1, <2>2, <2>3
<1>3. ASSUME NEW c \in StartCalls, TryPreset(c) PROVE TeardownIsExclusive'
  BY <1>3 DEF TryPreset, service, OpenSocket, Fresh
<1>4. ASSUME NEW c \in StartCalls, PresetWorks(c) PROVE TeardownIsExclusive'
  BY <1>4 DEF PresetWorks, Connect, TunnelFails, Throw, Fresh
<1>5. ASSUME NEW c \in StartCalls, PresetFails(c) \/ NextPreset(c)
      PROVE  TeardownIsExclusive'
  BY <1>5 DEF PresetFails, NextPreset, service
<1>6. ASSUME NEW c \in StartCalls, Fallback(c) PROVE TeardownIsExclusive'
  <2>1. CASE Throw(c, pc) /\ UNCHANGED service
    BY <1>6, <2>1 DEF Fallback, Throw, service
  <2>2. ASSUME NEW j \in Loops, OpenSocket(j), NEW pcs,
               pcs = [pc EXCEPT ![j] = "launched"],
               Connect(c, j, pcs) \/ TunnelFails(c, j, pcs)
        PROVE  TeardownIsExclusive'
    <3>1. /\ pc[c] = "opening" /\ stopping' = stopping /\ pc[j] = "idle"
          /\ \E l \in {"connected", "failing"} : pc' = [pcs EXCEPT ![c] = l]
      BY <1>6, <2>2 DEF Fallback, Connect, TunnelFails, Throw, OpenSocket, Fresh
    <3>2. \A d \in Coroutines : Critical(d) => d = c
      BY <3>1
    <3>3. \A d \in Coroutines : ~Critical(d)'
      BY <2>2, <3>1, <3>2
    <3> QED
      BY <3>1, <3>2, <3>3
  <2> QED
    BY <1>6, <2>1, <2>2 DEF Fallback
<1>7. ASSUME NEW x \in Coroutines, NEW l \in {"stopJoin", "cleanJoin"},
             NEW m \in {"stopped", "cleaned"}, ~Critical(x), TearDown(x, l, m)
      PROVE  TeardownIsExclusive'
  BY <1>7 DEF TearDown, TornDown
<1>8. ASSUME NEW x \in Coroutines, NEW m \in {"stopped", "cleaned"}, InTeardown(x),
             TearDownJoined(x, m)
      PROVE  TeardownIsExclusive'
  BY <1>8 DEF TearDownJoined, TornDown
<1>r. ASSUME NEW x \in Coroutines, ShowDisconnected(x) \/ ShowFailed(x)
      PROVE  TeardownIsExclusive'
  BY <1>r DEF ShowDisconnected, ShowFailed, Report
<1>9. ASSUME NEW x \in Coroutines,
             StopStep(x) \/ CleanUp(x) \/ CleanJoined(x) \/ ShowFailed(x)
      PROVE  TeardownIsExclusive'
  BY <1>7, <1>8, <1>r, <1>9 DEF StopStep, Stop, StopJoined, CleanUp, CleanJoined
<1>10. ASSUME NEW j \in Loops, RunLoop(j) \/ Listener(j) \/ CheckExit(j)
       PROVE  TeardownIsExclusive'
  BY <1>10 DEF RunLoop, Listener, CheckExit, service
<1>11. ASSUME NEW j \in Loops, LoopFailed(j) \/ LoopEnded(j)
       PROVE  TeardownIsExclusive'
  BY <1>11 DEF LoopFailed, LoopEnded, Acquire, service
<1>12. ASSUME NEW g \in TgJobs, TgStep(g) PROVE TeardownIsExclusive'
  BY <1>12 DEF TgStep, TgLock, TgStart, service
<1>13. ASSUME NEW c \in StopCalls, OnStop(c) PROVE TeardownIsExclusive'
  BY <1>13 DEF OnStop, Launch, service
<1>14. CASE UNCHANGED vars
  BY <1>14 DEF vars, service, control
<1>17. ASSUME NEW c \in StartCalls, ShowConnected(c) \/ Failing(c)
       PROVE  TeardownIsExclusive'
  BY <1>17 DEF ShowConnected, Fresh, Failing, Acquire, service
<1> HIDE DEF TeardownIsExclusive, TypeOK, Lock, Unlock, Goto
<1>15. ASSUME NEW c \in StartCalls, StartStep(c) PROVE TeardownIsExclusive'
  BY <1>2, <1>3, <1>4, <1>5, <1>6, <1>9, <1>15, <1>17 DEF StartStep
<1>16. ASSUME NEW j \in Loops, LoopStep(j) PROVE TeardownIsExclusive'
  BY <1>9, <1>10, <1>11, <1>16 DEF LoopStep
<1> QED
  BY <1>1, <1>9, <1>12, <1>13, <1>14, <1>15, <1>16 DEF Next

\* What a step of the owner of the mutex does to the calls that try presets.
LEMMA SelectedInductive == IInv /\ [Next]_vars => Selected'
<1> SUFFICES ASSUME IInv, [Next]_vars PROVE Selected'
  OBVIOUS
<1> USE SetsAssumption
    DEF IInv, TypeOK, ServiceTypes, ControlTypes, PcTypes, NativeTypes,
        TeardownIsExclusive, Critical, InTeardown, Selected, Coroutines, Goto
<1>1. ASSUME NEW c \in StartCalls, OnStart(c) PROVE Selected'
  BY <1>1 DEF OnStart, native
<1>2. ASSUME NEW c \in StartCalls, EnterStart(c) PROVE Selected'
  BY <1>2 DEF EnterStart, Throw, ProxyFieldsNull, service, native
<1>3. ASSUME NEW c \in StartCalls, TryPreset(c) PROVE Selected'
  <2>1. /\ proxyJob = Null /\ UNCHANGED service /\ pc[c] = "opening"
        /\ \A d \in StartCalls : Critical(d) => d = c
    BY <1>3 DEF TryPreset
  <2>2. CASE UNCHANGED pc
    BY <2>1, <2>2 DEF service
  <2>3. ASSUME NEW j \in Loops, pc' = [pc EXCEPT ![c] = "testing", ![j] = "launched"],
               target' = [target EXCEPT ![c] = j], fd' = j
        PROVE  Selected'
    BY <2>1, <2>3 DEF service
  <2> QED
    BY <1>3, <2>2, <2>3 DEF TryPreset, OpenSocket
<1>4. ASSUME NEW c \in StartCalls, NEW j \in Loops, NEW pcs, NEW l,
             pc[c] \in {"testing", "opening"}, fd' = j, proxyJob' = j,
             pcs = pc \/ (pcs = [pc EXCEPT ![j] = "launched"]),
             l \in {"connected", "failing"}, pc' = [pcs EXCEPT ![c] = l]
      PROVE  Selected'
  <2>1. \A d \in StartCalls : Critical(d) => d = c
    BY <1>4
  <2>2. \A d \in StartCalls : ~Critical(d)'
    BY <1>4, <2>1
  <2> QED
    BY <1>4, <2>2
<1>5. ASSUME NEW c \in StartCalls, PresetWorks(c) PROVE Selected'
  <2>1. /\ fd' = target[c] /\ target[c] \in Loops /\ pc[c] = "testing"
    BY <1>5 DEF PresetWorks, native
  <2>2. /\ proxyJob' = target[c]
        /\ \E l \in {"connected", "failing"} : pc' = [pc EXCEPT ![c] = l]
    BY <1>5 DEF PresetWorks, Connect, TunnelFails, Throw
  <2> QED
    BY <1>4, <2>1, <2>2
<1>6. ASSUME NEW c \in StartCalls, PresetFails(c) \/ NextPreset(c) PROVE Selected'
  BY <1>6 DEF PresetFails, NextPreset, service
<1>7. ASSUME NEW c \in StartCalls, Fallback(c) PROVE Selected'
  <2>1. CASE Throw(c, pc) /\ UNCHANGED <<service, target>>
    <3>1. proxyJob' = Null /\ pc' = [pc EXCEPT ![c] = "failing"]
      BY <1>7, <2>1 DEF Fallback, Throw, service
    <3>2. \A d \in StartCalls : Critical(d) => d = c
      BY <1>7 DEF Fallback
    <3>3. \A d \in StartCalls : ~Critical(d)'
      BY <3>1, <3>2
    <3> QED
      BY <3>1, <3>3
  <2>2. ASSUME NEW j \in Loops, OpenSocket(j),
               LET launched == [pc EXCEPT ![j] = "launched"]
               IN  Connect(c, j, launched) \/ TunnelFails(c, j, launched)
        PROVE  Selected'
    <3>1. /\ fd' = j /\ pc[c] = "opening" /\ proxyJob' = j
          /\ \E l \in {"connected", "failing"} :
               pc' = [[pc EXCEPT ![j] = "launched"] EXCEPT ![c] = l]
      BY <1>7, <2>2 DEF Fallback, Connect, TunnelFails, Throw, OpenSocket
    <3> QED
      BY <1>4, <3>1
  <2> QED
    BY <1>7, <2>1, <2>2 DEF Fallback
<1>8. ASSUME NEW x \in Coroutines, NEW l \in {"stopJoin", "cleanJoin"},
             NEW m \in {"stopped", "cleaned"}, ~Critical(x), TearDown(x, l, m)
      PROVE  Selected'
  <2>1. \A d \in Coroutines : ~Critical(d)
    BY <1>8 DEF TearDown
  <2>2. \E k \in {l, m} : pc' = [pc EXCEPT ![x] = k]
    BY <1>8 DEF TearDown, TornDown
  <2>3. \A d \in StartCalls : pc'[d] \notin {"opening", "testing", "joining"}
    BY <2>1, <2>2
  <2>4. stopping' \/ proxyJob' = Null
    BY <1>8 DEF TearDown, TornDown
  <2> QED
    BY <2>3, <2>4
<1>9. ASSUME NEW x \in Coroutines, NEW m \in {"stopped", "cleaned"},
             InTeardown(x), TearDownJoined(x, m)
      PROVE  Selected'
  <2>1. \A d \in Coroutines : Critical(d) => d = x
    BY <1>9
  <2>2. pc' = [pc EXCEPT ![x] = m] /\ proxyJob' = Null
    BY <1>9 DEF TearDownJoined, TornDown
  <2>3. \A d \in StartCalls : pc'[d] \notin {"opening", "testing", "joining"}
    BY <2>1, <2>2
  <2> QED
    BY <2>2, <2>3
<1>10. ASSUME NEW x \in Coroutines, ShowDisconnected(x) \/ ShowFailed(x)
       PROVE  Selected'
  BY <1>10 DEF ShowDisconnected, ShowFailed, Report, UpdateStatus, native
<1>11. ASSUME NEW x \in Coroutines,
              StopStep(x) \/ CleanUp(x) \/ CleanJoined(x) \/ ShowFailed(x)
       PROVE  Selected'
  BY <1>8, <1>9, <1>10, <1>11 DEF StopStep, Stop, StopJoined, CleanUp, CleanJoined
<1>12. ASSUME NEW j \in Loops, RunLoop(j) \/ Listener(j) \/ CheckExit(j)
       PROVE  Selected'
  BY <1>12 DEF RunLoop, Listener, CheckExit, service
<1>13. ASSUME NEW j \in Loops, LoopFailed(j) \/ LoopEnded(j) PROVE Selected'
  BY <1>13 DEF LoopFailed, LoopEnded, UpdateStatus, service, native
<1>14. ASSUME NEW g \in TgJobs, TgStep(g) PROVE Selected'
  <2>1. /\ UNCHANGED <<fd, target, proxyJob, stopping>>
        /\ \E l : pc' = [pc EXCEPT ![g] = l]
    BY <1>14 DEF TgStep, TgLock, TgStart, native, service
  <2> QED
    BY <2>1
<1>15. ASSUME NEW c \in StopCalls, OnStop(c) PROVE Selected'
  BY <1>15 DEF OnStop, service, native
<1>16. ASSUME NEW c \in StartCalls, ShowConnected(c) \/ Failing(c) PROVE Selected'
  BY <1>16 DEF ShowConnected, Failing, UpdateStatus, Fresh, service, native
<1>17. CASE UNCHANGED vars
  BY <1>17 DEF vars, service, control, native
<1> HIDE DEF Selected, IInv, Goto
<1>18. ASSUME NEW c \in StartCalls, StartStep(c) PROVE Selected'
  BY <1>2, <1>3, <1>5, <1>6, <1>7, <1>11, <1>16, <1>18 DEF StartStep
<1>19. ASSUME NEW j \in Loops, LoopStep(j) PROVE Selected'
  BY <1>11, <1>12, <1>13, <1>19 DEF LoopStep
<1> QED
  BY <1>1, <1>11, <1>14, <1>15, <1>17, <1>18, <1>19 DEF Next

LEMMA DownInductive ==
    IInv /\ [Next]_vars => TeardownIsDown'
<1> SUFFICES ASSUME IInv, [Next]_vars PROVE TeardownIsDown'
  OBVIOUS
<1> USE SetsAssumption
    DEF IInv, TypeOK, ControlTypes, PcTypes, NativeTypes, TeardownIsExclusive,
        TeardownIsDown, ListenerIsOwned, Critical, InTeardown, Coroutines, Goto
<1>1. ASSUME NEW c \in StartCalls, OnStart(c) PROVE TeardownIsDown'
  BY <1>1 DEF OnStart, native
<1>2. ASSUME NEW c \in StartCalls, EnterStart(c) PROVE TeardownIsDown'
  BY <1>2 DEF EnterStart, Throw, service, native
<1>3. ASSUME NEW c \in StartCalls, TryPreset(c) PROVE TeardownIsDown'
  BY <1>3 DEF TryPreset, service, OpenSocket, Fresh
<1>4. ASSUME NEW c \in StartCalls, NEW pcs, NEW l, NEW d \in Loops,
             pc[c] \in {"testing", "opening"},
             pcs = pc \/ (pcs = [pc EXCEPT ![d] = "launched"]),
             l \in {"connected", "failing"}, pc' = [pcs EXCEPT ![c] = l]
      PROVE  TeardownIsDown'
  BY <1>4
<1>5. ASSUME NEW c \in StartCalls, PresetFails(c) \/ NextPreset(c)
      PROVE  TeardownIsDown'
  BY <1>5 DEF PresetFails, NextPreset, service
<1>6. ASSUME NEW c \in StartCalls, Fallback(c) \/ PresetWorks(c) PROVE TeardownIsDown'
  <2>1. CASE PresetWorks(c)
    <3>1. \A d \in Coroutines : ~InTeardown(d)'
      BY <2>1 DEF PresetWorks, Connect, TunnelFails, Throw
    <3> QED
      BY <3>1
  <2>2. CASE Fallback(c)
    <3>1. CASE Throw(c, pc)
      <4>1. pc[c] = "opening" /\ pc' = [pc EXCEPT ![c] = "failing"]
        BY <2>2, <3>1 DEF Fallback, Throw
      <4>2. \A d \in Coroutines : ~InTeardown(d)'
        BY <4>1
      <4> QED
        BY <4>2
    <3>2. ASSUME NEW j \in Loops,
                 LET launched == [pc EXCEPT ![j] = "launched"]
                 IN  Connect(c, j, launched) \/ TunnelFails(c, j, launched)
          PROVE  TeardownIsDown'
      <4>1. /\ pc[c] = "opening"
            /\ \E l \in {"connected", "failing"} :
                 pc' = [[pc EXCEPT ![j] = "launched"] EXCEPT ![c] = l]
        BY <2>2, <3>2 DEF Fallback, Connect, TunnelFails, Throw
      <4> QED
        BY <1>4, <4>1
    <3> QED
      BY <2>2, <3>1, <3>2 DEF Fallback
  <2> QED
    BY <1>6, <2>1, <2>2
<1>7. ASSUME NEW x \in Coroutines, NEW l \in {"stopJoin", "cleanJoin"},
             NEW m \in {"stopped", "cleaned"}, ~Critical(x), TearDown(x, l, m)
      PROVE  TeardownIsDown'
  BY <1>7 DEF TearDown, TornDown, TunnelDown, StopNative, ShutDown
<1>8. ASSUME NEW x \in Coroutines, NEW m \in {"stopped", "cleaned"}, InTeardown(x),
             TearDownJoined(x, m)
      PROVE  TeardownIsDown'
  BY <1>8 DEF TearDownJoined, TornDown, native
<1>r. ASSUME NEW x \in Coroutines, ShowDisconnected(x) \/ ShowFailed(x)
      PROVE  TeardownIsDown'
  BY <1>r DEF ShowDisconnected, ShowFailed, Report, native
<1>10. ASSUME NEW j \in Loops, RunLoop(j) \/ Listener(j) \/ CheckExit(j)
       PROVE  TeardownIsDown'
  BY <1>10 DEF RunLoop, Listener, CheckExit, service
<1>11. ASSUME NEW j \in Loops, LoopFailed(j) \/ LoopEnded(j)
       PROVE  TeardownIsDown'
  BY <1>11 DEF LoopFailed, LoopEnded, service, native
<1>12. ASSUME NEW g \in TgJobs, TgStep(g) PROVE TeardownIsDown'
  BY <1>12 DEF TgStep, TgLock, TgStart, service, native
<1>13. ASSUME NEW c \in StopCalls, OnStop(c) PROVE TeardownIsDown'
  BY <1>13 DEF OnStop, service, native
<1>14. CASE UNCHANGED vars
  BY <1>14 DEF vars, service, control, native
<1>17. ASSUME NEW c \in StartCalls, ShowConnected(c) \/ Failing(c)
       PROVE  TeardownIsDown'
  BY <1>17 DEF ShowConnected, Failing, Fresh, service, native
<1>9. ASSUME NEW x \in Coroutines,
             StopStep(x) \/ CleanUp(x) \/ CleanJoined(x) \/ ShowFailed(x)
      PROVE  TeardownIsDown'
  BY <1>7, <1>8, <1>r, <1>9 DEF StopStep, Stop, StopJoined, CleanUp, CleanJoined
<1> HIDE DEF TeardownIsDown, IInv, Goto
<1>15. ASSUME NEW c \in StartCalls, StartStep(c) PROVE TeardownIsDown'
  BY <1>2, <1>3, <1>5, <1>6, <1>9, <1>15, <1>17 DEF StartStep
<1>16. ASSUME NEW j \in Loops, LoopStep(j) PROVE TeardownIsDown'
  BY <1>9, <1>10, <1>11, <1>16 DEF LoopStep
<1> QED
  BY <1>1, <1>9, <1>12, <1>13, <1>14, <1>15, <1>16 DEF Next

LEMMA InvariantInductive ==
    /\ Init => IInv
    /\ IInv /\ [Next]_vars => IInv'
<1>1. Init => TeardownIsExclusive /\ ListenerIsOwned /\ TeardownIsDown /\ Selected
  BY SetsAssumption DEF Init, TeardownIsExclusive, ListenerIsOwned, TeardownIsDown,
                        Selected, Critical, InTeardown, Coroutines
<1>2. ListenerIsOwned <=> OpenIsOwned /\ (proxyJob # Null /\ ~stopping => fd # Null)
  BY DEF ListenerIsOwned, OpenIsOwned
<1>3. IInv /\ [Next]_vars => ListenerIsOwned'
  BY <1>2, ListenerInductive, SelectedInductive
     DEF IInv, Selected, ListenerIsOwned, OpenIsOwned
<1> QED
  BY <1>1, <1>3, InitTypes, NextTypes, ExclusiveInductive, SelectedInductive,
     DownInductive DEF IInv

THEOREM Invariance == Spec => []IInv
BY InvariantInductive, PTL DEF Spec

\* The flag "stopping" is up exactly while a teardown waits for a loop job, and
\* only the owner of the service mutex is inside start(), stop() or the clean-up.
THEOREM TeardownExclusion == Spec => []TeardownIsExclusive
<1>1. IInv => TeardownIsExclusive
  BY DEF IInv
<1> QED
  BY <1>1, Invariance, PTL

\* Whatever fails or is retried, ByeDpiProxy holds the only open listener, and the
\* selected job has a descriptor to stop.
THEOREM ListenerOwnership == Spec => []ListenerIsOwned
<1>1. IInv => ListenerIsOwned
  BY DEF IInv
<1> QED
  BY <1>1, Invariance, PTL

\* Nothing reopens the tunnel or a listener behind a teardown in progress.
THEOREM TeardownEffect == Spec => []TeardownIsDown
<1>1. IInv => TeardownIsDown
  BY DEF IInv
<1> QED
  BY <1>1, Invariance, PTL

-----------------------------------------------------------------------------
(* The effect of stop()                                                    *)

StopReturns(c) ==
    pc[c] # "stopped" /\ pc'[c] = "stopped" =>
         /\ ~tun' /\ ~tgws' /\ proxyJob' = Null
         /\ \A s \in Loops : sock'[s] # "open"
         /\ pc[c] = "stopJoin" => pc[target[c]] = "done"

LEMMA StopReturnsComplete ==
    ASSUME IInv, [Next]_vars, NEW c \in StopCalls
    PROVE  StopReturns(c)
<1>1. CASE Stop(c)
  <2>1. CASE proxyJob # Null
    <3>1. pc'[c] # "stopped"
      BY <1>1, <2>1 DEF Stop, TearDown, Goto, IInv, TypeOK, ControlTypes, PcTypes,
                        Coroutines
    <3> QED
      BY <3>1 DEF StopReturns
  <2>2. CASE proxyJob = Null
    <3>1. sock' = SocketsReset /\ ~tun' /\ ~tgws' /\ proxyJob' = Null
      BY <1>1, <2>2 DEF Stop, TearDown, TunnelDown, TornDown, Reset
    <3>2. \A s \in Loops : sock'[s] # "open"
      BY <3>1, ResetShuts DEF IInv, TypeOK, ListenerIsOwned, OpenIsOwned
    <3>3. pc[c] # "stopJoin"
      BY <1>1 DEF Stop
    <3> QED
      BY <3>1, <3>2, <3>3 DEF StopReturns
  <2> QED
    BY <2>1, <2>2
<1>2. CASE StopJoined(c)
  <2>1. ~tun /\ ~tgws /\ \A s \in Loops : sock[s] # "open"
    BY <1>2 DEF IInv, TeardownIsDown, InTeardown, StopJoined, Coroutines
  <2> QED
    BY <1>2, <2>1 DEF StopJoined, TearDownJoined, Joined, TornDown, native,
                      StopReturns
<1>3. CASE pc'[c] = pc[c]
  BY <1>3 DEF StopReturns
<1>4. CASE OnStop(c) \/ ShowDisconnected(c)
  <2>1. pc'[c] # "stopped"
    BY <1>4 DEF OnStop, ShowDisconnected, Report, Goto, IInv, TypeOK, ControlTypes,
                PcTypes, Coroutines
  <2> QED
    BY <2>1 DEF StopReturns
<1> USE SetsAssumption DEF Goto, IInv, TypeOK, ControlTypes, PcTypes, Coroutines
<1>5. ASSUME NEW d \in StartCalls, OnStart(d) \/ StartStep(d)
      PROVE  pc'[c] = pc[c]
  <2>1. CASE Fallback(d) \/ PresetWorks(d) 
    BY <2>1 DEF PresetWorks, Fallback, Connect, TunnelFails, Throw, OpenSocket, Fresh
  <2>2. CASE TryPreset(d)
    BY <2>2 DEF TryPreset, OpenSocket, Fresh
  <2>3. CASE OnStart(d) \/ EnterStart(d) \/ PresetFails(d) \/ NextPreset(d) \/ Failing(d)
    BY <2>3 DEF OnStart, EnterStart, Throw, PresetFails, NextPreset, Failing
  <2>4. CASE CleanUp(d) \/ CleanJoined(d) \/ ShowFailed(d)
    BY <2>4 DEF CleanUp, CleanJoined, ShowFailed, TearDown, TearDownJoined, TornDown,
                Report
  <2>5. CASE ShowConnected(d)
    BY <2>5 DEF ShowConnected, Fresh
  <2> QED
    BY <1>5, <2>1, <2>2, <2>3, <2>4, <2>5 DEF StartStep
<1>6. ASSUME NEW d \in StopCalls, OnStop(d) \/ StopStep(d), d # c
      PROVE  pc'[c] = pc[c]
  BY <1>6 DEF OnStop, StopStep, Stop, StopJoined, ShowDisconnected, TearDown,
              TearDownJoined, TornDown, Report
<1>7. ASSUME NEW j \in Loops, LoopStep(j) PROVE pc'[c] = pc[c]
  <2>1. CASE StopStep(j)
    BY <2>1 DEF StopStep, Stop, StopJoined, ShowDisconnected, TearDown, TearDownJoined,
                TornDown, Report
  <2>2. CASE ~StopStep(j)
    BY <1>7, <2>2 DEF LoopStep, RunLoop, Listener, CheckExit, LoopFailed, LoopEnded
  <2> QED
    BY <2>1, <2>2
<1>8. ASSUME NEW g \in TgJobs, TgStep(g) PROVE pc'[c] = pc[c]
  BY <1>8 DEF TgStep, TgLock, TgStart
<1>9. CASE UNCHANGED vars
  BY <1>3, <1>9 DEF vars, control
<1> QED
  BY <1>1, <1>2, <1>3, <1>4, <1>5, <1>6, <1>7, <1>8, <1>9 DEF Next, StopStep

\* When a stop() gives the mutex back nothing of the connection is left.
THEOREM StopCompleteness == Spec => StopIsComplete
<1>1. IInv /\ [Next]_vars =>
        [\A c \in StopCalls : StopReturns(c)]_vars
  BY StopReturnsComplete
<1>2. StopIsComplete <=> [][\A c \in StopCalls : StopReturns(c)]_vars
  BY DEF StopIsComplete, StopReturns
<1> QED
  BY <1>1, <1>2, Invariance, PTL DEF Spec

-----------------------------------------------------------------------------
(* The mutex                                                               *)

Waits(c) == holder = c \/ \E i \in 1 .. Len(waiters) : waiters[i] = c

\* Nobody waits for a free mutex, and nobody has two places.
Once ==
    /\ holder = Null => waiters = <<>>
    /\ \A i, k \in 1 .. Len(waiters) : waiters[i] = waiters[k] => i = k
    /\ \A i \in 1 .. Len(waiters) : waiters[i] # holder

LockPc == {"startLock", "cleanLock", "stopLock", "tgLock"}

\* From mutex.lock() to the end of withLock.
Section(x) == pc[x] \in LockPc \/ Critical(x)

\* The mutex and its queue hold exactly the coroutines inside a withLock.
Accounted == Once /\ \A x \in Coroutines : Waits(x) <=> Section(x)

LEMMA Locks ==
    ASSUME LockTypes, Once, NEW x \in Coroutines, ~Waits(x), Lock(x)
    PROVE  Once' /\ \A c \in Coroutines : Waits(c)' <=> Waits(c) \/ c = x
<1>1. x # Null /\ Null \notin Coroutines
  BY SetsAssumption
<1>2. CASE holder = Null
  BY <1>1, <1>2 DEF Lock, Waits, LockTypes, Once
<1>3. CASE holder # Null
  <2>1. waiters' = Append(waiters, x) /\ holder' = holder
    BY <1>3 DEF Lock
  <2>2. /\ Len(waiters') = Len(waiters) + 1 /\ Len(waiters) \in Nat
        /\ waiters'[Len(waiters) + 1] = x
        /\ \A i \in 1 .. Len(waiters) : waiters'[i] = waiters[i]
    BY <2>1 DEF LockTypes
  <2>3. \A i \in 1 .. Len(waiters') : i \in 1 .. Len(waiters) \/ i = Len(waiters) + 1
    BY <2>2
  <2>4. Once'
    BY <1>3, <2>1, <2>2, <2>3 DEF Once, Waits
  <2>5. \A c \in Coroutines : Waits(c)' <=> Waits(c) \/ c = x
    BY <2>1, <2>2, <2>3 DEF Waits
  <2> QED
    BY <2>4, <2>5
<1> QED
  BY <1>2, <1>3

\* The first of the queue leaves it.
LEMMA Heads ==
    ASSUME LockTypes, waiters # <<>>
    PROVE  /\ Len(waiters) \in Nat \ {0} /\ Len(Tail(waiters)) = Len(waiters) - 1
           /\ Head(waiters) = waiters[1] /\ Head(waiters) \in Coroutines
           /\ Tail(waiters) \in Seq(Coroutines)
           /\ \A i \in 1 .. Len(waiters) - 1 : Tail(waiters)[i] = waiters[i + 1]
BY DEF LockTypes

LEMMA Places ==
    ASSUME NEW n \in Nat \ {0}
    PROVE  /\ 1 \in 1 .. n /\ n \in 1 .. n
           /\ \A i \in 1 .. n : i \in 1 .. n - 1 \/ i = n
           /\ \A i \in 1 .. n - 1 : i \in 1 .. n /\ i + 1 \in 1 .. n /\ i + 1 # 1
           /\ \A i \in 1 .. n \ {1} : i - 1 \in 1 .. n - 1 /\ (i - 1) + 1 = i
OBVIOUS

LEMMA Unlocks ==
    ASSUME LockTypes, Once, NEW x \in Coroutines, holder = x, Unlock
    PROVE  Once' /\ \A c \in Coroutines : Waits(c)' <=> Waits(c) /\ c # x
<1>0. Null \notin Coroutines
  BY SetsAssumption
<1>1. CASE waiters = <<>>
  BY <1>0, <1>1 DEF Unlock, Waits, Once
<1>2. CASE waiters # <<>>
  <2>1. holder' = waiters[1] /\ waiters' = Tail(waiters) /\ waiters[1] \in Coroutines
    BY <1>2, Heads DEF Unlock
  <2>2. /\ Len(waiters) \in Nat \ {0} /\ Len(waiters') = Len(waiters) - 1
        /\ 1 \in 1 .. Len(waiters)
        /\ \A i \in 1 .. Len(waiters') : i + 1 \in 1 .. Len(waiters) /\ waiters'[i] = waiters[i + 1]
        /\ \A i \in 1 .. Len(waiters) \ {1} : i - 1 \in 1 .. Len(waiters') /\ (i - 1) + 1 = i
    BY <1>2, <2>1, Heads
  <2>3. Once'
    <3>1. holder' # Null
      BY <1>0, <2>1
    <3>2. ASSUME NEW i \in 1 .. Len(waiters') PROVE waiters'[i] # holder'
      BY <2>1, <2>2, <3>2 DEF Once
    <3>3. ASSUME NEW i \in 1 .. Len(waiters'), NEW k \in 1 .. Len(waiters'), waiters'[i] = waiters'[k]
          PROVE  i = k
      <4>1. i + 1 = k + 1
        BY <2>2, <3>3 DEF Once
      <4> QED
        BY <4>1
    <3> QED
      BY <3>1, <3>2, <3>3 DEF Once
  <2>4. ASSUME NEW c \in Coroutines, Waits(c), c # x PROVE Waits(c)'
    <3>1. PICK i \in 1 .. Len(waiters) : waiters[i] = c
      BY <2>4 DEF Waits
    <3>2. CASE i = 1
      BY <2>1, <3>1, <3>2 DEF Waits
    <3>3. CASE i # 1
      <4>1. i - 1 \in 1 .. Len(waiters') /\ waiters'[i - 1] = c
        BY <2>2, <3>1, <3>3
      <4> QED
        BY <4>1 DEF Waits
    <3> QED
      BY <3>2, <3>3
  <2>5. ASSUME NEW c \in Coroutines, Waits(c)' PROVE Waits(c) /\ c # x
    <3>1. \E i \in 1 .. Len(waiters) : waiters[i] = c
      <4>1. CASE holder' = c
        BY <2>1, <2>2, <4>1
      <4>2. CASE holder' # c
        BY <2>2, <2>5, <4>2 DEF Waits
      <4> QED
        BY <4>1, <4>2
    <3> QED
      BY <3>1 DEF Waits, Once
  <2> QED
    BY <2>3, <2>4, <2>5
<1> QED
  BY <1>1, <1>2

\* One coroutine enters a withLock or leaves it.
LEMMA SectionStep ==
    ASSUME LockTypes, Accounted, NEW x \in Coroutines,
           \A y \in Coroutines \ {x} : Section(y)' <=> Section(y),
           \/ UNCHANGED lock /\ (Section(x)' <=> Section(x))
           \/ Lock(x) /\ ~Section(x) /\ Section(x)'
           \/ Unlock /\ holder = x /\ ~Section(x)'
    PROVE  Accounted'
<1>1. CASE UNCHANGED lock /\ (Section(x)' <=> Section(x))
  BY <1>1 DEF Accounted, Once, Waits, lock
<1>2. CASE Lock(x) /\ ~Section(x) /\ Section(x)'
  BY <1>2, Locks DEF Accounted
<1>3. CASE Unlock /\ holder = x /\ ~Section(x)'
  BY <1>3, Unlocks DEF Accounted
<1> QED
  BY <1>1, <1>2, <1>3

LEMMA AccountedStep ==
    ASSUME IInv, Accounted, [Next]_vars
    PROVE  Accounted'
<1>t. /\ LockTypes /\ pc \in [Coroutines -> StartPc \cup StopPc \cup LoopPc \cup TgPc]
      /\ StartCalls \subseteq Coroutines /\ StopCalls \subseteq Coroutines
      /\ Loops \subseteq Coroutines /\ TgJobs \subseteq Coroutines
      /\ StartCalls \cap (StopCalls \cup Loops \cup TgJobs) = {}
      /\ Loops \cap TgJobs = {} /\ target \in [Coroutines -> Loops \cup {Null}]
  BY SetsAssumption DEF IInv, TypeOK, ControlTypes, PcTypes, Coroutines
<1>h. \A c \in Coroutines : Critical(c) => holder = c
  BY DEF IInv, TeardownIsExclusive
<1>g. ASSUME NEW x \in Coroutines, NEW l, pc' = [pc EXCEPT ![x] = l],
             \/ UNCHANGED lock /\ (Section(x)' <=> Section(x))
             \/ Lock(x) /\ ~Section(x) /\ Section(x)'
             \/ Unlock /\ holder = x /\ ~Section(x)'
        PROVE  Accounted'
  <2>1. \A y \in Coroutines \ {x} : Section(y)' <=> Section(y)
    BY <1>g, <1>t DEF Section, Critical, InTeardown
  <2> QED
    BY <1>g, <1>t, <2>1, SectionStep
<1>1. ASSUME NEW x \in Coroutines,
             NEW l \in {"startLock", "stopLock", "tgLock", "cleanLock"},
             pc[x] \in {"idle", "launched", "ended", "failing"}, Lock(x), pc' = [pc EXCEPT ![x] = l]
      PROVE  Accounted'
  <2>1. ~Section(x) /\ Section(x)'
    BY <1>1, <1>t DEF Section, LockPc, Critical, InTeardown
  <2> QED
    BY <1>g, <1>1, <2>1
<1>2. ASSUME NEW x \in Coroutines, holder = x, Unlock,
             NEW l \in {"done", "failing", "stopped", "cleaned"},
             pc' = [pc EXCEPT ![x] = l]
      PROVE  Accounted'
  <2>1. ~Section(x)'
    BY <1>2, <1>t DEF Section, LockPc, Critical, InTeardown
  <2> QED
    BY <1>g, <1>2, <2>1
<1>4. ASSUME NEW x \in Coroutines, NEW l \in {"opening", "joining", "stopJoin", "cleanJoin"},
             pc[x] \in {"startLock", "testing", "joining", "stopLock", "cleanLock"},
             UNCHANGED lock, pc' = [pc EXCEPT ![x] = l]
      PROVE  Accounted'
  <2>1. Section(x) /\ Section(x)'
    BY <1>4, <1>t DEF Section, LockPc, Critical, InTeardown
  <2> QED
    BY <1>g, <1>4, <2>1
<1>5. ASSUME NEW x \in Coroutines, NEW l \in {"done", "running", "check", "ended", "failed"},
             pc[x] \in {"idle", "launched", "running", "check", "ended", "failed",
                        "stopped", "cleaned"},
             UNCHANGED lock, pc' = [pc EXCEPT ![x] = l]
      PROVE  Accounted'
  <2>1. ~Section(x) /\ ~Section(x)'
    BY <1>5, <1>t DEF Section, LockPc, Critical, InTeardown
  <2> QED
    BY <1>g, <1>5, <2>1
<1>6. ASSUME UNCHANGED <<pc, lock>> PROVE Accounted'
  BY <1>6 DEF Accounted, Once, Waits, Section, Critical, InTeardown, lock
<1>7. ASSUME NEW c \in StartCalls, OnStart(c) PROVE Accounted'
  BY <1>7, <1>1, <1>5, <1>t DEF OnStart, Launch, Goto
<1>8. ASSUME NEW c \in StartCalls, EnterStart(c) PROVE Accounted'
  BY <1>2, <1>8, <1>4, <1>t DEF EnterStart, Throw, Release, Goto
<1>9. ASSUME NEW c \in StartCalls, TryPreset(c) PROVE Accounted'
  <2>1. UNCHANGED lock /\ pc[c] = "opening"
    BY <1>9 DEF TryPreset
  <2>2. CASE UNCHANGED pc
    BY <1>6, <2>1, <2>2
  <2>3. ASSUME NEW j \in Loops, Fresh(j, Loops),
               pc' = [pc EXCEPT ![c] = "testing", ![j] = "launched"]
        PROVE  Accounted'
    <3>1. /\ \A y \in Coroutines \ {c, j} : pc'[y] = pc[y]
          /\ pc'[c] = "testing" /\ pc'[j] = "launched" /\ pc[j] = "idle"
      BY <1>t, <2>3 DEF Fresh
    <3>2. \A y \in Coroutines : Section(y)' <=> Section(y)
      BY <2>1, <3>1 DEF Section, LockPc, Critical, InTeardown
    <3> QED
      BY <1>t, <2>1, <3>2, SectionStep
  <2> QED
    BY <1>9, <2>2, <2>3 DEF TryPreset, OpenSocket
<1>10. ASSUME NEW c \in StartCalls, NEW j \in Loops \cup {Null}, pc[c] \in {"opening", "testing"}, NEW pcs,
              pcs = pc \/ (j \in Loops /\ pc[j] = "idle" /\ pcs = [pc EXCEPT ![j] = "launched"]),
              Connect(c, j, pcs) \/ TunnelFails(c, j, pcs)
       PROVE  Accounted'
  <2>1. holder = c
    BY <1>10, <1>h, <1>t DEF Critical
  <2>2. \A y \in Coroutines \ {c} : pcs[y] = pc[y] \/ (pc[y] = "idle" /\ pcs[y] = "launched")
    BY <1>10, <1>t
  <2>3. \A y \in Coroutines \ {c} : pc'[y] = pc[y] \/ (pc[y] = "idle" /\ pc'[y] = "launched")
    BY <1>10, <1>t, <2>2 DEF Connect, TunnelFails, Throw
  <2>4. \A y \in Coroutines \ {c} : Section(y)' <=> Section(y)
    BY <2>3 DEF Section, LockPc, Critical, InTeardown
  <2>5. Unlock /\ pc'[c] \in {"connected", "failing"}
    BY <1>10, <1>t DEF Connect, TunnelFails, Throw, Release
  <2> QED
    BY <1>t, <2>1, <2>4, <2>5, SectionStep DEF Section, LockPc, Critical, InTeardown
<1>11. ASSUME NEW c \in StartCalls, PresetWorks(c) PROVE Accounted'
  BY <1>10, <1>11, <1>t DEF PresetWorks
<1>12. ASSUME NEW c \in StartCalls, PresetFails(c) \/ NextPreset(c) PROVE Accounted'
  BY <1>4, <1>12, <1>t DEF PresetFails, NextPreset, Goto
<1>13. ASSUME NEW c \in StartCalls, Fallback(c) PROVE Accounted'
  <2>1. holder = c /\ pc[c] = "opening"
    BY <1>13, <1>h, <1>t DEF Fallback, Critical
  <2>2. CASE Throw(c, pc)
    BY <1>2, <1>t, <2>1, <2>2 DEF Throw, Release
  <2>3. CASE ~Throw(c, pc)
    BY <1>10, <1>13, <2>1, <2>3 DEF Fallback, OpenSocket, Fresh
  <2> QED
    BY <2>2, <2>3
<1>14. ASSUME NEW x \in Coroutines, NEW l \in {"stopJoin", "cleanJoin"},
              NEW m \in {"stopped", "cleaned"}, pc[x] \in {"stopLock", "cleanLock"},
              TearDown(x, l, m)
       PROVE  Accounted'
  BY <1>2, <1>4, <1>14 DEF TearDown, TornDown, Release, Goto
<1>15. ASSUME NEW x \in Coroutines, NEW m \in {"stopped", "cleaned"}, InTeardown(x),
              TearDownJoined(x, m)
       PROVE  Accounted'
  <2>1. holder = x
    BY <1>15, <1>h DEF Critical
  <2> QED
    BY <1>2, <1>15, <2>1 DEF TearDownJoined, TornDown, Release, Goto
<1>3. ASSUME NEW x \in Coroutines, ShowDisconnected(x) \/ ShowFailed(x)
      PROVE  Accounted'
  BY <1>3, <1>5 DEF ShowDisconnected, ShowFailed, Report, Goto
<1>16. ASSUME NEW x \in Coroutines,
              StopStep(x) \/ CleanUp(x) \/ CleanJoined(x) \/ ShowFailed(x)
       PROVE  Accounted'
  BY <1>3, <1>14, <1>15, <1>16 DEF StopStep, Stop, StopJoined, CleanUp, CleanJoined, InTeardown
<1>17. ASSUME NEW j \in Loops, RunLoop(j) \/ Listener(j) \/ CheckExit(j) \/ LoopFailed(j)
       PROVE  Accounted'
  BY <1>5, <1>6, <1>17, <1>t DEF RunLoop, Listener, CheckExit, LoopFailed, Goto
<1>18. ASSUME NEW j \in Loops, LoopEnded(j) PROVE Accounted'
  BY <1>1, <1>5, <1>18, <1>t DEF LoopEnded, Acquire, Goto
<1>19. ASSUME NEW g \in TgJobs, TgStep(g) PROVE Accounted'
  BY <1>1, <1>2, <1>19, <1>t DEF TgStep, TgLock, TgStart, Goto
<1>20. ASSUME NEW c \in StopCalls, OnStop(c) PROVE Accounted'
  BY <1>1, <1>20, <1>t DEF OnStop, Launch, Goto
<1>21. CASE UNCHANGED vars
  BY <1>6, <1>21 DEF vars, control
<1>22. ASSUME NEW c \in StartCalls, Failing(c) PROVE Accounted'
  BY <1>1, <1>22, <1>t DEF Failing, Acquire, Goto
<1>23. ASSUME NEW c \in StartCalls, ShowConnected(c) PROVE Accounted'
  <2>1. /\ UNCHANGED lock /\ pc[c] = "connected"
        /\ \E g \in TgJobs : Fresh(g, TgJobs)
                           /\ pc' = [pc EXCEPT ![c] = "done", ![g] = "launched"]
    BY <1>23 DEF ShowConnected
  <2>2. \A y \in Coroutines : Section(y)' <=> Section(y)
    BY <1>t, <2>1 DEF Fresh, Section, LockPc, Critical, InTeardown
  <2> QED
    BY <1>t, <2>1, <2>2, SectionStep
<1> QED
  BY <1>t, <1>22, <1>23, <1>7, <1>8, <1>9, <1>11, <1>12, <1>13, <1>16, <1>17, <1>18, <1>19, <1>20, <1>21
     DEF Next, StartStep, LoopStep

\* The service mutex is never lost: with every fault enabled, who holds it or
\* waits for it is inside a withLock of start(), stop(), the clean-up or the
\* Telegram coroutine, has one place only, and leaves with it when it is done.
THEOREM MutexIsAccounted == Spec => []Accounted
<1>1. Init => Accounted
  BY SetsAssumption DEF Init, Accounted, Once, Waits, Section, LockPc, Critical, InTeardown
<1>2. IInv /\ Accounted /\ [Next]_vars => Accounted'
  BY AccountedStep
<1> QED
  BY <1>1, <1>2, Invariance, PTL DEF Spec
-----------------------------------------------------------------------------
(* The main thread                                                         *)

InTurn(x) == \E i \in 1 .. Len(turn) : turn[i] = x

\* Places that a coroutine reaches and leaves in one turn.
RunPc == {"opening", "connected", "failing", "cleaned", "stopped"}

\* x has nothing to wait for: it runs, got the mutex, or joined a job that is done.
Called(x) ==
    \/ pc[x] \in RunPc
    \/ pc[x] \in {"startLock", "cleanLock", "stopLock"} /\ holder = x
    \/ /\ pc[x] \in {"joining", "cleanJoin", "stopJoin"}
       /\ target[x] \in Loops /\ pc[target[x]] = "done"

Distinct == \A i, k \in 1 .. Len(turn) : turn[i] = turn[k] => i = k

\* A turn has no coroutine twice; whoever is in it can go on, and whoever is between
\* two suspensions is in it.
OnceInTurn ==
    /\ Distinct
    /\ \A x \in Coroutines : pc[x] \in RunPc => InTurn(x)
    /\ \A x \in Coroutines : InTurn(x) => Called(x)

\* The first of the turn, and the others.
LEMMA TurnPlaces ==
    ASSUME MainTypes, Distinct, NEW x \in Coroutines, OnMain(x)
    PROVE  /\ Turn(x) \in Seq(Coroutines) /\ Len(Turn(x)) \in Nat \ {0}
           /\ Turn(x)[1] = x
           /\ \A i, k \in 1 .. Len(Turn(x)) : Turn(x)[i] = Turn(x)[k] => i = k
           /\ \A y : (\E i \in 1 .. Len(Turn(x)) : Turn(x)[i] = y) <=> InTurn(y) \/ y = x
           /\ Tail(Turn(x)) \in Seq(Coroutines)
           /\ Len(Tail(Turn(x))) = Len(Turn(x)) - 1
           /\ \A i \in 1 .. Len(Turn(x)) - 1 : Tail(Turn(x))[i] = Turn(x)[i + 1]
<1>1. CASE turn = <<>>
  <2>1. Turn(x) = <<x>>
    BY <1>1 DEF Turn
  <2>2. \A y : ~InTurn(y)
    BY <1>1 DEF InTurn
  <2> QED
    BY <2>1, <2>2
<1>2. CASE turn # <<>>
  <2>1. Turn(x) = turn /\ turn \in Seq(Coroutines) /\ Head(turn) = x
    BY <1>2 DEF Turn, OnMain, MainTypes
  <2>2. Len(turn) \in Nat \ {0} /\ turn[1] = x
    BY <1>2, <2>1
  <2>3. /\ Tail(turn) \in Seq(Coroutines) /\ Len(Tail(turn)) = Len(turn) - 1
        /\ \A i \in 1 .. Len(turn) - 1 : Tail(turn)[i] = turn[i + 1]
    BY <1>2, <2>1
  <2>4. \A y : (\E i \in 1 .. Len(turn) : turn[i] = y) <=> InTurn(y) \/ y = x
    BY <2>2 DEF InTurn
  <2> QED
    BY <2>1, <2>2, <2>3, <2>4 DEF Distinct
<1> QED
  BY <1>1, <1>2

LEMMA Stays ==
    ASSUME MainTypes, Distinct, NEW x \in Coroutines, OnMain(x), Stay(x)
    PROVE  Distinct' /\ \A y : InTurn(y)' <=> InTurn(y) \/ y = x
<1>1. turn' = Turn(x)
  BY DEF Stay
<1> QED
  BY <1>1, TurnPlaces DEF Distinct, InTurn

LEMMA Suspends ==
    ASSUME MainTypes, Distinct, NEW x \in Coroutines, OnMain(x), Suspend(x)
    PROVE  Distinct' /\ \A y : InTurn(y)' <=> InTurn(y) /\ y # x
<1> DEFINE s == Turn(x)
           n == Len(s)
<1>1. turn' = Tail(s)
  BY DEF Suspend
<1>2. /\ s \in Seq(Coroutines) /\ n \in Nat \ {0} /\ s[1] = x
      /\ \A i, k \in 1 .. n : s[i] = s[k] => i = k
      /\ \A y : (\E i \in 1 .. n : s[i] = y) <=> InTurn(y) \/ y = x
      /\ Len(Tail(s)) = n - 1 /\ \A i \in 1 .. n - 1 : Tail(s)[i] = s[i + 1]
  BY TurnPlaces
<1> HIDE DEF s, n
<1>3. /\ 1 \in 1 .. n
      /\ \A i \in 1 .. n - 1 : i \in 1 .. n /\ i + 1 \in 1 .. n /\ i + 1 # 1
      /\ \A i \in 1 .. n \ {1} : i - 1 \in 1 .. n - 1 /\ (i - 1) + 1 = i
  BY <1>2, Places
<1>4. Len(turn') = n - 1 /\ \A i \in 1 .. n - 1 : turn'[i] = s[i + 1]
  BY <1>1, <1>2
<1>5. Distinct'
  <2> SUFFICES ASSUME NEW i \in 1 .. n - 1, NEW k \in 1 .. n - 1, turn'[i] = turn'[k]
               PROVE  i = k
    BY <1>4 DEF Distinct
  <2>1. i + 1 = k + 1
    BY <1>2, <1>3, <1>4
  <2> QED
    BY <2>1
<1>6. ASSUME NEW y, InTurn(y)' PROVE InTurn(y) /\ y # x
  <2>1. PICK i \in 1 .. n - 1 : s[i + 1] = y
    BY <1>4, <1>6 DEF InTurn
  <2> QED
    BY <1>2, <1>3, <2>1
<1>7. ASSUME NEW y, InTurn(y), y # x PROVE InTurn(y)'
  <2>1. PICK i \in 1 .. n : s[i] = y
    BY <1>2, <1>7
  <2>2. i - 1 \in 1 .. n - 1 /\ turn'[i - 1] = y
    BY <1>2, <1>3, <1>4, <1>7, <2>1
  <2> QED
    BY <1>4, <2>2 DEF InTurn
<1> QED
  BY <1>5, <1>6, <1>7

\* The next owner of the mutex goes before the one that gives it up or behind it.
LEMMA Releases ==
    ASSUME MainTypes, Distinct, NEW x \in Coroutines, OnMain(x), Release(x),
           holder' # x, ~InTurn(holder')
    PROVE  /\ Distinct'
           /\ \A y : InTurn(y)' <=>
                InTurn(y) \/ y = x \/ (y = holder' /\ y \in StartCalls \cup StopCalls)
<1> DEFINE s == Turn(x)
           n == Len(s)
           h == holder'
<1>2. /\ s \in Seq(Coroutines) /\ n \in Nat \ {0} /\ s[1] = x
      /\ \A i, k \in 1 .. n : s[i] = s[k] => i = k
      /\ \A y : (\E i \in 1 .. n : s[i] = y) <=> InTurn(y) \/ y = x
      /\ Tail(s) \in Seq(Coroutines)
      /\ Len(Tail(s)) = n - 1 /\ \A i \in 1 .. n - 1 : Tail(s)[i] = s[i + 1]
  BY TurnPlaces
<1>3. CASE h \notin StartCalls \cup StopCalls
  <2>1. turn' = s
    BY <1>3 DEF Release
  <2> QED
    BY <1>2, <1>3, <2>1 DEF Distinct, InTurn
<1>4. CASE h \in StartCalls \cup StopCalls
  <2>1. turn' = <<h>> \o s \/ turn' = <<x, h>> \o Tail(s)
    BY <1>4 DEF Release
  <2>h. h \in Coroutines /\ \A i \in 1 .. n : s[i] # h
    BY <1>2, <1>4 DEF Coroutines
  <2> HIDE DEF s, n, h
  <2>2. CASE turn' = <<h>> \o s
    <3>1. /\ Len(turn') = n + 1 /\ turn'[1] = h
          /\ \A i \in 1 .. n : turn'[i + 1] = s[i]
      BY <1>2, <2>2, <2>h DEF n
    <3>2. /\ 1 \in 1 .. n + 1 /\ \A i \in 1 .. n : i + 1 \in 1 .. n + 1
          /\ \A i \in 1 .. n + 1 : i = 1 \/ (i - 1 \in 1 .. n /\ (i - 1) + 1 = i)
      BY <1>2
    <3>3. \A i \in 1 .. n + 1 : i = 1 \/ (i - 1 \in 1 .. n /\ turn'[i] = s[i - 1])
      BY <3>1, <3>2
    <3>4. Distinct'
      <4> SUFFICES ASSUME NEW i \in 1 .. n + 1, NEW k \in 1 .. n + 1, turn'[i] = turn'[k]
                   PROVE  i = k
        BY <3>1 DEF Distinct
      <4>1. CASE i = 1 \/ k = 1
        BY <2>h, <3>1, <3>3, <4>1
      <4>2. CASE i # 1 /\ k # 1
        <5>1. i - 1 = k - 1
          BY <1>2, <3>3, <4>2
        <5> QED
          BY <5>1
      <4> QED
        BY <4>1, <4>2
    <3>5. \A y : InTurn(y)' <=> (\E i \in 1 .. n : s[i] = y) \/ y = h
      BY <3>1, <3>2, <3>3 DEF InTurn
    <3> QED
      BY <1>2, <1>4, <3>4, <3>5 DEF h
  <2>3. CASE turn' = <<x, h>> \o Tail(s)
    <3>1. /\ Len(turn') = n + 1 /\ turn'[1] = x /\ turn'[2] = h
          /\ \A i \in 1 .. n - 1 : turn'[i + 2] = s[i + 1]
      <4>1. /\ <<x, h>> \in Seq(Coroutines) /\ Len(<<x, h>>) = 2
            /\ Tail(s) \in Seq(Coroutines)
        BY <1>2, <2>h
      <4>2. /\ Len(turn') = 2 + Len(Tail(s)) /\ turn'[1] = x /\ turn'[2] = h
            /\ \A i \in 1 .. Len(Tail(s)) : turn'[i + 2] = Tail(s)[i]
        BY <2>3, <4>1
      <4> QED
        BY <1>2, <4>2
    <3>2. /\ 1 \in 1 .. n + 1 /\ 2 \in 1 .. n + 1
          /\ \A i \in 1 .. n + 1 : i = 1 \/ i = 2 \/ (i - 2 \in 1 .. n - 1 /\ (i - 2) + 2 = i
                                      /\ (i - 2) + 1 = i - 1 /\ i - 1 \in 1 .. n /\ i - 1 # 1)
          /\ \A i \in 1 .. n : i = 1 \/ (i - 1 \in 1 .. n - 1 /\ (i - 1) + 1 = i
                                      /\ (i - 1) + 2 \in 1 .. n + 1)
      BY <1>2
    <3>3. \A i \in 1 .. n + 1 : i = 1 \/ i = 2 \/ (i - 1 \in 1 .. n /\ i - 1 # 1 /\ turn'[i] = s[i - 1])
      BY <3>1, <3>2
    <3>4. Distinct'
      <4> SUFFICES ASSUME NEW i \in 1 .. n + 1, NEW k \in 1 .. n + 1, turn'[i] = turn'[k]
                   PROVE  i = k
        BY <3>1 DEF Distinct
      <4>0. x # h /\ 1 \in 1 .. n
        BY <1>2, <2>h
      <4>1. CASE i \in {1, 2} \/ k \in {1, 2}
        BY <1>2, <2>h, <3>1, <3>3, <4>0, <4>1
      <4>2. CASE ~(i \in {1, 2} \/ k \in {1, 2})
        <5>1. i - 1 = k - 1
          BY <1>2, <3>3, <4>2
        <5> QED
          BY <5>1
      <4> QED
        BY <4>1, <4>2
    <3>5. \A y : InTurn(y)' <=> (\E i \in 1 .. n : s[i] = y) \/ y = h
      <4>1. ASSUME NEW y, InTurn(y)' PROVE (\E i \in 1 .. n : s[i] = y) \/ y = h
        <5>1. PICK i \in 1 .. n + 1 : turn'[i] = y
          BY <3>1, <4>1 DEF InTurn
        <5>2. 1 \in 1 .. n
          BY <1>2
        <5> QED
          BY <1>2, <3>1, <3>3, <5>1, <5>2
      <4>2. ASSUME NEW y, (\E i \in 1 .. n : s[i] = y) \/ y = h PROVE InTurn(y)'
        <5>1. CASE y = h
          BY <3>1, <3>2, <5>1 DEF InTurn
        <5>2. ASSUME NEW i \in 1 .. n, s[i] = y PROVE InTurn(y)'
          <6>1. CASE i = 1
            BY <1>2, <3>1, <3>2, <5>2, <6>1 DEF InTurn
          <6>2. CASE i # 1
            <7>1. (i - 1) + 2 \in 1 .. n + 1 /\ turn'[(i - 1) + 2] = y
              BY <3>1, <3>2, <5>2, <6>2
            <7> QED
              BY <3>1, <7>1 DEF InTurn
          <6> QED
            BY <6>1, <6>2
        <5> QED
          BY <4>2, <5>1, <5>2
      <4> QED
        BY <4>1, <4>2
    <3> QED
      BY <1>2, <1>4, <3>4, <3>5 DEF h
  <2> QED
    BY <2>1, <2>2, <2>3
<1> QED
  BY <1>3, <1>4

\* Coroutine x takes a step; the others keep their places, but one that is launched.
OthersKeep(x) ==
    \A y \in Coroutines \ {x} :
        /\ pc'[y] = pc[y] \/ (pc[y] = "idle" /\ pc'[y] = "launched")
        /\ target'[y] = target[y]

\* How a step of x moves the turn: it goes on, it is suspended, it gives the mutex
\* up, it is resumed, or it does not run on Main.
Moves(x) ==
    \/ OnMain(x) /\ Stay(x) /\ Called(x)' /\ (holder' = holder \/ holder = Null)
    \/ /\ OnMain(x) /\ Suspend(x) /\ pc'[x] \notin RunPc
       /\ holder' = holder \/ holder = Null
    \/ OnMain(x) /\ Release(x) /\ holder = x /\ pc'[x] \in RunPc
    \/ /\ turn = <<>> /\ turn' = <<x>> /\ Called(x)'
       /\ holder' = holder \/ holder = Null
    \/ /\ UNCHANGED turn /\ pc'[x] \notin RunPc /\ ~Called(x)
       /\ holder' = holder \/ holder = Null \/ holder = x

LEMMA OnceStep ==
    ASSUME IInv, Accounted, OnceInTurn, NEW x \in Coroutines, OthersKeep(x), Moves(x),
           pc[x] # "done"
    PROVE  OnceInTurn'
<1>1. /\ MainTypes /\ LockTypes /\ Distinct
      /\ target \in [Coroutines -> Loops \cup {Null}]
      /\ Null \notin Coroutines /\ Loops \subseteq Coroutines
      /\ \A y \in StartCalls \cup StopCalls : y \in Coroutines /\ pc[y] # "tgLock"
  BY SetsAssumption DEF IInv, TypeOK, ControlTypes, PcTypes, StartPc, StopPc, OnceInTurn,
                        Coroutines
<1>2. ASSUME NEW y \in Coroutines \ {x}, InTurn(y),
             holder' = holder \/ holder = Null \/ holder = x
      PROVE  Called(y)'
  <2>1. Called(y) /\ pc[y] # "idle"
    BY <1>2 DEF OnceInTurn, Called, RunPc
  <2>2. /\ pc'[y] = pc[y] /\ target'[y] = target[y]
        /\ target[y] \in Loops => target[y] \in Coroutines
    BY <1>1, <2>1 DEF OthersKeep
  <2>3. CASE pc[y] \in RunPc
    BY <2>2, <2>3 DEF Called
  <2>4. CASE pc[y] \in {"startLock", "cleanLock", "stopLock"} /\ holder = y
    BY <1>1, <1>2, <2>2, <2>4 DEF Called
  <2>5. CASE /\ pc[y] \in {"joining", "cleanJoin", "stopJoin"}
             /\ target[y] \in Loops /\ pc[target[y]] = "done"
    <3>1. pc'[target[y]] = "done"
      BY <2>2, <2>5 DEF OthersKeep
    <3> QED
      BY <2>2, <2>5, <3>1 DEF Called
  <2> QED
    BY <2>1, <2>3, <2>4, <2>5 DEF Called
<1>3. ASSUME NEW y \in Coroutines \ {x}, pc'[y] \in RunPc PROVE InTurn(y)
  BY <1>3 DEF OthersKeep, OnceInTurn, RunPc
<1>4. ASSUME \A y : InTurn(y)' <=> InTurn(y) \/ y = x, Distinct', Called(x)',
             holder' = holder \/ holder = Null \/ holder = x
      PROVE  OnceInTurn'
  <2>1. \A y \in Coroutines : pc'[y] \in RunPc => InTurn(y)'
    BY <1>3, <1>4
  <2>2. \A y \in Coroutines : InTurn(y)' => Called(y)'
    BY <1>2, <1>4
  <2> QED
    BY <1>4, <2>1, <2>2 DEF OnceInTurn
<1>5. CASE /\ OnMain(x) /\ Stay(x) /\ Called(x)'
           /\ holder' = holder \/ holder = Null
  BY <1>1, <1>4, <1>5, Stays
<1>6. CASE /\ OnMain(x) /\ Suspend(x) /\ pc'[x] \notin RunPc
           /\ holder' = holder \/ holder = Null
  <2>1. Distinct' /\ \A y : InTurn(y)' <=> InTurn(y) /\ y # x
    BY <1>1, <1>6, Suspends
  <2> QED
    BY <1>2, <1>3, <1>6, <2>1 DEF OnceInTurn
<1>7. CASE OnMain(x) /\ Release(x) /\ holder = x /\ pc'[x] \in RunPc
  <2>1. Once' /\ Unlock
    BY <1>1, <1>7, Unlocks DEF Accounted, Release
  <2>2. ASSUME holder' \in Coroutines
        PROVE  holder' # x /\ pc[holder'] \in LockPc /\ ~InTurn(holder')
    <3>1. waiters # <<>> /\ holder' = waiters[1]
      BY <1>1, <2>1, <2>2, Heads DEF Unlock
    <3>2. 1 \in 1 .. Len(waiters)
      BY <1>1, <3>1, Heads
    <3>3. holder' # holder /\ Waits(holder')
      BY <3>1, <3>2 DEF Accounted, Once, Waits
    <3>4. pc[holder'] \in LockPc
      BY <2>2, <3>3 DEF Accounted, Section, IInv, TeardownIsExclusive
    <3>5. ~Called(holder')
      BY <3>3, <3>4 DEF Called, RunPc, LockPc
    <3> QED
      BY <1>7, <2>2, <3>3, <3>4, <3>5 DEF OnceInTurn
  <2>3. holder' \in Coroutines \/ holder' = Null
    BY <1>1, <2>1, Heads DEF Unlock
  <2>4. ASSUME holder' = Null PROVE OnceInTurn'
    <3>1. turn' = Turn(x)
      BY <1>1, <1>7, <2>4 DEF Release
    <3>2. Distinct' /\ \A y : InTurn(y)' <=> InTurn(y) \/ y = x
      <4>1. /\ \A i, k \in 1 .. Len(Turn(x)) : Turn(x)[i] = Turn(x)[k] => i = k
            /\ \A y : (\E i \in 1 .. Len(Turn(x)) : Turn(x)[i] = y) <=> InTurn(y) \/ y = x
        BY <1>1, <1>7, TurnPlaces
      <4> QED
        BY <3>1, <4>1 DEF Distinct, InTurn
    <3>3. Called(x)'
      BY <1>7 DEF Called
    <3> QED
      BY <1>4, <1>7, <3>2, <3>3
  <2>5. ASSUME holder' \in Coroutines PROVE OnceInTurn'
    <3>1. /\ Distinct'
          /\ \A y : InTurn(y)' <=>
               InTurn(y) \/ y = x \/ (y = holder' /\ y \in StartCalls \cup StopCalls)
      BY <1>1, <1>7, <2>2, <2>5, Releases
    <3>2. Called(x)'
      BY <1>7 DEF Called
    <3>3. ASSUME NEW y \in StartCalls \cup StopCalls, y = holder'
          PROVE  Called(y)'
      <4>1. pc'[y] = pc[y] /\ pc[y] \in LockPc
        BY <2>2, <2>5, <3>3 DEF OthersKeep, LockPc
      <4> QED
        BY <1>1, <3>3, <4>1 DEF Called, LockPc
    <3>4. \A y \in Coroutines : pc'[y] \in RunPc => InTurn(y)'
      BY <1>3, <3>1
    <3>5. \A y \in Coroutines : InTurn(y)' => Called(y)'
      BY <1>2, <1>7, <3>1, <3>2, <3>3
    <3> QED
      BY <3>1, <3>4, <3>5 DEF OnceInTurn
  <2> QED
    BY <2>3, <2>4, <2>5
<1>8. CASE /\ turn = <<>> /\ turn' = <<x>> /\ Called(x)'
           /\ holder' = holder \/ holder = Null
  <2>1. Distinct' /\ \A y : InTurn(y)' <=> InTurn(y) \/ y = x
    BY <1>8 DEF Distinct, InTurn
  <2> QED
    BY <1>4, <1>8, <2>1
<1>9. CASE /\ UNCHANGED turn /\ pc'[x] \notin RunPc /\ ~Called(x)
           /\ holder' = holder \/ holder = Null \/ holder = x
  <2>1. Distinct' /\ \A y : InTurn(y)' <=> InTurn(y)
    BY <1>1, <1>9 DEF Distinct, InTurn
  <2>2. ~InTurn(x)
    BY <1>9 DEF OnceInTurn
  <2> QED
    BY <1>2, <1>3, <1>9, <2>1, <2>2 DEF OnceInTurn
<1> QED
  BY <1>5, <1>6, <1>7, <1>8, <1>9 DEF Moves

Labelled == pc \in [Coroutines -> StartPc \cup StopPc \cup LoopPc \cup TgPc]

LEMMA Kinds ==
    ASSUME IInv
    PROVE  /\ Labelled /\ StartCalls \subseteq Coroutines /\ StopCalls \subseteq Coroutines
           /\ Loops \subseteq Coroutines /\ TgJobs \subseteq Coroutines
           /\ StartCalls \cap (StopCalls \cup Loops \cup TgJobs) = {}
           /\ StopCalls \cap (Loops \cup TgJobs) = {} /\ Loops \cap TgJobs = {}
           /\ Null \notin Coroutines /\ Null \notin Loops
           /\ fd \in Loops \cup {Null} /\ proxyJob \in Loops \cup {Null}
           /\ sock \in [Loops -> {"none", "open", "shut", "closed"}]
           /\ runs \in [Loops -> Loops \cup {Null}]
           /\ target \in [Coroutines -> Loops \cup {Null}]
BY SetsAssumption
   DEF IInv, TypeOK, ControlTypes, PcTypes, NativeTypes, ServiceTypes, Coroutines, Labelled

\* A step of x that moves x alone.
LEMMA OnceGoto ==
    ASSUME IInv, Accounted, OnceInTurn, NEW x \in Coroutines, NEW l, Goto(x, l),
           pc[x] # "done", \A y \in Coroutines \ {x} : target'[y] = target[y],
           pc'[x] = l => Moves(x)
    PROVE  OnceInTurn'
<1>1. pc'[x] = l /\ \A y \in Coroutines \ {x} : pc'[y] = pc[y]
  BY Kinds DEF Goto, Labelled
<1> QED
  BY <1>1, OnceStep DEF OthersKeep

\* The steps of stop() and of the clean-up.
LEMMA OnceTeardowns ==
    ASSUME IInv, Accounted, OnceInTurn, NEW x \in Coroutines,
           StopStep(x) \/ CleanUp(x) \/ CleanJoined(x) \/ ShowFailed(x)
    PROVE  OnceInTurn'
<1>t. /\ Labelled /\ Null \notin Loops /\ proxyJob \in Loops \cup {Null}
      /\ target \in [Coroutines -> Loops \cup {Null}] /\ Loops \subseteq Coroutines
  BY Kinds
<1>1. ASSUME NEW l \in {"stopJoin", "cleanJoin"}, NEW m \in {"stopped", "cleaned"},
             pc[x] \in {"stopLock", "cleanLock"}, TearDown(x, l, m)
      PROVE  OnceInTurn'
  <2>1. holder = x /\ OnMain(x)
    BY <1>1 DEF TearDown
  <2>2. CASE proxyJob # Null
    <3>1. /\ target' = [target EXCEPT ![x] = proxyJob] /\ Goto(x, l) /\ holder' = holder
          /\ Suspend(x) \/ (Stay(x) /\ pc[proxyJob] = "done")
      BY <1>1, <2>2 DEF TearDown, Join, lock
    <3>2. pc'[x] = l => Moves(x)
      <4> SUFFICES ASSUME pc'[x] = l PROVE Moves(x)
        OBVIOUS
      <4>1. CASE Suspend(x)
        BY <2>1, <3>1, <4>1 DEF Moves, RunPc
      <4>2. CASE Stay(x) /\ pc[proxyJob] = "done"
        <5>1. target'[x] = proxyJob /\ proxyJob \in Loops /\ pc'[proxyJob] = "done"
          BY <1>1, <1>t, <2>2, <3>1, <4>2 DEF Goto, Labelled
        <5> QED
          BY <2>1, <3>1, <4>2, <5>1 DEF Moves, Called
      <4> QED
        BY <3>1, <4>1, <4>2
    <3>3. \A y \in Coroutines \ {x} : target'[y] = target[y]
      BY <1>t, <3>1
    <3> QED
      BY <1>1, <3>1, <3>2, <3>3, OnceGoto
  <2>3. CASE proxyJob = Null
    <3>1. TornDown(x, m) /\ UNCHANGED target
      BY <1>1, <2>3 DEF TearDown
    <3> QED
      BY <1>1, <2>1, <3>1, OnceGoto DEF TornDown, Moves, RunPc
  <2> QED
    BY <2>2, <2>3
<1>2. ASSUME NEW m \in {"stopped", "cleaned"}, InTeardown(x), TearDownJoined(x, m)
      PROVE  OnceInTurn'
  <2>1. holder = x
    BY <1>2 DEF IInv, TeardownIsExclusive, Critical
  <2>2. pc[x] # "done" /\ OnMain(x) /\ TornDown(x, m) /\ UNCHANGED target
    BY <1>2 DEF TearDownJoined, InTeardown
  <2> QED
    BY <2>1, <2>2, OnceGoto DEF TornDown, Moves, RunPc
<1>3. ASSUME ShowDisconnected(x) \/ ShowFailed(x) PROVE OnceInTurn'
  BY <1>3, OnceGoto DEF ShowDisconnected, ShowFailed, Report, Moves, RunPc, lock
<1> QED
  BY <1>1, <1>2, <1>3
     DEF StopStep, Stop, StopJoined, CleanUp, CleanJoined, InTeardown

LEMMA OnceStarts ==
    ASSUME IInv, Accounted, OnceInTurn, NEW c \in StartCalls,
           OnStart(c) \/ StartStep(c)
    PROVE  OnceInTurn'
<1>t. /\ c \in Coroutines /\ Labelled /\ StartCalls \cap Loops = {}
      /\ Loops \subseteq Coroutines /\ TgJobs \subseteq Coroutines
      /\ target \in [Coroutines -> Loops \cup {Null}]
  BY Kinds
<1>h. Critical(c) => holder = c
  BY <1>t DEF IInv, TeardownIsExclusive
<1>1. CASE OnStart(c)
  <2>1. CASE status = "Connected"
    BY <1>1, <1>t, <2>1, OnceGoto
       DEF OnStart, Moves, Called, RunPc, lock, main
  <2>2. CASE status # "Connected"
    <3>1. Launch(c) /\ Goto(c, "startLock") /\ pc[c] = "idle" /\ target' = target
      BY <1>1, <2>2 DEF OnStart
    <3>2. pc'[c] = "startLock" => Moves(c)
      BY <3>1 DEF Launch, Lock, Moves, Called, RunPc
    <3> QED
      BY <1>t, <3>1, <3>2, OnceGoto
  <2> QED
    BY <2>1, <2>2
<1>2. CASE EnterStart(c)
  <2>1. CASE Throw(c, pc)
    BY <1>2, <1>t, <2>1, OnceGoto DEF EnterStart, Throw, Goto, Moves, RunPc
  <2>2. CASE Stay(c) /\ Goto(c, "opening") /\ UNCHANGED lock
    BY <1>2, <1>t, <2>2, OnceGoto DEF EnterStart, Moves, Called, RunPc, lock
  <2> QED
    BY <1>2, <2>1, <2>2 DEF EnterStart
<1>3. CASE TryPreset(c)
  <2>1. pc[c] = "opening" /\ OnMain(c) /\ holder' = holder
    BY <1>3 DEF TryPreset, lock
  <2>2. CASE Stay(c) /\ UNCHANGED <<pc, target>>
    <3>1. Called(c)' /\ OthersKeep(c)
      BY <2>1, <2>2 DEF Called, RunPc, OthersKeep
    <3> QED
      BY <1>t, <2>1, <2>2, <3>1, OnceStep DEF Moves
  <2>3. ASSUME NEW j \in Loops, Fresh(j, Loops), Suspend(c),
               pc' = [pc EXCEPT ![c] = "testing", ![j] = "launched"],
               target' = [target EXCEPT ![c] = j]
        PROVE  OnceInTurn'
    <3>1. pc'[c] = "testing" /\ OthersKeep(c)
      BY <1>t, <2>3 DEF OthersKeep, Fresh, Labelled
    <3> QED
      BY <1>t, <2>1, <2>3, <3>1, OnceStep DEF Moves, RunPc
  <2> QED
    BY <1>3, <2>2, <2>3 DEF TryPreset, OpenSocket
<1>4. ASSUME NEW j \in Loops \cup {Null}, NEW pcs, pc[c] \in {"opening", "testing"}, OnMain(c),
             pcs = pc \/ (j \in Loops /\ pc[j] = "idle" /\ pcs = [pc EXCEPT ![j] = "launched"]),
             \A y \in Coroutines \ {c} : target'[y] = target[y],
             Connect(c, j, pcs) \/ TunnelFails(c, j, pcs)
      PROVE  OnceInTurn'
  <2>1. holder = c /\ Release(c) /\ pc'[c] \in RunPc
    BY <1>4, <1>h, <1>t DEF Critical, Connect, TunnelFails, Throw, RunPc, Labelled
  <2>2. OthersKeep(c)
    BY <1>4, <1>t DEF Connect, TunnelFails, Throw, OthersKeep, Labelled
  <2> QED
    BY <1>4, <1>t, <2>1, <2>2, OnceStep DEF Moves
<1>5. CASE PresetWorks(c)
  <2>1. OnMain(c)
    BY <1>5 DEF PresetWorks, OnMain
  <2> QED
    BY <1>4, <1>5, <1>t, <2>1 DEF PresetWorks
<1>6. CASE PresetFails(c)
  <2>1. /\ pc[c] = "testing" /\ OnMain(c) /\ Goto(c, "joining") /\ target' = target
        /\ holder' = holder /\ target[c] \in Loops
        /\ Suspend(c) \/ (Stay(c) /\ pc[target[c]] = "done")
    BY <1>6, <1>t DEF PresetFails, OnMain, Join, lock, IInv, Selected
  <2>2. pc'[c] = "joining" => Moves(c)
    <3> SUFFICES ASSUME pc'[c] = "joining" PROVE Moves(c)
      OBVIOUS
    <3>1. CASE Suspend(c)
      BY <2>1, <3>1 DEF Moves, RunPc
    <3>2. CASE Stay(c) /\ pc[target[c]] = "done"
      <4>1. pc'[target[c]] = "done"
        BY <1>t, <2>1, <3>2 DEF Goto, Labelled
      <4> QED
        BY <2>1, <3>2, <4>1 DEF Moves, Called
    <3> QED
      BY <2>1, <3>1, <3>2
  <2> QED
    BY <1>t, <2>1, <2>2, OnceGoto
<1>7. CASE NextPreset(c)
  <2>1. /\ pc[c] = "joining" /\ Goto(c, "opening") /\ target' = target /\ holder' = holder
        /\ \/ turn = <<>> /\ turn' = <<c>>
           \/ OnMain(c) /\ Stay(c)
    BY <1>7 DEF NextPreset, JoinTimesOut, lock
  <2> QED
    BY <1>t, <2>1, OnceGoto DEF Moves, Called, RunPc
<1>8. CASE Fallback(c)
  <2>1. CASE Throw(c, pc) /\ UNCHANGED <<service, target>>
    BY <1>8, <1>h, <1>t, <2>1, OnceGoto
       DEF Fallback, Throw, Goto, Moves, RunPc, Critical
  <2>2. ASSUME NEW j \in Loops, OpenSocket(j), target' = [target EXCEPT ![c] = j],
               LET launched == [pc EXCEPT ![j] = "launched"]
               IN  Connect(c, j, launched) \/ TunnelFails(c, j, launched)
        PROVE  OnceInTurn'
    <3>1. /\ pc[j] = "idle" /\ pc[c] = "opening" /\ OnMain(c)
          /\ \A y \in Coroutines \ {c} : target'[y] = target[y]
      BY <1>8, <1>t, <2>2 DEF Fallback, OpenSocket, Fresh
    <3> QED
      BY <1>4, <2>2, <3>1
  <2> QED
    BY <1>8, <2>1, <2>2 DEF Fallback
<1>9. CASE ShowConnected(c)
  <2>1. PICK g \in TgJobs : Fresh(g, TgJobs) /\ pc' = [pc EXCEPT ![c] = "done", ![g] = "launched"]
    BY <1>9 DEF ShowConnected
  <2>2. pc[c] = "connected" /\ OnMain(c) /\ Suspend(c) /\ target' = target /\ holder' = holder
    BY <1>9 DEF ShowConnected, lock
  <2>3. pc'[c] = "done" /\ OthersKeep(c)
    BY <1>t, <2>1, <2>2, Kinds DEF OthersKeep, Fresh, Labelled
  <2> QED
    BY <1>t, <2>2, <2>3, OnceStep DEF Moves, RunPc
<1>10. CASE Failing(c)
  <2>1. pc[c] = "failing" /\ OnMain(c) /\ Acquire(c) /\ Goto(c, "cleanLock") /\ target' = target
    BY <1>10 DEF Failing
  <2> QED
    BY <1>t, <2>1, OnceGoto DEF Acquire, Lock, Moves, Called, RunPc
<1>11. CASE CleanUp(c) \/ CleanJoined(c) \/ ShowFailed(c)
  BY <1>11, <1>t, OnceTeardowns
<1> QED
  BY <1>1, <1>2, <1>3, <1>5, <1>6, <1>7, <1>8, <1>9, <1>10, <1>11 DEF StartStep

LEMMA OnceInductive ==
    ASSUME IInv, Accounted, OnceInTurn, [Next]_vars
    PROVE  OnceInTurn'
<1>t. /\ Labelled /\ StopCalls \subseteq Coroutines
      /\ Loops \subseteq Coroutines /\ TgJobs \subseteq Coroutines
  BY Kinds
<1>1. ASSUME NEW c \in StartCalls, OnStart(c) \/ StartStep(c) PROVE OnceInTurn'
  BY <1>1, OnceStarts
<1>2. ASSUME NEW c \in StopCalls, OnStop(c) PROVE OnceInTurn'
  <2>1. Launch(c) /\ Goto(c, "stopLock") /\ pc[c] = "idle" /\ target' = target
    BY <1>2 DEF OnStop
  <2>2. pc'[c] = "stopLock" => Moves(c)
    BY <2>1 DEF Launch, Lock, Moves, Called, RunPc
  <2> QED
    BY <1>t, <2>1, <2>2, OnceGoto
<1>3. ASSUME NEW x \in Coroutines, StopStep(x) PROVE OnceInTurn'
  BY <1>3, OnceTeardowns
<1>4. ASSUME NEW j \in Loops, RunLoop(j) \/ Listener(j) \/ CheckExit(j) \/ LoopFailed(j)
      PROVE  OnceInTurn'
  <2>1. /\ pc[j] \in {"launched", "running", "check", "failed"}
        /\ UNCHANGED <<lock, main, target>>
    BY <1>4 DEF RunLoop, Listener, CheckExit, LoopFailed
  <2>2. \E l \in {"launched", "running", "check", "failed", "ended", "done"} : Goto(j, l)
    <3>1. CASE UNCHANGED pc
      <4>1. Goto(j, pc[j])
        BY <1>t, <3>1 DEF Goto, Labelled
      <4> QED
        BY <2>1, <4>1
    <3>2. CASE ~UNCHANGED pc
      BY <1>4, <3>2 DEF RunLoop, Listener, CheckExit, LoopFailed
    <3> QED
      BY <3>1, <3>2
  <2> QED
    BY <1>t, <2>1, <2>2, OnceGoto DEF Moves, Called, RunPc, lock, main
<1>5. ASSUME NEW j \in Loops, LoopEnded(j) PROVE OnceInTurn'
  <2>1. pc[j] = "ended" /\ OnMain(j) /\ target' = target
    BY <1>5 DEF LoopEnded, OnMain
  <2>2. CASE stopping
    BY <1>5, <1>t, <2>1, <2>2, OnceGoto DEF LoopEnded, Moves, Called, RunPc, lock, main
  <2>3. CASE ~stopping
    BY <1>5, <1>t, <2>1, <2>3, OnceGoto
       DEF LoopEnded, Acquire, Lock, Moves, Called, RunPc
  <2> QED
    BY <2>2, <2>3
<1>6. ASSUME NEW g \in TgJobs, TgStep(g) PROVE OnceInTurn'
  <2>1. /\ pc[g] \in {"launched", "tgLock"} /\ target' = target /\ UNCHANGED main
        /\ holder' = holder \/ holder = Null \/ holder = g
        /\ \E l \in {"tgLock", "done"} : Goto(g, l)
    BY <1>6 DEF TgStep, TgLock, TgStart, Lock
  <2> QED
    BY <1>t, <2>1, OnceGoto DEF Moves, Called, RunPc, main
<1>7. CASE UNCHANGED vars
  BY <1>7 DEF vars, lock, main, control, OnceInTurn, Distinct, InTurn, Called
<1> QED
  BY <1>t, <1>1, <1>2, <1>3, <1>4, <1>5, <1>6, <1>7 DEF Next, LoopStep

\* Main runs every coroutine of a turn once and each of them can go on when it
\* comes to it; nobody is left between two suspensions when the turn is over.
THEOREM MainIsAccounted == Spec => []OnceInTurn
<1>1. Init => OnceInTurn
  BY DEF Init, OnceInTurn, Distinct, InTurn, RunPc
<1>2. IInv /\ Accounted /\ OnceInTurn /\ [Next]_vars => OnceInTurn'
  BY OnceInductive
<1> QED
  BY <1>1, <1>2, Invariance, MutexIsAccounted, PTL DEF Spec

-----------------------------------------------------------------------------
(* When the dispatcher keeps up, and no status clears the reference to a    *)
(* loop job in use                                                         *)

\* The dispatcher is prompt and the native calls do not fail.
Prompt == Timely /\ ~InitErrors /\ ~AcceptErrors

\* Loop job j has still to look at NOT_EXIT, or at the flag of a teardown.
Active(j) == pc[j] \in {"launched", "running", "check", "ended"}

\* Job j is about to serve or serves its own socket, which ByeDpiProxy holds.
InUse(j) == pc[j] \in {"launched", "running"} /\ sock[j] = "open" /\ fd = j

\* Job j finds its socket shut, or runLoop() no descriptor.
Leaving(j) ==
    \/ pc[j] \in {"running", "check"} /\ sock[j] = "shut"
    \/ pc[j] = "launched" /\ fd = Null
    \/ pc[j] = "ended"

Trying(c, j) == pc[c] \in {"testing", "joining"} /\ target[c] = j

Awaits(x, j) == InTeardown(x) /\ target[x] = j

\* An event loop belongs to the selected preset, to the one that a start() tests or
\* has just given up, or to the teardown that waits for it; it is in use until its
\* socket is shut by the call that then waits for it, and NOT_EXIT is its own.
Turns ==
    /\ \A j \in Loops : Active(j) =>
         \/ proxyJob = j
         \/ \E c \in StartCalls : Trying(c, j)
         \/ \E x \in Coroutines : Awaits(x, j)
    /\ \A j \in Loops :
         /\ pc[j] = "running" => notExit /\ runs[j] = j
         /\ pc[j] = "check" => ~notExit /\ runs[j] = j
         /\ pc[j] # "failed"
    /\ proxyJob # Null /\ ~stopping => InUse(proxyJob)
    /\ \A c \in StartCalls : pc[c] = "testing" => target[c] \in Loops /\ InUse(target[c])
    /\ \A c \in StartCalls : pc[c] = "joining" =>
         target[c] \in Loops /\ (Leaving(target[c]) \/ pc[target[c]] = "stopLock")
    /\ \A x \in Coroutines : InTeardown(x) =>
         /\ target[x] \in Loops /\ proxyJob \in {Null, target[x]}
         /\ Leaving(target[x]) \/ pc[target[x]] = "done"

\* What is selected and not displayed is about to be displayed or cleaned up; what is
\* displayed and not there is about to be taken back.
Displayed ==
    /\ tun => proxyJob # Null
    /\ status = "Connected" /\ ~stopping =>
         (tun \/ \E x \in Coroutines : pc[x] \in {"stopped", "cleaned"})
    /\ appStatus = "Running" <=> status = "Connected"
    /\ proxyJob # Null /\ ~stopping /\ status # "Connected" =>
         \E c \in StartCalls : pc[c] \in {"connected", "failing", "cleanLock"}
    /\ \A c \in StartCalls : pc[c] = "connected" => stopping \/ tun
    /\ \A c \in StartCalls, x \in Coroutines :
         pc[c] = "connected" /\ InTeardown(x) => pc[target[x]] # "done"

PromptInv == Turns /\ Displayed

\* Only the owner of the mutex is in a teardown or between two presets.
LEMMA Owner ==
    ASSUME IInv, NEW x \in Coroutines, holder = x
    PROVE  /\ \A y \in Coroutines : Critical(y) => y = x
           /\ ~InTeardown(x) => ~stopping /\ \A y \in Coroutines : ~InTeardown(y)
BY DEF IInv, TeardownIsExclusive, Critical

\* start() between two presets.
LEMMA Between ==
    ASSUME IInv, Turns, Displayed, NEW c \in StartCalls,
           pc[c] \in {"opening", "testing", "joining"}
    PROVE  /\ holder = c /\ proxyJob = Null /\ ~stopping /\ ~tun
           /\ \A d \in StartCalls : pc[d] \in {"opening", "testing", "joining"} => d = c
           /\ \A d \in StartCalls : pc[d] # "connected"
           /\ \A y \in Coroutines : ~InTeardown(y)
           /\ \A k \in Loops : Active(k) => Trying(c, k)
<1>1. c \in Coroutines /\ StartCalls \subseteq Coroutines /\ Null \notin Loops
  BY Kinds
<1>2. /\ holder = c /\ proxyJob = Null
      /\ \A d \in StartCalls : pc[d] \in {"opening", "testing", "joining"} => d = c
  BY <1>1 DEF IInv, TeardownIsExclusive, Critical, Selected
<1>3. ~stopping /\ \A y \in Coroutines : ~InTeardown(y)
  BY <1>1, <1>2, Owner DEF InTeardown
<1>4. ~tun /\ \A d \in StartCalls : pc[d] # "connected"
  BY <1>2, <1>3 DEF Displayed
<1>5. \A k \in Loops : Active(k) => Trying(c, k)
  BY <1>1, <1>2, <1>3 DEF Turns, Awaits, Trying
<1> QED
  BY <1>2, <1>3, <1>4, <1>5

OneLoop == \A i, j \in Loops : Active(i) /\ Active(j) => i = j

LEMMA TurnsAlone ==
    ASSUME IInv, Turns, Displayed
    PROVE  OneLoop
<1> SUFFICES ASSUME NEW i \in Loops, NEW j \in Loops, Active(i), Active(j)
             PROVE  i = j
  BY DEF OneLoop
<1>0. Null \notin Loops /\ StartCalls \subseteq Coroutines
  BY Kinds
<1>1. ASSUME NEW c \in StartCalls, NEW k \in Loops, Trying(c, k) PROVE i = j
  <2>1. Trying(c, i) /\ Trying(c, j)
    BY <1>1, Between DEF Trying
  <2> QED
    BY <2>1 DEF Trying
<1>2. CASE ~\E c \in StartCalls, k \in Loops : Trying(c, k)
  <2>1. /\ proxyJob = i \/ \E x \in Coroutines : Awaits(x, i)
        /\ proxyJob = j \/ \E x \in Coroutines : Awaits(x, j)
    BY <1>2 DEF Turns
  <2>2. \A x \in Coroutines, k \in Loops : Awaits(x, k) => proxyJob \in {Null, k}
    BY DEF Awaits, Turns
  <2>3. \A x, y \in Coroutines : InTeardown(x) /\ InTeardown(y) => x = y
    BY DEF IInv, TeardownIsExclusive, Critical
  <2> QED
    BY <1>0, <2>1, <2>2, <2>3 DEF Awaits
<1> QED
  BY <1>1, <1>2

\* A job that has not reached runLoop() finds its own descriptor or none.
LEMMA LaunchedHas ==
    ASSUME IInv, Turns, NEW j \in Loops, pc[j] = "launched"
    PROVE  InUse(j) \/ fd = Null
<1>0. Null \notin Loops /\ StartCalls \subseteq Coroutines
  BY Kinds
<1>1. \A k \in Loops : Leaving(k) /\ k = j => fd = Null
  BY DEF Leaving
<1>2. ASSUME NEW c \in StartCalls, Trying(c, j) PROVE InUse(j) \/ fd = Null
  BY <1>1, <1>2 DEF Turns, Trying
<1>3. ASSUME NEW x \in Coroutines, Awaits(x, j) PROVE fd = Null
  BY <1>1, <1>3 DEF Turns, Awaits
<1>4. CASE proxyJob = j
  <2>1. CASE stopping
    <3>1. PICK x \in Coroutines : InTeardown(x)
      BY <2>1 DEF IInv, TeardownIsExclusive
    <3> QED
      BY <1>0, <1>3, <1>4, <3>1 DEF Turns, Awaits
  <2> QED
    BY <1>0, <1>4, <2>1 DEF Turns
<1> QED
  BY <1>2, <1>3, <1>4 DEF Turns, Active

\* Steps that change neither the sockets nor what is selected.
LEMMA SameTurns ==
    ASSUME IInv, Turns,
           UNCHANGED <<proxyJob, stopping, target, fd, sock, runs, notExit>>,
           \A j \in Loops : pc'[j] = pc[j],
           \A c \in StartCalls : \A l \in {"testing", "joining"} : pc'[c] = l <=> pc[c] = l,
           \A x \in Coroutines : InTeardown(x)' <=> InTeardown(x)
    PROVE  Turns'
<1>1. /\ \A j \in Loops : /\ Active(j)' <=> Active(j)
                          /\ InUse(j)' <=> InUse(j)
                          /\ Leaving(j)' <=> Leaving(j)
      /\ \A c \in StartCalls, j \in Loops : Trying(c, j)' <=> Trying(c, j)
      /\ \A x \in Coroutines, j \in Loops : Awaits(x, j)' <=> Awaits(x, j)
  BY DEF Active, InUse, Leaving, Trying, Awaits
<1>2. proxyJob \in Loops \cup {Null}
  BY Kinds
<1> QED
  BY <1>1, <1>2 DEF Turns

\* No event loop is left, and nobody looks for one.
LEMMA NoTurn ==
    ASSUME \A j \in Loops : ~Active(j)' /\ pc'[j] # "failed", proxyJob' = Null,
           \A c \in StartCalls : pc'[c] \notin {"testing", "joining"},
           \A x \in Coroutines : ~InTeardown(x)'
    PROVE  Turns'
BY DEF Turns, Active

LEMMA SameDisplay ==
    ASSUME Displayed, UNCHANGED <<status, proxyJob, tun, stopping>>,
           appStatus' = "Running" <=> appStatus = "Running",
           \A x \in Coroutines :
             pc[x] \in {"stopped", "cleaned"} => pc'[x] \in {"stopped", "cleaned"},
           \A c \in StartCalls :
             /\ pc[c] \in {"connected", "failing", "cleanLock"} =>
                  pc'[c] \in {"connected", "failing", "cleanLock"}
             /\ pc'[c] = "connected" => pc[c] = "connected",
           \A c \in StartCalls, x \in Coroutines :
             pc[c] = "connected" /\ InTeardown(x)' => pc'[target'[x]] # "done"
    PROVE  Displayed'
BY DEF Displayed

\* Only coroutine x moves, and it is no loop job and reaches no teardown.
LEMMA CalmStep ==
    ASSUME IInv, Turns, Displayed, NEW x \in Coroutines \ Loops,
           pc[x] \in {"idle", "startLock", "launched", "tgLock", "failing"},
           pc'[x] \in {"done", "startLock", "opening", "failing", "cleanLock", "stopLock",
                       "tgLock"},
           pc[x] = "failing" => pc'[x] = "cleanLock",
           \A y \in Coroutines \ {x} : pc'[y] = pc[y],
           UNCHANGED <<status, proxyJob, tun, stopping, target, fd, sock, runs, notExit>>,
           appStatus' = "Running" <=> appStatus = "Running"
    PROVE  Turns' /\ Displayed'
<1>t. Loops \subseteq Coroutines /\ StartCalls \subseteq Coroutines
  BY Kinds
<1>2. /\ \A j \in Loops : pc'[j] = pc[j]
      /\ \A c \in StartCalls : \A m \in {"testing", "joining"} : pc'[c] = m <=> pc[c] = m
      /\ \A y \in Coroutines : InTeardown(y)' <=> InTeardown(y)
  BY <1>t DEF InTeardown
<1>3. \A c \in StartCalls, y \in Coroutines :
        pc[c] = "connected" /\ InTeardown(y)' => pc'[target'[y]] # "done"
  BY <1>t, <1>2 DEF Displayed, Turns
<1>4. /\ \A y \in Coroutines :
           pc[y] \in {"stopped", "cleaned"} => pc'[y] \in {"stopped", "cleaned"}
      /\ \A c \in StartCalls :
           /\ pc[c] \in {"connected", "failing", "cleanLock"} =>
                pc'[c] \in {"connected", "failing", "cleanLock"}
           /\ pc'[c] = "connected" => pc[c] = "connected"
  BY <1>t
<1> QED
  BY <1>2, <1>3, <1>4, SameTurns, SameDisplay

LEMMA CallSteps ==
    ASSUME IInv, Turns, Displayed,
           \/ \E c \in StartCalls : OnStart(c) \/ EnterStart(c) \/ Failing(c)
           \/ \E c \in StopCalls : OnStop(c)
           \/ \E g \in TgJobs : TgStep(g)
    PROVE  Turns' /\ Displayed'
<1>1. PICK x \in Coroutines \ Loops :
        /\ UNCHANGED <<status, proxyJob, tun, stopping, target, fd, sock, runs, notExit>>
        /\ appStatus' = "Running" <=> appStatus = "Running"
        /\ pc[x] \in {"idle", "startLock", "launched", "tgLock", "failing"}
        /\ \E l \in {"done", "startLock", "opening", "failing", "cleanLock", "stopLock",
                     "tgLock"} :
             pc' = [pc EXCEPT ![x] = l] /\ (pc[x] = "failing" => l = "cleanLock")
  <2>1. ASSUME NEW c \in StartCalls, OnStart(c) \/ EnterStart(c) \/ Failing(c)
        PROVE  /\ c \in Coroutines \ Loops
               /\ UNCHANGED <<status, proxyJob, tun, stopping, target, fd, sock, runs, notExit>>
               /\ appStatus' = "Running" <=> appStatus = "Running"
               /\ pc[c] \in {"idle", "startLock", "failing"}
               /\ \E l \in {"done", "startLock", "opening", "failing", "cleanLock"} :
                    pc' = [pc EXCEPT ![c] = l] /\ (pc[c] = "failing" => l = "cleanLock")
    <3>1. c \in Coroutines \ Loops
      BY Kinds
    <3>2. /\ UNCHANGED <<status, proxyJob, tun, stopping, target, fd, sock, runs, notExit>>
          /\ appStatus' = "Running" <=> appStatus = "Running"
          /\ pc[c] \in {"idle", "startLock", "failing"}
      BY <2>1 DEF OnStart, EnterStart, Failing, service, native, Displayed
    <3>3. \E l \in {"done", "startLock", "opening", "failing", "cleanLock"} :
            pc' = [pc EXCEPT ![c] = l] /\ (pc[c] = "failing" => l = "cleanLock")
      BY <2>1 DEF OnStart, EnterStart, Failing, Throw, Goto
    <3> QED
      BY <3>1, <3>2, <3>3
  <2>2. ASSUME NEW c \in StopCalls, OnStop(c)
        PROVE  /\ c \in Coroutines \ Loops
               /\ UNCHANGED <<status, proxyJob, tun, stopping, target, fd, sock, runs, notExit>>
               /\ appStatus' = appStatus
               /\ pc[c] = "idle" /\ pc' = [pc EXCEPT ![c] = "stopLock"]
    BY <2>2, Kinds DEF OnStop, Goto, service, native
  <2>3. ASSUME NEW g \in TgJobs, TgStep(g)
        PROVE  /\ g \in Coroutines \ Loops
               /\ UNCHANGED <<status, proxyJob, tun, stopping, target, fd, sock, runs, notExit>>
               /\ appStatus' = appStatus /\ pc[g] \in {"launched", "tgLock"}
               /\ \E l \in {"tgLock", "done"} : pc' = [pc EXCEPT ![g] = l]
    BY <2>3, Kinds DEF TgStep, TgLock, TgStart, Goto, service, native
  <2> QED
    BY <2>1, <2>2, <2>3
<1>2. /\ pc'[x] \in {"done", "startLock", "opening", "failing", "cleanLock", "stopLock",
                     "tgLock"}
      /\ pc[x] = "failing" => pc'[x] = "cleanLock"
      /\ \A y \in Coroutines \ {x} : pc'[y] = pc[y]
  BY <1>1, Kinds DEF Labelled
<1> QED
  BY <1>1, <1>2, CalmStep

\* A status that is shown finds what it says, or nothing: else a reference to a job
\* in use would be lost.
LEMMA ShowSteps ==
    ASSUME IInv, Turns, Displayed, ~JobLost', NEW x \in Coroutines,
           \/ x \in StartCalls /\ (ShowConnected(x) \/ ShowFailed(x))
           \/ x \notin StartCalls /\ ShowDisconnected(x)
    PROVE  Turns' /\ Displayed'
<1>t. /\ Labelled /\ StartCalls \subseteq Coroutines /\ Loops \subseteq Coroutines
      /\ StartCalls \cap (Loops \cup TgJobs) = {} /\ Loops \cap TgJobs = {}
      /\ proxyJob \in Loops \cup {Null} /\ Null \notin Loops /\ TgJobs \subseteq Coroutines
  BY Kinds
<1>u. UNCHANGED <<tun, stopping, target, fd, sock, runs, notExit>>
  BY DEF ShowConnected, ShowFailed, ShowDisconnected, Report, native
<1>1. CASE x \in StartCalls /\ ShowConnected(x)
  <2>1. PICK g \in TgJobs : Fresh(g, TgJobs) /\ pc' = [pc EXCEPT ![x] = "done", ![g] = "launched"]
    BY <1>1 DEF ShowConnected
  <2>2. /\ pc[x] = "connected" /\ status' = "Connected" /\ appStatus' = "Running"
        /\ proxyJob' = proxyJob
    BY <1>1 DEF ShowConnected, UpdateStatus
  <2>3. /\ pc'[x] = "done" /\ pc'[g] = "launched"
        /\ \A y \in Coroutines \ {x, g} : pc'[y] = pc[y]
        /\ pc[g] = "idle"
    BY <1>1, <1>t, <2>1 DEF Fresh, Labelled
  <2>4. /\ \A j \in Loops : pc'[j] = pc[j]
        /\ \A c \in StartCalls : \A m \in {"testing", "joining"} : pc'[c] = m <=> pc[c] = m
        /\ \A y \in Coroutines : InTeardown(y)' <=> InTeardown(y)
        /\ \A c \in StartCalls : pc'[c] = "connected" => pc[c] = "connected"
    BY <1>1, <1>t, <2>2, <2>3 DEF InTeardown
  <2>5. Turns'
    BY <1>u, <2>2, <2>4, SameTurns
  <2>6. \A c \in StartCalls, y \in Coroutines :
          pc'[c] = "connected" /\ InTeardown(y)' => pc'[target'[y]] # "done"
    BY <1>u, <2>4 DEF Displayed, Turns
  <2>7. stopping \/ tun
    BY <1>1, <2>2 DEF Displayed
  <2>8. Displayed'
    BY <1>u, <2>2, <2>4, <2>6, <2>7 DEF Displayed
  <2> QED
    BY <2>5, <2>8
<1>2. CASE ~(x \in StartCalls /\ ShowConnected(x))
  <2>1. /\ pc[x] \in {"stopped", "cleaned"} /\ pc' = [pc EXCEPT ![x] = "done"]
        /\ status' # "Connected" /\ appStatus' = "Halted" /\ proxyJob' = Null
    BY <1>2 DEF ShowFailed, ShowDisconnected, Report, UpdateStatus, Goto
  <2>2. pc'[x] = "done" /\ \A y \in Coroutines \ {x} : pc'[y] = pc[y]
    BY <1>t, <2>1 DEF Labelled
  <2>3. /\ \A j \in Loops : Active(j)' <=> Active(j)
        /\ \A j \in Loops : pc'[j] = pc[j] \/ (pc[j] = "stopped" /\ pc'[j] = "done")
        /\ \A c \in StartCalls : \A m \in {"testing", "joining", "connected"} :
             pc'[c] = m <=> pc[c] = m
        /\ \A y \in Coroutines : InTeardown(y)' <=> InTeardown(y)
        /\ \A j \in Loops : Leaving(j)' <=> Leaving(j)
        /\ \A j \in Loops : InUse(j)' <=> InUse(j)
    <3>1. x \in Loops => pc[x] = "stopped"
      BY <1>2, <1>t DEF ShowFailed, ShowDisconnected
    <3> QED
      BY <1>t, <1>u, <2>1, <2>2, <3>1 DEF Active, InTeardown, Leaving, InUse
  <2>4. proxyJob = Null \/ stopping
    <3> SUFFICES ASSUME proxyJob # Null, ~stopping PROVE FALSE
      OBVIOUS
    <3>1. sock'[proxyJob] = "open"
      BY <1>u, Kinds DEF Turns, InUse
    <3>2. \A c \in StartCalls : pc'[c] # "testing"
      BY <2>3 DEF IInv, Selected
    <3> QED
      BY <1>t, <2>1, <3>1, <3>2 DEF JobLost
  <2>5. \A j \in Loops : Active(j) =>
          \/ \E c \in StartCalls : Trying(c, j)
          \/ \E y \in Coroutines : Awaits(y, j)
    <3> SUFFICES ASSUME NEW j \in Loops, Active(j), proxyJob = j
                 PROVE  \E y \in Coroutines : Awaits(y, j)
      BY DEF Turns
    <3>1. stopping
      BY <1>t, <2>4
    <3>2. PICK y \in Coroutines : InTeardown(y)
      BY <3>1 DEF IInv, TeardownIsExclusive
    <3> QED
      BY <1>t, <3>2 DEF Turns, Awaits
  <2>6. Turns'
    <3>1. /\ \A c \in StartCalls, j \in Loops : Trying(c, j)' <=> Trying(c, j)
          /\ \A y \in Coroutines, j \in Loops : Awaits(y, j)' <=> Awaits(y, j)
      BY <1>u, <2>3 DEF Trying, Awaits
    <3>2. \A j \in Loops : Active(j)' =>
            \/ \E c \in StartCalls : Trying(c, j)'
            \/ \E y \in Coroutines : Awaits(y, j)'
      BY <2>3, <2>5, <3>1
    <3>3. \A j \in Loops :
            /\ pc'[j] = "running" => notExit' /\ runs'[j] = j
            /\ pc'[j] = "check" => ~notExit' /\ runs'[j] = j
            /\ pc'[j] # "failed"
      BY <1>u, <2>3 DEF Turns
    <3>4. \A c \in StartCalls : pc'[c] = "testing" => target'[c] \in Loops /\ InUse(target[c])'
      BY <1>u, <2>3 DEF Turns
    <3>5. \A c \in StartCalls : pc'[c] = "joining" =>
            target'[c] \in Loops /\ (Leaving(target[c])' \/ pc'[target'[c]] = "stopLock")
      BY <1>u, <2>3 DEF Turns
    <3>6. \A y \in Coroutines : InTeardown(y)' =>
            /\ target'[y] \in Loops /\ (Leaving(target[y])' \/ pc'[target'[y]] = "done")
      BY <1>u, <2>3 DEF Turns
    <3> QED
      BY <1>u, <2>1, <3>2, <3>3, <3>4, <3>5, <3>6 DEF Turns
  <2>7. Displayed'
    <3>1. ~tun
      <4>1. CASE stopping
        BY <4>1 DEF IInv, TeardownIsExclusive, TeardownIsDown
      <4> QED
        BY <2>4, <4>1 DEF Displayed
    <3>2. \A c \in StartCalls, y \in Coroutines :
            pc'[c] = "connected" /\ InTeardown(y)' => pc'[target'[y]] # "done"
      <4> SUFFICES ASSUME NEW c \in StartCalls, NEW y \in Coroutines, pc[c] = "connected",
                          InTeardown(y)
                   PROVE  pc'[target[y]] # "done"
        BY <1>u, <2>3
      <4>1. pc[target[y]] # "done" /\ target[y] \in Loops /\ Leaving(target[y])
        BY DEF Displayed, Turns
      <4>2. Leaving(target[y])'
        BY <1>u, <2>3, <4>1
      <4> QED
        BY <1>u, <4>2 DEF Leaving
    <3> QED
      BY <1>u, <2>1, <2>3, <3>1, <3>2 DEF Displayed
  <2> QED
    BY <2>6, <2>7
<1> QED
  BY <1>1, <1>2

-----------------------------------------------------------------------------
\* Between two turns nobody is between two suspensions.
LEMMA NobodyRuns ==
    ASSUME OnceInTurn, turn = <<>>
    PROVE  \A x \in Coroutines : pc[x] \notin RunPc
BY DEF OnceInTurn, InTurn

\* A step of a job touches the flag, its own socket and its own place only.
LEMMA JobSteps ==
    ASSUME Prompt, IInv, OnceInTurn, Turns, Displayed, NEW j \in Loops,
           RunLoop(j) \/ Listener(j) \/ CheckExit(j) \/ LoopFailed(j) \/ LoopEnded(j)
    PROVE  Turns' /\ Displayed'
<1>t. /\ Labelled /\ Null \notin Loops /\ proxyJob \in Loops \cup {Null}
      /\ sock \in [Loops -> {"none", "open", "shut", "closed"}]
      /\ runs \in [Loops -> Loops \cup {Null}]
      /\ StartCalls \subseteq Coroutines /\ Loops \subseteq Coroutines
      /\ StartCalls \cap Loops = {}
  BY Kinds
<1>a. Active(j) => \A k \in Loops \ {j} : ~Active(k)
  BY TurnsAlone DEF OneLoop
<1>1. ASSUME NEW l \in {"running", "check", "ended", "stopLock", "done"},
             pc' = [pc EXCEPT ![j] = l], Active(j),
             UNCHANGED <<proxyJob, stopping, target, fd, status, appStatus, tun>>,
             \A k \in Loops \ {j} : sock'[k] = sock[k],
             l = "running" => notExit' /\ runs'[j] = j,
             l = "check" => ~notExit' /\ runs'[j] = j,
             InUse(j) => InUse(j)',
             Leaving(j) => Leaving(j)' \/ (IF stopping THEN l = "done" ELSE l = "stopLock"),
             l \in {"stopLock", "done"} => pc[j] = "ended",
             l = "done" => \A c \in StartCalls : pc[c] # "connected"
      PROVE  Turns' /\ Displayed'
  <2>1. /\ \A y \in Coroutines \ {j} : pc'[y] = pc[y]
        /\ pc'[j] = l
    BY <1>1, <1>t DEF Labelled
  <2>2. /\ \A c \in StartCalls : pc'[c] = pc[c] /\ target'[c] = target[c]
        /\ \A c \in StartCalls, k \in Loops : Trying(c, k)' <=> Trying(c, k)
        /\ \A k \in Loops : Active(k)' => Active(k)
        /\ \A k \in Loops : InUse(k) => InUse(k)'
        /\ \A k \in Loops \ {j} : Leaving(k) => Leaving(k)'
        /\ \A k \in Loops \ {j} : pc'[k] = pc[k]
        /\ \A y \in Coroutines : InTeardown(y)' <=> InTeardown(y)
        /\ \A y \in Coroutines, k \in Loops : Awaits(y, k)' <=> Awaits(y, k)
    BY <1>1, <1>t, <2>1 DEF Trying, Active, InUse, Leaving, InTeardown, Awaits
  <2>3. \A k \in Loops : Active(k)' =>
          \/ proxyJob' = k
          \/ \E c \in StartCalls : Trying(c, k)'
          \/ \E y \in Coroutines : Awaits(y, k)'
    BY <1>1, <2>2 DEF Turns
  <2>4. \A k \in Loops : /\ pc'[k] = "running" => notExit' /\ runs'[k] = k
                         /\ pc'[k] = "check" => ~notExit' /\ runs'[k] = k
                         /\ pc'[k] # "failed"
    BY <1>1, <1>a, <2>1, <2>2 DEF Active, Turns
  <2>5. proxyJob' # Null /\ ~stopping' => InUse(proxyJob)'
    <3>1. proxyJob # Null /\ ~stopping => InUse(proxyJob)
      BY DEF Turns
    <3> QED
      BY <1>1, <1>t, <2>2, <3>1 DEF InUse
  <2>6. \A c \in StartCalls : pc'[c] = "testing" => target'[c] \in Loops /\ InUse(target[c])'
    BY <2>2 DEF Turns
  <2>7. ASSUME NEW c \in StartCalls, pc'[c] = "joining"
        PROVE  target'[c] \in Loops /\ (Leaving(target[c])' \/ pc'[target'[c]] = "stopLock")
    <3>1. /\ pc[c] = "joining" /\ target[c] \in Loops /\ ~stopping
          /\ Leaving(target[c]) \/ pc[target[c]] = "stopLock"
      BY <2>2, <2>7, Between DEF Turns
    <3>2. CASE target[c] = j
      BY <1>1, <2>1, <2>2, <3>1, <3>2 DEF Active
    <3>3. CASE target[c] # j
      BY <2>2, <3>1, <3>3
    <3> QED
      BY <3>2, <3>3
  <2>8. ASSUME NEW x \in Coroutines, InTeardown(x)'
        PROVE  /\ target'[x] \in Loops /\ proxyJob' \in {Null, target'[x]}
               /\ Leaving(target[x])' \/ pc'[target'[x]] = "done"
               /\ pc'[target'[x]] = "done" => target[x] = j \/ pc[target[x]] = "done"
    <3>1. /\ target[x] \in Loops /\ proxyJob \in {Null, target[x]} /\ stopping
          /\ Leaving(target[x]) \/ pc[target[x]] = "done"
      BY <2>2, <2>8 DEF Turns, IInv, TeardownIsExclusive
    <3>2. CASE target[x] = j
      BY <1>1, <2>1, <3>1, <3>2 DEF Active
    <3>3. CASE target[x] # j
      BY <1>1, <2>2, <3>1, <3>3
    <3> QED
      BY <1>1, <3>1, <3>2, <3>3
  <2>9. Turns'
    BY <2>3, <2>4, <2>5, <2>6, <2>7, <2>8 DEF Turns
  <2>10. ASSUME NEW c \in StartCalls, NEW x \in Coroutines, pc[c] = "connected", InTeardown(x)'
         PROVE  pc'[target'[x]] # "done"
    <3>1. l # "done" /\ target'[x] = target[x] /\ pc[target[x]] # "done"
      BY <1>1, <2>2, <2>10 DEF Displayed
    <3> QED
      BY <2>1, <2>8, <2>10, <3>1
  <2>11. \A x \in Coroutines :
           pc[x] \in {"stopped", "cleaned"} => pc'[x] \in {"stopped", "cleaned"}
    BY <1>1, <2>1 DEF Active
  <2>12. Displayed'
    BY <1>1, <2>2, <2>10, <2>11, SameDisplay
  <2> QED
    BY <2>9, <2>12
<1>2. CASE RunLoop(j)
  <2>1. CASE fd = Null
    <3>1. UNCHANGED <<pc, target, proxyJob, stopping, fd, sock, runs, notExit, status,
                      appStatus, tun>>
      BY <1>2, <2>1 DEF RunLoop, service
    <3>2. \A y \in Coroutines : InTeardown(y)' <=> InTeardown(y)
      BY <3>1 DEF InTeardown
    <3>3. Turns'
      BY <3>1, <3>2, SameTurns
    <3>4. \A c \in StartCalls, y \in Coroutines :
            pc[c] = "connected" /\ InTeardown(y)' => pc'[target'[y]] # "done"
      BY <3>1, <3>2 DEF Displayed
    <3>5. Displayed'
      BY <3>1, <3>4, SameDisplay
    <3> QED
      BY <3>3, <3>5
  <2>2. CASE fd # Null
    <3>1. pc[j] = "launched" /\ fd = j /\ InUse(j)
      BY <1>2, <2>2, LaunchedHas DEF RunLoop, InUse
    <3>2. /\ pc' = [pc EXCEPT ![j] = "running"] /\ notExit' = TRUE
          /\ runs' = [runs EXCEPT ![j] = j]
          /\ UNCHANGED <<proxyJob, stopping, target, fd, sock, status, appStatus, tun>>
      BY <1>2, <2>2, <3>1 DEF RunLoop, Prompt, Goto, service
    <3>3. pc'[j] = "running" /\ runs'[j] = j
      BY <1>t, <3>2 DEF Labelled
    <3>4. Active(j) /\ ~Leaving(j) /\ InUse(j)'
      BY <1>t, <3>1, <3>2, <3>3 DEF Active, InUse, Leaving
    <3> QED
      BY <1>1, <3>1, <3>2, <3>3, <3>4
  <2> QED
    BY <2>1, <2>2
<1>3. CASE Listener(j)
  <2>1. pc[j] = "running" /\ runs[j] = j
    BY <1>3 DEF Listener, Turns
  <2>2. /\ sock[j] = "shut"
        /\ pc' = [pc EXCEPT ![j] = "check"] /\ notExit' = FALSE
        /\ UNCHANGED <<proxyJob, stopping, target, fd, sock, runs, status, appStatus, tun>>
    BY <1>3, <2>1 DEF Listener, Prompt, Goto, service
  <2>3. pc'[j] = "check"
    BY <1>t, <2>2 DEF Labelled
  <2> QED
    BY <1>1, <2>1, <2>2, <2>3 DEF Active, InUse, Leaving
<1>4. CASE CheckExit(j)
  <2>1. pc[j] = "check" /\ ~notExit /\ runs[j] = j
    BY <1>4 DEF CheckExit, KeepsRunning, Turns
  <2>2. /\ pc' = [pc EXCEPT ![j] = "ended"] /\ sock' = [sock EXCEPT ![j] = "closed"]
        /\ UNCHANGED <<proxyJob, stopping, target, fd, status, appStatus, tun>>
    BY <1>4, <2>1 DEF CheckExit, KeepsRunning, Goto, service
  <2>3. pc'[j] = "ended" /\ \A k \in Loops \ {j} : sock'[k] = sock[k]
    BY <1>t, <2>2 DEF Labelled
  <2> QED
    BY <1>1, <2>1, <2>2, <2>3 DEF Active, InUse, Leaving
<1>5. CASE LoopEnded(j)
  <2>1. /\ pc[j] = "ended"
        /\ pc' = [pc EXCEPT ![j] = IF stopping THEN "done" ELSE "stopLock"]
        /\ UNCHANGED <<proxyJob, stopping, target, fd, sock, status, appStatus, tun>>
    BY <1>5 DEF LoopEnded, Goto, service, native
  <2>2. \A c \in StartCalls : pc[c] # "connected"
    BY <1>5, <1>t, NobodyRuns DEF LoopEnded, RunPc
  <2> QED
    BY <1>1, <2>1, <2>2 DEF Active, InUse
<1>6. ~LoopFailed(j)
  BY DEF LoopFailed, Turns
<1> QED
  BY <1>2, <1>3, <1>4, <1>5, <1>6

\* A teardown finds the selected job in use, or nothing, and waits until it is over.
LEMMA TeardownSteps ==
    ASSUME IInv, Turns, Displayed, NEW x \in Coroutines,
           Stop(x) \/ StopJoined(x) \/ CleanUp(x) \/ CleanJoined(x)
    PROVE  Turns' /\ Displayed'
<1>t. /\ Labelled /\ Null \notin Loops /\ proxyJob \in Loops \cup {Null}
      /\ sock \in [Loops -> {"none", "open", "shut", "closed"}]
      /\ target \in [Coroutines -> Loops \cup {Null}]
      /\ StartCalls \subseteq Coroutines /\ Loops \subseteq Coroutines
  BY Kinds
\* The end of the withLock block, when no loop is left and nobody is "connected".
<1>0. ASSUME NEW m \in {"stopped", "cleaned"}, TornDown(x, m), ~tun',
             UNCHANGED <<status, appStatus>>, \A k \in Loops : ~Active(k),
             \A c \in StartCalls : pc[c] \notin {"testing", "joining", "connected"},
             \A y \in Coroutines : InTeardown(y) => y = x
      PROVE  Turns' /\ Displayed'
  <2>1. ~stopping' /\ proxyJob' = Null /\ pc' = [pc EXCEPT ![x] = m]
    BY <1>0 DEF TornDown, Goto
  <2>2. pc'[x] = m /\ \A y \in Coroutines \ {x} : pc'[y] = pc[y]
    BY <1>t, <2>1 DEF Labelled
  <2>3. /\ \A k \in Loops : ~Active(k)' /\ pc'[k] # "failed"
        /\ \A c \in StartCalls : pc'[c] \notin {"testing", "joining", "connected"}
        /\ \A y \in Coroutines : ~InTeardown(y)'
    BY <1>0, <1>t, <2>2 DEF Active, InTeardown, Turns
  <2>4. Turns'
    BY <2>1, <2>3, NoTurn
  <2>5. Displayed'
    BY <1>0, <2>1, <2>2, <2>3 DEF Displayed
  <2> QED
    BY <2>4, <2>5
<1>1. ASSUME NEW l \in {"stopJoin", "cleanJoin"}, NEW m \in {"stopped", "cleaned"},
             pc[x] \in {"stopLock", "cleanLock"}, TearDown(x, l, m)
      PROVE  Turns' /\ Displayed'
  <2>1. holder = x /\ tun' = FALSE /\ UNCHANGED <<status, appStatus, runs, notExit>>
    BY <1>1 DEF TearDown, TunnelDown
  <2>2. /\ ~stopping
        /\ \A y \in Coroutines : ~InTeardown(y)
        /\ \A c \in StartCalls : pc[c] \notin {"testing", "joining"}
    BY <1>1, <1>t, <2>1, Owner DEF Critical, InTeardown
  <2>3. /\ \A j \in Loops : Active(j) => proxyJob = j
        /\ proxyJob # Null => InUse(proxyJob)
    BY <1>t, <2>2 DEF Turns, Trying, Awaits
  <2>4. CASE proxyJob # Null
    <3>0. /\ proxyJob \in Loops /\ fd = proxyJob /\ sock[proxyJob] = "open"
          /\ pc[proxyJob] \in {"launched", "running"}
      BY <1>t, <2>3, <2>4 DEF InUse
    <3>1. /\ sock' = [sock EXCEPT ![proxyJob] = "shut"] /\ fd' = Null /\ stopping' = TRUE
          /\ target' = [target EXCEPT ![x] = proxyJob] /\ proxyJob' = proxyJob
          /\ pc' = [pc EXCEPT ![x] = l]
      BY <1>1, <2>4, <3>0 DEF TearDown, StopNative, ShutDown, Goto
    <3>2. /\ proxyJob # x
          /\ pc'[x] = l /\ \A y \in Coroutines \ {x} : pc'[y] = pc[y]
          /\ sock'[proxyJob] = "shut" /\ target'[x] = proxyJob
      BY <1>1, <1>t, <3>0, <3>1 DEF Labelled
    <3>3. /\ Leaving(proxyJob)' /\ pc'[proxyJob] \in {"launched", "running"}
          /\ \A j \in Loops : Active(j)' => Active(j)
          /\ \A j \in Loops : pc'[j] \in {"running", "check", "failed"} => pc'[j] = pc[j]
          /\ \A c \in StartCalls : pc'[c] \notin {"testing", "joining"}
          /\ \A y \in Coroutines : InTeardown(y)' => y = x
      BY <1>t, <2>2, <3>0, <3>1, <3>2 DEF Leaving, Active, InTeardown
    <3>4. Turns'
      BY <2>1, <2>3, <3>0, <3>1, <3>2, <3>3 DEF Turns
    <3>5. Displayed'
      BY <2>1, <3>1, <3>2, <3>3 DEF Displayed
    <3> QED
      BY <3>4, <3>5
  <2>5. CASE proxyJob = Null
    <3>1. TornDown(x, m)
      BY <1>1, <2>5 DEF TearDown
    <3>2. \A j \in Loops : ~Active(j)
      BY <1>t, <2>3, <2>5
    <3>3. \A c \in StartCalls : pc[c] # "connected"
      BY <2>2, <2>5 DEF Displayed
    <3> QED
      BY <1>0, <2>1, <2>2, <3>1, <3>2, <3>3
  <2> QED
    BY <2>4, <2>5
<1>2. ASSUME NEW m \in {"stopped", "cleaned"}, InTeardown(x), TearDownJoined(x, m)
      PROVE  Turns' /\ Displayed'
  <2>1. stopping /\ holder = x /\ ~tun
    BY <1>2 DEF IInv, TeardownIsExclusive, TeardownIsDown, Critical
  <2>2. /\ \A c \in StartCalls : pc[c] \notin {"testing", "joining"}
        /\ \A y \in Coroutines : InTeardown(y) => y = x
    BY <1>2, <1>t, <2>1, Owner DEF Critical, InTeardown
  <2>3. /\ target[x] \in Loops /\ proxyJob \in {Null, target[x]}
        /\ pc[target[x]] = "done"
    BY <1>2 DEF Turns, TearDownJoined, Joined
  <2>4. \A j \in Loops : ~Active(j)
    BY <1>t, <2>2, <2>3 DEF Turns, Trying, Awaits, Active
  <2>5. \A c \in StartCalls : pc[c] # "connected"
    BY <1>2, <2>3 DEF Displayed
  <2>6. TornDown(x, m) /\ UNCHANGED <<status, appStatus, tun>>
    BY <1>2 DEF TearDownJoined
  <2> QED
    BY <1>0, <2>1, <2>2, <2>4, <2>5, <2>6
<1> QED
  BY <1>1, <1>2 DEF Stop, StopJoined, CleanUp, CleanJoined, InTeardown

\* start() opens a socket only when no loop is left on an older one.
LEMMA TrySteps ==
    ASSUME Prompt, IInv, Turns, Displayed, NEW c \in StartCalls,
           TryPreset(c) \/ PresetFails(c) \/ NextPreset(c)
    PROVE  Turns' /\ Displayed'
<1>t. /\ Labelled /\ c \in Coroutines /\ StartCalls \subseteq Coroutines /\ Loops \subseteq Coroutines
      /\ StartCalls \cap Loops = {} /\ Null \notin Loops
      /\ sock \in [Loops -> {"none", "open", "shut", "closed"}]
      /\ target \in [Coroutines -> Loops \cup {Null}]
  BY Kinds
<1>0. pc[c] \in {"opening", "testing", "joining"}
  BY DEF TryPreset, PresetFails, NextPreset
<1>b. /\ holder = c /\ proxyJob = Null /\ ~stopping /\ ~tun
      /\ \A d \in StartCalls : pc[d] \in {"opening", "testing", "joining"} => d = c
      /\ \A d \in StartCalls : pc[d] # "connected"
      /\ \A y \in Coroutines : ~InTeardown(y)
      /\ \A k \in Loops : Active(k) => Trying(c, k)
  BY <1>0, Between
<1>s. /\ UNCHANGED <<proxyJob, stopping, notExit, runs, status, appStatus, tun>>
      /\ \/ \E l \in {"opening", "joining"} : pc' = [pc EXCEPT ![c] = l]
         \/ \E j \in Loops : /\ pc[j] = "idle"
                             /\ pc' = [pc EXCEPT ![c] = "testing", ![j] = "launched"]
         \/ pc' = pc
  BY DEF TryPreset, PresetFails, NextPreset, service, Goto, OpenSocket, Fresh
<1>d. Displayed'
  <2>1. /\ pc'[c] \in {"opening", "testing", "joining"}
        /\ \A y \in Coroutines \ {c} : pc'[y] = pc[y] \/ (y \in Loops /\ pc[y] = "idle")
    BY <1>0, <1>s, <1>t DEF Labelled
  <2>2. /\ \A x \in Coroutines :
             pc[x] \in {"stopped", "cleaned"} => pc'[x] \in {"stopped", "cleaned"}
        /\ \A d \in StartCalls :
             /\ pc[d] \in {"connected", "failing", "cleanLock"} =>
                  pc'[d] \in {"connected", "failing", "cleanLock"}
             /\ pc'[d] = "connected" => pc[d] = "connected"
    BY <1>0, <1>t, <2>1
  <2> QED
    BY <1>b, <1>s, <2>2, SameDisplay
<1>1. ASSUME pc' = [pc EXCEPT ![c] = "opening"], \A k \in Loops : ~Active(k)
      PROVE  Turns'
  <2>0. pc'[c] = "opening" /\ \A y \in Coroutines \ {c} : pc'[y] = pc[y]
    BY <1>1, <1>t DEF Labelled
  <2>1. /\ \A k \in Loops : ~Active(k)' /\ pc'[k] # "failed"
        /\ \A d \in StartCalls : pc'[d] \notin {"testing", "joining"}
        /\ \A y \in Coroutines : ~InTeardown(y)'
    BY <1>1, <1>b, <1>t, <2>0 DEF Active, InTeardown, Turns
  <2> QED
    BY <1>b, <1>s, <2>1, NoTurn
<1>2. CASE PresetFails(c)
  <2>1. /\ pc[c] = "testing" /\ pc' = [pc EXCEPT ![c] = "joining"] /\ target' = target
        /\ StopNative /\ \A k \in Loops : pc[k] # "launched"
    BY <1>2 DEF PresetFails, LoopsScheduled, Prompt, Goto
  <2>2. target[c] \in Loops /\ InUse(target[c])
    BY <2>1 DEF Turns
  <2>3. fd = target[c] /\ pc[target[c]] = "running" /\ sock[target[c]] = "open"
    BY <2>1, <2>2 DEF InUse
  <2>4. sock' = [sock EXCEPT ![target[c]] = "shut"]
    BY <2>1, <2>3 DEF StopNative, ShutDown
  <2>5. /\ pc'[c] = "joining" /\ \A y \in Coroutines \ {c} : pc'[y] = pc[y]
    BY <1>t, <2>1 DEF Labelled
  <2>6. /\ \A k \in Loops : pc'[k] = pc[k] /\ (Active(k)' <=> Active(k))
        /\ \A k \in Loops : Trying(c, k) => Trying(c, k)'
        /\ \A y \in Coroutines : ~InTeardown(y)'
        /\ \A d \in StartCalls : pc'[d] # "testing" /\ (pc'[d] = "joining" => d = c)
    BY <1>0, <1>b, <1>t, <2>1, <2>5 DEF Active, Trying, InTeardown
  <2>7. Leaving(target[c])' /\ target'[c] \in Loops
    BY <1>t, <2>1, <2>2, <2>3, <2>4, <2>6 DEF Leaving
  <2>8. /\ \A k \in Loops : Active(k)' => Trying(c, k)'
        /\ \A k \in Loops : /\ pc'[k] = "running" => notExit' /\ runs'[k] = k
                            /\ pc'[k] = "check" => ~notExit' /\ runs'[k] = k
                            /\ pc'[k] # "failed"
    BY <1>b, <1>s, <2>6 DEF Turns
  <2>9. Turns'
    BY <1>b, <1>s, <2>1, <2>6, <2>7, <2>8 DEF Turns
  <2> QED
    BY <1>d, <2>9
<1>3. CASE NextPreset(c)
  <2>1. /\ pc' = [pc EXCEPT ![c] = "opening"] /\ pc[c] = "joining"
        /\ pc[target[c]] \notin {"launched", "running", "check", "ended"}
    BY <1>3 DEF NextPreset, JoinTimesOut, Goto, Prompt
  <2>2. \A k \in Loops : ~Active(k)
    BY <1>b, <2>1 DEF Trying, Active
  <2> QED
    BY <1>1, <1>d, <2>1, <2>2
<1>4. CASE TryPreset(c)
  <2>0. pc[c] = "opening" /\ \A k \in Loops : ~Active(k)
    BY <1>4, <1>b DEF TryPreset, Trying
  <2>1. CASE Reset /\ UNCHANGED <<pc, target>>
    <3>1. pc' = [pc EXCEPT ![c] = "opening"]
      BY <1>t, <2>0, <2>1 DEF Labelled
    <3> QED
      BY <1>1, <1>d, <2>0, <3>1
  <2>2. ASSUME NEW j \in Loops, OpenSocket(j),
               pc' = [pc EXCEPT ![c] = "testing", ![j] = "launched"],
               target' = [target EXCEPT ![c] = j]
        PROVE  Turns'
    <3>1. sock'[j] = "open" /\ fd' = j
      <4>1. SocketsReset \in [Loops -> {"none", "open", "shut", "closed"}]
        BY ResetShuts DEF IInv, TypeOK, ListenerIsOwned, OpenIsOwned
      <4> QED
        BY <2>2, <4>1 DEF OpenSocket
    <3>2. /\ pc'[c] = "testing" /\ pc'[j] = "launched" /\ target'[c] = j
          /\ \A y \in Coroutines \ {c, j} : pc'[y] = pc[y]
      BY <1>t, <2>2 DEF Labelled
    <3>3. /\ \A k \in Loops : Active(k)' => k = j
          /\ \A k \in Loops : pc'[k] \notin {"running", "check", "failed"}
          /\ \A y \in Coroutines : ~InTeardown(y)'
          /\ \A d \in StartCalls : pc'[d] # "joining" /\ (pc'[d] = "testing" => d = c)
      BY <1>b, <1>t, <2>0, <3>2 DEF Active, InTeardown, Turns
    <3>4. Trying(c, j)' /\ InUse(j)'
      BY <3>1, <3>2 DEF Trying, InUse
    <3> QED
      BY <1>b, <1>s, <3>2, <3>3, <3>4 DEF Turns
  <2> QED
    BY <1>4, <1>d, <2>1, <2>2 DEF TryPreset
<1> QED
  BY <1>2, <1>3, <1>4

\* The preset that start() selects is the one whose loop is in use.
LEMMA SelectSteps ==
    ASSUME Prompt, IInv, Turns, Displayed, NEW c \in StartCalls,
           PresetWorks(c) \/ Fallback(c)
    PROVE  Turns' /\ Displayed'
<1>t. /\ Labelled /\ c \in Coroutines /\ StartCalls \subseteq Coroutines /\ Loops \subseteq Coroutines
      /\ StartCalls \cap Loops = {} /\ Null \notin Loops
      /\ sock \in [Loops -> {"none", "open", "shut", "closed"}]
      /\ target \in [Coroutines -> Loops \cup {Null}]
  BY Kinds
<1>0. pc[c] \in {"opening", "testing"}
  BY DEF PresetWorks, Fallback
<1>b. /\ holder = c /\ proxyJob = Null /\ ~stopping /\ ~tun
      /\ \A d \in StartCalls : pc[d] \in {"opening", "testing", "joining"} => d = c
      /\ \A d \in StartCalls : pc[d] # "connected"
      /\ \A y \in Coroutines : ~InTeardown(y)
      /\ \A k \in Loops : Active(k) => Trying(c, k)
  BY <1>0, Between
\* Whichever way j was selected.
<1>1. ASSUME NEW j \in Loops, NEW pcs \in [Coroutines -> StartPc \cup StopPc \cup LoopPc \cup TgPc],
             Connect(c, j, pcs) \/ TunnelFails(c, j, pcs),
             \A y \in Coroutines \ Loops : pcs[y] = pc[y],
             pcs[j] \in {"launched", "running"}, sock'[j] = "open", fd' = j,
             \A k \in Loops \ {j} : pcs[k] = pc[k] /\ ~Active(k),
             pc[j] \notin {"stopped", "cleaned"},
             pcs[j] = "running" => notExit' /\ runs'[j] = j
      PROVE  Turns' /\ Displayed'
  <2>0. \E l \in {"connected", "failing"} : pc' = [pcs EXCEPT ![c] = l] /\ (l = "connected" => tun')
    BY <1>1 DEF Connect, TunnelFails, Throw
  <2>1. /\ \A k \in Loops : pc'[k] = pcs[k]
        /\ \A y \in Coroutines \ (Loops \cup {c}) : pc'[y] = pc[y]
        /\ pc'[c] \in {"connected", "failing"} /\ (pc'[c] = "connected" => tun')
        /\ proxyJob' = j /\ stopping' = stopping /\ status' = status /\ appStatus' = appStatus
    BY <1>1, <1>t, <2>0 DEF Connect, TunnelFails
  <2>2. /\ \A d \in StartCalls : pc'[d] \notin {"testing", "joining"}
        /\ \A d \in StartCalls : pc'[d] = "connected" => tun'
    BY <1>b, <1>t, <2>1
  <2>3. \A y \in Coroutines : ~InTeardown(y)'
    BY <1>1, <1>b, <1>t, <2>1 DEF InTeardown
  <2>4. /\ InUse(j)' /\ \A k \in Loops \ {j} : ~Active(k)' /\ pc'[k] # "failed"
        /\ \A k \in Loops : /\ pc'[k] = "running" => notExit' /\ runs'[k] = k
                            /\ pc'[k] \notin {"check", "failed"}
    BY <1>1, <2>1 DEF InUse, Active, Turns
  <2>5. Turns'
    BY <2>1, <2>2, <2>3, <2>4 DEF Turns
  <2>6. status' = "Connected" /\ ~stopping' =>
          (tun' \/ \E x \in Coroutines : pc'[x] \in {"stopped", "cleaned"})
    <3> SUFFICES ASSUME status = "Connected"
                 PROVE  \E x \in Coroutines : pc'[x] \in {"stopped", "cleaned"}
      BY <2>1
    <3>1. PICK x \in Coroutines : pc[x] \in {"stopped", "cleaned"}
      BY <1>b DEF Displayed
    <3> QED
      BY <1>0, <1>1, <2>1, <3>1
  <2>7. Displayed'
    BY <1>t, <2>1, <2>2, <2>3, <2>6 DEF Displayed
  <2> QED
    BY <2>5, <2>7
<1>2. CASE PresetWorks(c)
  <2>1. /\ pc[c] = "testing" /\ UNCHANGED <<fd, sock, notExit, runs>>
        /\ Connect(c, target[c], pc) \/ TunnelFails(c, target[c], pc)
    BY <1>2 DEF PresetWorks, native
  <2>2. /\ target[c] \in Loops /\ sock[target[c]] = "open" /\ fd = target[c]
        /\ pc[target[c]] \in {"launched", "running"}
    BY <2>1 DEF Turns, InUse
  <2>3. \A k \in Loops : Active(k) => k = target[c]
    BY <1>b DEF Trying
  <2>4. pc[target[c]] = "running" => notExit /\ runs[target[c]] = target[c]
    BY <2>1, <2>2 DEF Turns
  <2> QED
    BY <1>1, <1>t, <2>1, <2>2, <2>3, <2>4 DEF Labelled
<1>3. CASE Fallback(c)
  <2>0. pc[c] = "opening" /\ \A k \in Loops : ~Active(k)
    BY <1>3, <1>b DEF Fallback, Trying
  <2>1. ASSUME NEW j \in Loops, OpenSocket(j), NEW launched,
               launched = [pc EXCEPT ![j] = "launched"],
               Connect(c, j, launched) \/ TunnelFails(c, j, launched)
        PROVE  Turns' /\ Displayed'
    <3>1. sock'[j] = "open" /\ fd' = j /\ pc[j] = "idle"
      <4>1. SocketsReset \in [Loops -> {"none", "open", "shut", "closed"}]
        BY ResetShuts DEF IInv, TypeOK, ListenerIsOwned, OpenIsOwned
      <4> QED
        BY <2>1, <4>1 DEF OpenSocket, Fresh
    <3>2. /\ launched[j] = "launched" /\ \A y \in Coroutines \ {j} : launched[y] = pc[y]
          /\ launched \in [Coroutines -> StartPc \cup StopPc \cup LoopPc \cup TgPc]
      BY <1>t, <2>1 DEF Labelled, LoopPc
    <3>3. /\ \A y \in Coroutines \ Loops : launched[y] = pc[y]
          /\ \A k \in Loops \ {j} : launched[k] = pc[k] /\ ~Active(k)
          /\ launched[j] \in {"launched", "running"} /\ launched[j] # "running"
          /\ pc[j] \notin {"stopped", "cleaned"}
      BY <1>t, <2>0, <3>1, <3>2
    <3>4. Connect(c, j, launched) \/ TunnelFails(c, j, launched)
      BY <2>1
    <3> QED
      BY <1>1, <3>1, <3>2, <3>3, <3>4
  <2>2. CASE Reset /\ Throw(c, pc) /\ UNCHANGED <<service, target>>
    <3>1. /\ pc' = [pc EXCEPT ![c] = "failing"]
          /\ UNCHANGED <<status, appStatus, proxyJob, tun, stopping, target>>
      BY <2>2 DEF Throw, service
    <3>2. pc'[c] = "failing" /\ \A y \in Coroutines \ {c} : pc'[y] = pc[y]
      BY <1>t, <3>1 DEF Labelled
    <3>3. /\ \A k \in Loops : ~Active(k)' /\ pc'[k] # "failed"
          /\ \A d \in StartCalls : pc'[d] \notin {"testing", "joining"}
          /\ \A y \in Coroutines : ~InTeardown(y)'
          /\ proxyJob' = Null
      BY <1>b, <1>t, <2>0, <3>1, <3>2 DEF Active, InTeardown, Turns
    <3>4. Turns'
      BY <3>3, NoTurn
    <3>5. /\ \A x \in Coroutines :
               pc[x] \in {"stopped", "cleaned"} => pc'[x] \in {"stopped", "cleaned"}
          /\ \A d \in StartCalls :
               /\ pc[d] \in {"connected", "failing", "cleanLock"} =>
                    pc'[d] \in {"connected", "failing", "cleanLock"}
               /\ pc'[d] = "connected" => pc[d] = "connected"
      BY <1>0, <1>t, <3>2
    <3>6. Displayed'
      BY <3>1, <3>3, <3>5, SameDisplay
    <3> QED
      BY <3>4, <3>6
  <2> QED
    BY <1>3, <2>1, <2>2 DEF Fallback
<1> QED
  BY <1>2, <1>3

LEMMA PromptStep ==
    ASSUME Prompt, IInv, OnceInTurn, PromptInv, ~JobLost', [Next]_vars
    PROVE  PromptInv'
<1> USE DEF PromptInv
<1>1. CASE UNCHANGED vars
  <2>1. /\ UNCHANGED <<proxyJob, stopping, target, fd, sock, runs, notExit>>
        /\ UNCHANGED <<pc, status, tun, appStatus>>
    BY <1>1 DEF vars, service, native, control
  <2>2. \A x \in Coroutines : InTeardown(x)' <=> InTeardown(x)
    BY <2>1 DEF InTeardown
  <2>3. Turns'
    BY <2>1, <2>2, SameTurns
  <2>4. \A c \in StartCalls, x \in Coroutines :
          pc[c] = "connected" /\ InTeardown(x)' => pc'[target'[x]] # "done"
    BY <2>1, <2>2 DEF Displayed
  <2>5. Displayed'
    BY <2>1, <2>4, SameDisplay
  <2> QED
    BY <2>3, <2>5
<1>t. /\ StartCalls \subseteq Coroutines /\ StopCalls \subseteq Coroutines
      /\ Loops \subseteq Coroutines
      /\ StartCalls \cap (StopCalls \cup Loops) = {}
  BY Kinds
<1>2. ASSUME NEW c \in StartCalls, OnStart(c) \/ StartStep(c) PROVE PromptInv'
  BY <1>t, <1>2, CallSteps, ShowSteps, TrySteps, SelectSteps, TeardownSteps DEF StartStep
<1>3. ASSUME NEW c \in StopCalls, OnStop(c) \/ StopStep(c) PROVE PromptInv'
  BY <1>t, <1>3, CallSteps, ShowSteps, TeardownSteps DEF StopStep
<1>4. ASSUME NEW j \in Loops, LoopStep(j) PROVE PromptInv'
  BY <1>t, <1>4, JobSteps, ShowSteps, TeardownSteps DEF LoopStep, StopStep
<1>5. ASSUME NEW g \in TgJobs, TgStep(g) PROVE PromptInv'
  BY <1>5, CallSteps
<1> QED
  BY <1>1, <1>2, <1>3, <1>4, <1>5 DEF Next

LEMMA PromptInvariance ==
    ASSUME Prompt
    PROVE  Spec /\ []~JobLost => [](IInv /\ OnceInTurn /\ PromptInv)
<1>1. Init => PromptInv
  <2> SUFFICES ASSUME Init PROVE PromptInv
    OBVIOUS
  <2>1. \A c \in Coroutines : pc[c] = "idle"
    BY DEF Init
  <2>2. StartCalls \subseteq Coroutines /\ Loops \subseteq Coroutines
    BY DEF Coroutines
  <2>3. Turns
    BY <2>1, <2>2 DEF Init, Turns, Active, InTeardown
  <2>4. Displayed
    BY <2>1, <2>2 DEF Init, Displayed
  <2> QED
    BY <2>3, <2>4 DEF PromptInv
<1>2. IInv /\ OnceInTurn /\ PromptInv /\ ~JobLost' /\ [Next]_vars => PromptInv'
  BY PromptStep
<1> QED
  BY <1>1, <1>2, Invariance, MainIsAccounted, PTL DEF Spec

-----------------------------------------------------------------------------
(* What the prompt dispatcher guarantees, as long as no status clears the   *)
(* reference to a loop job in use                                          *)

\* A connection that is shown, with Main between two turns, has its tunnel, and the
\* loop of the selected preset serves it: no fallback, retry or late loop separates
\* the three (ByeDpiVpnService.kt:105-127, 178-193).
THEOREM ConnectionIsServed ==
    ASSUME Prompt PROVE Spec /\ []~JobLost => []ConnectedIsServed
<1>1. IInv /\ OnceInTurn /\ PromptInv => ConnectedIsServed
  <2> SUFFICES ASSUME IInv, OnceInTurn, PromptInv,
                      status = "Connected", turn = <<>>, ~stopping
               PROVE  /\ tun /\ proxyJob # Null
                      /\ fd = proxyJob /\ sock[fd] = "open"
                      /\ pc[proxyJob] = "running" => runs[proxyJob] = fd
    BY DEF ConnectedIsServed
  <2>1. \A x \in Coroutines : pc[x] \notin {"stopped", "cleaned"}
    BY NobodyRuns DEF RunPc
  <2>2. tun /\ proxyJob # Null
    BY <2>1 DEF PromptInv, Displayed
  <2>3. proxyJob \in Loops /\ InUse(proxyJob)
    BY <2>2, Kinds DEF PromptInv, Turns
  <2> QED
    BY <2>2, <2>3 DEF InUse, PromptInv, Turns
<1> QED
  BY <1>1, PromptInvariance, PTL

\* No two native event loops run at once, so that NOT_EXIT, which every loop
\* clears and every start of a loop sets, is the flag of one loop only: a loop
\* that was shut down is never kept alive by the next one.
THEOREM LoopsTakeTurns ==
    ASSUME Prompt PROVE Spec /\ []~JobLost => []OneLoop
<1>1. IInv /\ PromptInv => OneLoop
  BY TurnsAlone DEF PromptInv
<1> QED
  BY <1>1, PromptInvariance, PTL

\* With the mutex free and Main between two turns the service is up as a whole or
\* down as a whole, and down when the interface shows Halted, whichever calls raced.
THEOREM HaltedMeansDown ==
    ASSUME Prompt PROVE Spec => HaltedIsDown
<1>1. IInv /\ Accounted /\ OnceInTurn /\ PromptInv /\ ~JobLost => WholeOrHalted
  <2> SUFFICES ASSUME IInv, Accounted, OnceInTurn, PromptInv, ~JobLost,
                      holder = Null, turn = <<>>
               PROVE  /\ tun <=> \E s \in Loops : sock[s] = "open"
                      /\ tun => \/ pc[fd] = "launched"
                                \/ pc[fd] = "running" /\ runs[fd] = fd
                      /\ appStatus = "Halted" => ~tun
    BY DEF WholeOrHalted
  <2>t. /\ StartCalls \subseteq Coroutines /\ Null \notin Coroutines /\ Null \notin Loops
        /\ proxyJob \in Loops \cup {Null}
    BY Kinds
  <2>1. \A x \in Coroutines : ~Critical(x)
    BY <2>t DEF IInv, TeardownIsExclusive
  <2>2. ~stopping /\ \A c \in StartCalls : pc[c] # "testing"
    BY <2>t, <2>1 DEF IInv, TeardownIsExclusive, Critical
  <2>3. \A x \in Coroutines : pc[x] \notin RunPc
    BY NobodyRuns
  <2>4. \A c \in StartCalls : pc[c] # "cleanLock"
    BY <2>t DEF Accounted, Section, Waits, Once, LockPc
  <2>5. proxyJob # Null => status = "Connected" /\ tun /\ InUse(proxyJob)
    <3> SUFFICES ASSUME proxyJob # Null
                 PROVE  status = "Connected" /\ tun /\ InUse(proxyJob)
      OBVIOUS
    <3>1. status = "Connected"
      BY <2>t, <2>2, <2>3, <2>4 DEF PromptInv, Displayed, RunPc
    <3> QED
      BY <2>2, <2>3, <3>1 DEF PromptInv, Displayed, Turns, RunPc
  <2>6. (\E s \in Loops : sock[s] = "open") => proxyJob # Null
    BY <2>2 DEF JobLost
  <2>7. tun => proxyJob # Null
    BY DEF PromptInv, Displayed
  <2> QED
    BY <2>t, <2>5, <2>6, <2>7 DEF InUse, PromptInv, Turns, Displayed
<1> QED
  BY <1>1, PromptInvariance, MutexIsAccounted, PTL DEF HaltedIsDown

\* The body of KeepsItsSocket.
Keeps(j) ==
    pc[j] = "launched" /\ fd = j /\ fd' # j =>
      \/ \E c \in Coroutines : InTeardown(c)' /\ target'[c] = j
      \/ JobLost

\* Only the teardown that then waits for a loop job takes the descriptor away from
\* it before it reaches runLoop(); there the job throws, and no other call of the
\* service makes it throw (ByeDpiVpnService.kt:157-163, 259-268; ByeDpiProxy.kt:16-21).
THEOREM SocketsAreKept ==
    ASSUME Prompt PROVE Spec /\ []~JobLost => KeepsItsSocket
<1>1. IInv /\ PromptInv /\ [Next]_vars => \A j \in Loops : Keeps(j)
  <2> SUFFICES ASSUME IInv, Turns, Displayed, [Next]_vars, NEW j \in Loops,
                      pc[j] = "launched", fd = j, fd' # j
               PROVE  \E c \in Coroutines : InTeardown(c)' /\ target'[c] = j
    BY DEF PromptInv, Keeps
  <2>t. /\ Labelled /\ StartCalls \subseteq Coroutines /\ StopCalls \subseteq Coroutines
        /\ Loops \subseteq Coroutines /\ Null \notin Loops
        /\ target \in [Coroutines -> Loops \cup {Null}]
    BY Kinds
  <2>a. Active(j) /\ ~LoopsScheduled
    BY DEF Active, LoopsScheduled, Prompt
  <2>1. ASSUME NEW x \in Coroutines, NEW l \in {"stopJoin", "cleanJoin"}, NEW m,
               pc[x] \in {"stopLock", "cleanLock"}, TearDown(x, l, m)
        PROVE  InTeardown(x)' /\ target'[x] = j
    <3>1. holder = x
      BY <2>1 DEF TearDown
    <3>2. /\ \A y \in Coroutines : ~InTeardown(y)
          /\ \A c \in StartCalls : pc[c] \notin {"testing", "joining"}
      BY <2>1, <2>t, <3>1, Owner DEF Critical, InTeardown
    <3>3. proxyJob = j
      BY <2>t, <2>a, <3>2 DEF Turns, Trying, Awaits
    <3>4. target' = [target EXCEPT ![x] = j] /\ pc' = [pc EXCEPT ![x] = l]
      BY <2>1, <2>t, <3>3 DEF TearDown, Goto
    <3> QED
      BY <2>t, <2>1, <3>4 DEF InTeardown, Labelled
  <2>2. ASSUME NEW c \in StartCalls, OnStart(c) \/ StartStep(c)
        PROVE  CleanUp(c)
    <3>1. CASE TryPreset(c) \/ Fallback(c) \/ NextPreset(c)
      <4>1. Trying(c, j)
        BY <2>a, <3>1, Between DEF TryPreset, Fallback, NextPreset
      <4> QED
        BY <3>1, <4>1 DEF Trying, TryPreset, Fallback, NextPreset, JoinTimesOut, Prompt
    <3>2. ~PresetWorks(c) /\ ~PresetFails(c)
      BY <2>a DEF PresetWorks, PresetFails
    <3>3. ~OnStart(c) /\ ~EnterStart(c) /\ ~ShowConnected(c) /\ ~Failing(c)
          /\ ~CleanJoined(c) /\ ~ShowFailed(c)
      BY DEF OnStart, EnterStart, ShowConnected, Failing, CleanJoined, TearDownJoined,
             ShowFailed, native
    <3> QED
      BY <2>2, <3>1, <3>2, <3>3 DEF StartStep
  <2>3. ASSUME NEW x \in Coroutines, StopStep(x) PROVE Stop(x)
    BY <2>3 DEF StopStep, StopJoined, TearDownJoined, ShowDisconnected, native
  <2>4. ASSUME NEW c \in StopCalls, OnStop(c) PROVE FALSE
    BY <2>4 DEF OnStop, native
  <2>5. ASSUME NEW k \in Loops, LoopStep(k) PROVE StopStep(k)
    BY <2>5 DEF LoopStep, RunLoop, Listener, CheckExit, LoopFailed, LoopEnded, native
  <2>6. ASSUME NEW g \in TgJobs, TgStep(g) PROVE FALSE
    BY <2>6 DEF TgStep, TgLock, TgStart, native
  <2>7. \E x \in Coroutines : Stop(x) \/ CleanUp(x)
    BY <2>t, <2>2, <2>3, <2>4, <2>5, <2>6 DEF Next, vars, native
  <2> QED
    BY <2>1, <2>7 DEF Stop, CleanUp
<1>2. KeepsItsSocket <=> [][\A j \in Loops : Keeps(j)]_vars
  BY DEF KeepsItsSocket, Keeps
<1> QED
  BY <1>1, <1>2, PromptInvariance, PTL DEF Spec

\* What a coroutine waits for, at each place where it waits for another one.
Blocked(x) ==
    \/ pc[x] \in {"idle", "done"}
    \/ pc[x] \in LockPc /\ holder # x
    \/ pc[x] \in RunPc \cup {"startLock", "cleanLock", "stopLock"} /\ ~OnMain(x)
    \/ pc[x] = "testing" /\ ~(turn = <<>> /\ LoopsScheduled)
    \/ pc[x] = "ended" /\ turn # <<>>
    \/ InTeardown(x) /\ ~(Joined(x) /\ OnMain(x))
    \/ pc[x] = "joining" /\ ~(pc[target[x]] = "done" /\ OnMain(x))
                         /\ ~(pc[target[x]] = "stopLock" /\ turn = <<>>)
    \/ pc[x] = "running" /\ sock[runs[x]] = "open"

\* Every call that came is answered, and a loop that is left serves its socket.
AtRest == \A x \in Coroutines : pc[x] \in {"idle", "done"} \/ (x \in Loops /\ InUse(x))

\* No name is left for a Telegram coroutine: a bound of the model.
Spent == \A g \in TgJobs : pc[g] # "idle"

SomebodyGoes == crashed \/ Spent \/ AtRest \/ \E x \in Coroutines : ~Blocked(x)

\* start(), stop(), the clean-up and the loop jobs never wait for each other in a
\* circle, in particular not for a job whose handler asks for the mutex that the
\* one that joins it holds, nor for one that Main is to run behind the one that
\* waits (ByeDpiVpnService.kt:162, 262, 300, 443). An accept4 error, which Prompt
\* excludes, makes stop() join the job that it runs in.
THEOREM NobodyIsStuck ==
    ASSUME Prompt PROVE Spec /\ []~JobLost => []SomebodyGoes
<1>1. IInv /\ Accounted /\ OnceInTurn /\ PromptInv => SomebodyGoes
  <2> SUFFICES ASSUME IInv, Accounted, OnceInTurn, PromptInv,
                      \A x \in Coroutines : Blocked(x)
               PROVE  AtRest
    BY DEF SomebodyGoes
  <2>1. /\ Labelled /\ StartCalls \subseteq Coroutines /\ Loops \subseteq Coroutines
        /\ Null \notin Coroutines /\ holder \in Coroutines \cup {Null}
        /\ turn \in Seq(Coroutines)
    BY Kinds DEF IInv, TypeOK, LockTypes, MainTypes
  <2>0. turn = <<>>
    <3> SUFFICES ASSUME turn # <<>> PROVE FALSE
      OBVIOUS
    <3>1. PICK x \in Coroutines : x = Head(turn) /\ turn[1] = x /\ 1 \in 1 .. Len(turn)
      BY <2>1
    <3>2. OnMain(x) /\ Called(x)
      BY <3>1 DEF OnMain, OnceInTurn, InTurn
    <3>3. CASE pc[x] \in RunPc
      BY <3>2, <3>3 DEF Blocked, RunPc, LockPc, InTeardown
    <3>4. CASE pc[x] \in {"startLock", "cleanLock", "stopLock"} /\ holder = x
      BY <3>2, <3>4 DEF Blocked, RunPc, LockPc, InTeardown
    <3>5. CASE pc[x] \in {"joining", "cleanJoin", "stopJoin"} /\ pc[target[x]] = "done"
      BY <3>2, <3>5 DEF Blocked, RunPc, LockPc, InTeardown, Joined
    <3> QED
      BY <3>2, <3>3, <3>4, <3>5 DEF Called
  <2>a. \A x \in Coroutines : OnMain(x)
    BY <2>0 DEF OnMain
  <2>2. \A x \in Coroutines : pc[x] \notin {"launched", "check", "ended"} \cup RunPc
    BY <2>0, <2>a DEF Blocked, LockPc, InTeardown, RunPc
  <2>3. LoopsScheduled
    BY <2>1, <2>2 DEF LoopsScheduled
  <2>4. \A j \in Loops : ~Leaving(j)
    <3> SUFFICES ASSUME NEW j \in Loops, Leaving(j) PROVE FALSE
      OBVIOUS
    <3>1. pc[j] = "running" /\ sock[j] = "shut" /\ runs[j] = j
      BY <2>1, <2>2 DEF Leaving, PromptInv, Turns
    <3> QED
      BY <2>1, <3>1 DEF Blocked, LockPc, InTeardown, RunPc
  <2>5. \A x \in Coroutines : ~InTeardown(x)
    BY <2>a, <2>4 DEF PromptInv, Turns, Blocked, LockPc, InTeardown, Joined, RunPc
  <2>6. \A c \in StartCalls : pc[c] # "joining"
    BY <2>0, <2>1, <2>4 DEF PromptInv, Turns, Blocked, LockPc, InTeardown, RunPc
  <2>7. \A x \in Coroutines : pc[x] # "testing"
    BY <2>0, <2>3 DEF Blocked, LockPc, InTeardown, RunPc
  <2>8. \A x \in Coroutines : pc[x] = "joining" => x \in StartCalls
    BY DEF IInv, TypeOK, ControlTypes, PcTypes, Coroutines, StopPc, LoopPc, TgPc
  <2>9. \A x \in Coroutines : ~Critical(x)
    BY <2>2, <2>5, <2>6, <2>7, <2>8 DEF Critical, RunPc
  <2>10. holder = Null
    <3>1. ASSUME holder \in Coroutines PROVE FALSE
      <4>1. pc[holder] \in LockPc
        BY <2>9, <3>1 DEF Accounted, Section, Waits
      <4> QED
        BY <2>a, <2>5, <3>1, <4>1 DEF Blocked, LockPc, RunPc
    <3> QED
      BY <2>1, <3>1
  <2>11. \A x \in Coroutines : pc[x] \notin LockPc
    BY <2>1, <2>10 DEF Accounted, Section, Waits, Once
  <2>12. \A x \in Coroutines : pc[x] = "running" => x \in Loops
    BY DEF IInv, TypeOK, ControlTypes, PcTypes, Coroutines, StartPc, StopPc, TgPc
  <2>13. ASSUME NEW x \in Coroutines, pc[x] \notin {"idle", "done"}
         PROVE  x \in Loops /\ InUse(x)
    <3>1. pc[x] = "running" /\ x \in Loops /\ sock[runs[x]] = "open"
      BY <2>a, <2>2, <2>5, <2>6, <2>7, <2>8, <2>11, <2>12, <2>13
         DEF Blocked, LockPc
    <3>2. runs[x] = x
      BY <3>1 DEF PromptInv, Turns
    <3> QED
      BY <3>1, <3>2 DEF InUse, IInv, ListenerIsOwned
  <2> QED
    BY <2>13 DEF AtRest
<1> QED
  BY <1>1, PromptInvariance, MutexIsAccounted, PTL

-----------------------------------------------------------------------------
(* Without probing                                                         *)

\* No loop ends but for a teardown, so that none asks for a stop() of its own.
Unprobed ==
    /\ \A c \in StartCalls : pc[c] # "joining"
    /\ \A j \in Loops : pc[j] \notin {"stopLock", "stopJoin", "stopped"}

LEMMA EndsWithTeardown ==
    ASSUME IInv, PromptInv, Unprobed, NEW j \in Loops, pc[j] \in {"check", "ended"}
    PROVE  stopping
<1>1. ASSUME NEW c \in StartCalls, Trying(c, j) PROVE FALSE
  BY <1>1 DEF Trying, Unprobed, PromptInv, Turns, InUse
<1>2. proxyJob = j \/ \E x \in Coroutines : Awaits(x, j)
  BY <1>1 DEF PromptInv, Turns, Active
<1> QED
  BY <1>2, Kinds DEF PromptInv, Turns, InUse, Awaits, IInv, TeardownIsExclusive

LEMMA UnprobedStep ==
    ASSUME ~Cellular, IInv, PromptInv, Unprobed, [Next]_vars
    PROVE  Unprobed'
<1>t. /\ Labelled /\ StartCalls \subseteq Coroutines /\ Loops \subseteq Coroutines
      /\ TgJobs \subseteq Coroutines
      /\ StartCalls \cap (StopCalls \cup Loops \cup TgJobs) = {}
      /\ Loops \cap (StopCalls \cup TgJobs) = {}
  BY Kinds
<1>1. ASSUME pc' = pc PROVE Unprobed'
  BY <1>1 DEF Unprobed
<1>2. ASSUME NEW c \in StartCalls, OnStart(c) \/ StartStep(c) PROVE Unprobed'
  <2>1. ASSUME NEW l, pc' = [pc EXCEPT ![c] = l], l # "joining"
        PROVE  Unprobed'
    BY <1>t, <2>1 DEF Unprobed, Labelled
  <2>2. CASE OnStart(c) \/ EnterStart(c) \/ NextPreset(c) \/ Failing(c)
    <3>1. \E l \in {"done", "startLock", "opening", "failing", "cleanLock"} :
            pc' = [pc EXCEPT ![c] = l]
      BY <2>2 DEF OnStart, EnterStart, NextPreset, Failing, Throw, Goto
    <3> QED
      BY <2>1, <3>1
  <2>4. CASE TryPreset(c)
    BY <1>t, <2>4 DEF TryPreset, Unprobed, Labelled
  <2>5. ASSUME NEW j \in Loops \cup {Null}, NEW pcs, pcs \in {pc, [pc EXCEPT ![j] = "launched"]},
               Connect(c, j, pcs) \/ TunnelFails(c, j, pcs)
        PROVE  Unprobed'
    BY <1>t, <2>5 DEF Connect, TunnelFails, Throw, Unprobed, Labelled
  <2>6. CASE PresetWorks(c)
    BY <2>5, <2>6, Kinds DEF PresetWorks
  <2>7. CASE Fallback(c)
    BY <2>1, <2>5, <2>7 DEF Fallback, Throw
  <2>8. CASE ShowConnected(c)
    BY <1>t, <2>8 DEF ShowConnected, Unprobed, Labelled
  <2>9. CASE CleanUp(c) \/ CleanJoined(c) \/ ShowFailed(c)
    <3>1. \E l \in {"cleanJoin", "cleaned", "done"} : pc' = [pc EXCEPT ![c] = l]
      BY <2>9 DEF CleanUp, CleanJoined, ShowFailed, Report, TearDown, TearDownJoined,
                  TornDown, Goto
    <3> QED
      BY <2>1, <3>1
  <2> QED
    BY <1>2, <2>2, <2>4, <2>6, <2>7, <2>8, <2>9 DEF StartStep, PresetFails
<1>3. ASSUME NEW c \in StopCalls, OnStop(c) \/ StopStep(c) PROVE Unprobed'
  <2>1. \E l \in {"stopLock", "stopJoin", "stopped", "done"} : pc' = [pc EXCEPT ![c] = l]
    BY <1>3 DEF OnStop, StopStep, Stop, StopJoined, ShowDisconnected, Report, TearDown,
                TearDownJoined, TornDown, Goto
  <2> QED
    BY <1>t, <2>1, Kinds DEF Unprobed, Labelled
<1>4. ASSUME NEW j \in Loops, LoopStep(j) PROVE Unprobed'
  <2>1. ASSUME NEW l \in {"running", "failed", "check", "ended", "done"}, pc' = [pc EXCEPT ![j] = l]
        PROVE  Unprobed'
    BY <1>t, <2>1 DEF Unprobed, Labelled
  <2>2. CASE RunLoop(j)
    BY <1>1, <2>1, <2>2 DEF RunLoop, Goto
  <2>3. CASE Listener(j) \/ CheckExit(j) \/ LoopFailed(j)
    BY <2>1, <2>3 DEF Listener, CheckExit, LoopFailed, Goto
  <2>4. CASE LoopEnded(j)
    <3>1. stopping
      BY <2>4, EndsWithTeardown DEF LoopEnded
    <3> QED
      BY <2>1, <2>4, <3>1 DEF LoopEnded, Goto
  <2>5. ~StopStep(j)
    BY DEF StopStep, Stop, StopJoined, ShowDisconnected, Unprobed
  <2> QED
    BY <1>4, <2>2, <2>3, <2>4, <2>5 DEF LoopStep
<1>5. ASSUME NEW g \in TgJobs, TgStep(g) PROVE Unprobed'
  <2>1. \E l \in {"tgLock", "done"} : pc' = [pc EXCEPT ![g] = l]
    BY <1>5 DEF TgStep, TgLock, TgStart, Goto
  <2> QED
    BY <1>t, <2>1 DEF Unprobed, Labelled
<1> QED
  BY <1>1, <1>2, <1>3, <1>4, <1>5 DEF Next, vars, control

\* The body of ConnectedUntilAsked.
AskedFor ==
    status = "Connected" /\ status' # "Connected" =>
      \/ \E c \in StopCalls : pc[c] # "done" /\ pc'[c] = "done"
      \/ \E c \in StartCalls : pc[c] # "done" /\ pc'[c] = "done"

\* Where presets are not probed a connection ends only with a stop() that was
\* asked for or with another start() that cleans up, for any number of both: the
\* probe of the LTE path is what breaks it (ByeDpiVpnService.kt:262, 299-301).
THEOREM ConnectionLasts ==
    ASSUME Prompt, ~Cellular PROVE Spec /\ []~JobLost => ConnectedUntilAsked
<1>1. Init => Unprobed
  BY Kinds, InitTypes DEF Init, Unprobed, Coroutines
<1>2. IInv /\ PromptInv /\ Unprobed /\ [Next]_vars => Unprobed'
  BY UnprobedStep
<1>3. IInv /\ PromptInv /\ Unprobed /\ [Next]_vars => AskedFor
  <2> SUFFICES ASSUME IInv, PromptInv, Unprobed, [Next]_vars,
                      status = "Connected", status' # "Connected"
               PROVE  \/ \E c \in StopCalls : pc[c] # "done" /\ pc'[c] = "done"
                      \/ \E c \in StartCalls : pc[c] # "done" /\ pc'[c] = "done"
    BY DEF AskedFor
  <2>1. ASSUME NEW x \in Coroutines, NEW new, Report(x, new) PROVE pc'[x] = "done"
    BY <2>1, Kinds DEF Report, Goto, Labelled
  <2>2. ASSUME NEW c \in StartCalls, OnStart(c) \/ StartStep(c)
        PROVE  pc[c] # "done" /\ pc'[c] = "done"
    <3>1. ShowFailed(c)
      BY <2>2 DEF OnStart, StartStep, EnterStart, TryPreset, PresetWorks, PresetFails,
                  NextPreset, Fallback, Connect, TunnelFails, ShowConnected, UpdateStatus,
                  Failing, CleanUp, CleanJoined, TearDown, TearDownJoined, service
    <3> QED
      BY <2>1, <3>1, Kinds DEF ShowFailed
  <2>3. ASSUME NEW c \in StopCalls, OnStop(c) \/ StopStep(c)
        PROVE  pc[c] # "done" /\ pc'[c] = "done"
    <3>1. ShowDisconnected(c)
      BY <2>3 DEF OnStop, StopStep, Stop, StopJoined, TearDown, TearDownJoined, service
    <3> QED
      BY <2>1, <3>1, Kinds DEF ShowDisconnected
  <2>6. ASSUME NEW j \in Loops, LoopStep(j) PROVE FALSE
    <3>1. pc[j] \notin {"failed", "stopLock", "stopJoin", "stopped"}
      BY DEF Unprobed, PromptInv, Turns
    <3>2. RunLoop(j) \/ Listener(j) \/ CheckExit(j) \/ LoopEnded(j)
      BY <2>6, <3>1 DEF LoopStep, LoopFailed, StopStep, Stop, StopJoined, ShowDisconnected
    <3>3. UNCHANGED service
      BY <3>2 DEF RunLoop, Listener, CheckExit, LoopEnded
    <3> QED
      BY <3>3 DEF service
  <2>7. ASSUME NEW g \in TgJobs, TgStep(g) PROVE FALSE
    BY <2>7 DEF TgStep, TgLock, TgStart, service
  <2> QED
    BY <2>2, <2>3, <2>6, <2>7 DEF Next, vars, service
<1>4. ConnectedUntilAsked <=> [][AskedFor]_vars
  BY DEF ConnectedUntilAsked, AskedFor
<1> QED
  BY <1>1, <1>2, <1>3, <1>4, PromptInvariance, PTL DEF Spec

=============================================================================
