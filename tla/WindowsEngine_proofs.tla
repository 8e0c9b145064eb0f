------------------------ MODULE WindowsEngine_proofs ------------------------
(* Proofs about WindowsEngine, for any presets, threads and number of tests. *)
EXTENDS WindowsEngine, TLAPS

\* start() is called with a preset, so what is launched is one.
Control ==
    /\ CtlTypes
    /\ \A t \in Threads : pc[t] = "launch" => arg[t] \in Presets

\* A benchmark that is in a test has one left to count.
Counting == \A w \in Tunes : cont[w] \in {"gap", "trial"} => left[w] # 0

\* When the main loop has ended, its thread does nothing any more.
Settled ==
    app \in {"ended", "exited"} => pc["ui"] = "idle" /\ ~reg /\ byedpi # "on"

IInv == TypeOK /\ Control /\ Counting /\ SysProxyServed /\ Settled

\* The four ways in which a thread moves.
LEMMA Moves ==
    ASSUME Control, NEW t \in Threads, NEW l \in Labels, NEW c \in Conts,
           NEW p \in Presets \cup {Null},
           \/ Goto(t, l) /\ (l = "launch" => arg[t] \in Presets)
           \/ Ends(t, l) /\ l # "launch"
           \/ Call(t, p, c)
           \/ Skip(t, c)
    PROVE  Control'
<1>1. CASE Goto(t, l) /\ (l = "launch" => arg[t] \in Presets)
  BY <1>1 DEF Control, CtlTypes, Goto
<1>2. CASE Ends(t, l) /\ l # "launch"
  BY <1>2 DEF Control, CtlTypes, Ends, Conts
<1>3. CASE Call(t, p, c)
  BY <1>3 DEF Control, CtlTypes, Call, Labels
<1>4. CASE Skip(t, c)
  BY <1>4 DEF Control, CtlTypes, Skip, Labels
<1>5. QED BY <1>1, <1>2, <1>3, <1>4

\* The members of the sets of labels and continuations, for the moves.
LEMMA Ending ==
    ASSUME Control, NEW t \in Threads, NEW l \in Labels \ {"launch"}, Ends(t, l)
    PROVE  Control'
BY Moves DEF Conts

LEMMA Calling ==
    ASSUME Control, NEW t \in Threads, NEW c \in Conts, NEW p \in Presets \cup {Null},
           Call(t, p, c) \/ Skip(t, c)
    PROVE  Control'
BY Moves DEF Labels

LEMMA Staying == Control /\ UNCHANGED ctl => Control'
BY DEF Control, CtlTypes, ctl

\* start() and stop() of winws, in any thread.
LEMMA WinWsTypes ==
    ASSUME TypeOK, Control, NEW t \in Threads, WinWs(t)
    PROVE  TypeOK' /\ Control'
<1>a. CtlTypes /\ NetTypes /\ ZapTypes /\ WinTypes /\ TuneTypes /\ died \in BOOLEAN
  BY DEF TypeOK
<1>b. {"terminate", "forget", "kill", "launch", "wait", "ok", "raised"} \subseteq Labels
  BY DEF Labels
<1>d. arg[t] \in Presets \cup {Null} /\ (pc[t] = "launch" => arg[t] \in Presets)
  BY <1>a DEF CtlTypes, Control
<1>1. UNCHANGED <<net, win, tune, died>>
  BY DEF WinWs, StopCheck, Terminate, Forget, Kill, Launch, Wait, At
<1>2. NetTypes' /\ WinTypes' /\ TuneTypes' /\ died' \in BOOLEAN
  BY <1>a, <1>1 DEF net, win, tune, NetTypes, WinTypes, TuneTypes
<1>3. Control'
  <2>1. \E l \in {"terminate", "forget", "kill", "launch", "wait", "ok", "raised"} :
           Goto(t, l) /\ (l = "launch" => arg[t] # Null)
    BY DEF WinWs, StopCheck, Terminate, Forget, Kill, Launch, Wait
  <2>2. QED BY <2>1, <1>b, <1>d, Moves DEF Conts
<1>4. ZapTypes'
  <2>1. launcher' \in {launcher, Null, arg[t]}
    BY DEF WinWs, StopCheck, Terminate, Forget, Kill, Launch, Wait, zap
  <2>2. CASE pc[t] = "launch"
    <3>1. winws' \subseteq winws \cup {arg[t]}
      BY <2>2 DEF WinWs, StopCheck, Terminate, Forget, Kill, Launch, Wait, zap, At
    <3>2. QED BY <2>1, <2>2, <3>1, <1>a, <1>d DEF ZapTypes
  <2>3. CASE pc[t] # "launch"
    <3>1. winws' \subseteq winws
      BY <2>3 DEF WinWs, StopCheck, Terminate, Forget, Kill, Launch, Wait, zap, At
    <3>2. QED BY <2>1, <3>1, <1>a, <1>d DEF ZapTypes
  <2>4. QED BY <2>2, <2>3
<1>5. QED BY <1>2, <1>3, <1>4 DEF TypeOK, Control

\* The parts of the state that an action of the window leaves alone.
LEMMA Same ==
    ASSUME TypeOK
    PROVE  /\ UNCHANGED net => NetTypes'
           /\ UNCHANGED zap => ZapTypes'
           /\ UNCHANGED tune => TuneTypes'
           /\ UNCHANGED died => died' \in BOOLEAN
BY DEF TypeOK, net, zap, tune, NetTypes, ZapTypes, TuneTypes

LEMMA RefreshTypes == Refresh => shown' \in BOOLEAN
BY DEF Refresh, Active

\* What the engine does to ByeDPI and to the system setting.
LEMMA ByeDpiTypes ==
    ASSUME TypeOK, StartByeDpi \/ StopByeDpi
    PROVE  byedpi' \in {"off", "on", "dead"} /\ reg' \in BOOLEAN
BY DEF TypeOK, NetTypes, WinTypes, Components, StartByeDpi, StopByeDpi

\* _start_engine(), which the main button and the automatic start call.
LEMMA StartEngineTypes ==
    ASSUME TypeOK, Control, StartEngine
    PROVE  Control' /\ NetTypes' /\ shown' \in BOOLEAN
<1>0. {"idle"} \subseteq Labels \ {"launch"} /\ {"startAll"} \subseteq Conts /\ "ui" \in Threads
  BY DEF Labels, Conts, Threads
<1>1. CASE Ends("ui", "idle") /\ UNCHANGED net /\ Refresh
  BY <1>0, <1>1, Ending, Same, RefreshTypes
<1>2. CASE /\ IF sw["byedpi"] THEN StartByeDpi ELSE UNCHANGED <<byedpi, reg>>
           /\ IF sw["discord"] /\ winws = {}
                THEN \E q \in Presets : Call("ui", q, "startAll")
                ELSE Skip("ui", "startAll")
           /\ UNCHANGED <<tgws, shown>>
  <2>1. NetTypes'
    BY <1>2, ByeDpiTypes DEF TypeOK, NetTypes
  <2>2. Control'
    BY <1>0, <1>2, Calling
  <2>3. QED BY <1>2, <2>1, <2>2 DEF TypeOK, WinTypes
<1>3. QED BY <1>1, <1>2 DEF StartEngine

\* The events that leave every thread where it is.
LEMMA PlainTypes ==
    ASSUME TypeOK, Control,
           \/ \E c \in Components : SwitchOn(c) \/ SwitchOff(c)
           \/ OpenTg \/ ProcessEnds \/ Exit
    PROVE  TypeOK' /\ Control'
<1>1. ASSUME NEW c \in Components, SwitchOn(c)
      PROVE  TypeOK' /\ Control'
  <2>1. NetTypes'
    BY <1>1, ByeDpiTypes DEF SwitchOn, TypeOK, NetTypes, net, Components
  <2>2. WinTypes'
    BY <1>1, RefreshTypes DEF SwitchOn, Set, TypeOK, WinTypes
  <2>3. QED BY <1>1, <2>1, <2>2, Same, Staying DEF SwitchOn, TypeOK, Control
<1>2. ASSUME NEW c \in Components, SwitchOff(c)
      PROVE  TypeOK' /\ Control'
  <2>1. NetTypes'
    BY <1>2, ByeDpiTypes DEF SwitchOff, TypeOK, NetTypes, Components
  <2>2. WinTypes'
    BY <1>2, RefreshTypes DEF SwitchOff, Set, TypeOK, WinTypes, Components
  <2>3. QED BY <1>2, <2>1, <2>2, Same, Staying DEF SwitchOff, TypeOK, Control
<1>3. CASE OpenTg
  <2>1. NetTypes' /\ WinTypes'
    BY <1>3, RefreshTypes DEF OpenTg, Set, TypeOK, NetTypes, WinTypes
  <2>2. QED BY <1>3, <2>1, Same, Staying DEF OpenTg, TypeOK, Control
<1>4. CASE ProcessEnds
  <2>1. died' = TRUE /\ UNCHANGED <<reg, launcher, ctl, win, tune>>
    BY <1>4 DEF ProcessEnds
  <2>2. /\ byedpi' \in {byedpi, "dead"} /\ tgws' \in {tgws, FALSE}
        /\ winws' \subseteq winws
    BY <1>4 DEF ProcessEnds
  <2>3. NetTypes' /\ ZapTypes'
    BY <2>1, <2>2 DEF TypeOK, NetTypes, ZapTypes
  <2>4. WinTypes' /\ TuneTypes'
    BY <2>1 DEF TypeOK, WinTypes, TuneTypes, win, tune
  <2>5. QED BY <2>1, <2>3, <2>4, Staying DEF TypeOK, Control
<1>5. CASE Exit
  BY <1>5, Same, Staying DEF Exit, TypeOK, Control, WinTypes
<1>6. QED BY <1>1, <1>2, <1>3, <1>4, <1>5

\* The handlers of the main window that call winws or come back from it.
LEMMA WindowTypes ==
    ASSUME TypeOK, Control,
           \/ SwitchDiscord \/ DiscordSwitched \/ StartRest \/ StartFails \/ Toggle
           \/ StopRest \/ AutoEnable \/ AutoStart \/ Quit \/ QuitRest
    PROVE  TypeOK' /\ Control'
<1>0. /\ "idle" \in Labels \ {"launch"} /\ "ui" \in Threads
      /\ {"startAll", "stopAll", "auto", "quit", "switchOn", "switchOff"} \subseteq Conts
  BY DEF Labels, Conts, Threads
<1>1. CASE SwitchDiscord
  <2>1. Control'
    BY <1>0, <1>1, Calling DEF SwitchDiscord
  <2>2. QED BY <1>1, <2>1, Same DEF SwitchDiscord, Set, TypeOK, Control, WinTypes
<1>2. CASE DiscordSwitched
  <2>1. Control'
    BY <1>0, <1>2, Ending DEF DiscordSwitched, Returned, Raised
  <2>2. sw' \in [Components -> BOOLEAN]
    BY <1>2 DEF DiscordSwitched, Set, TypeOK, WinTypes
  <2>3. QED
    BY <1>2, <2>1, <2>2, Same, RefreshTypes DEF DiscordSwitched, TypeOK, Control, WinTypes
<1>3. CASE StartRest
  <2>1. Control'
    BY <1>0, <1>3, Ending DEF StartRest, Returned
  <2>2. NetTypes'
    BY <1>3 DEF StartRest, TypeOK, NetTypes, WinTypes, Components, net
  <2>3. QED
    BY <1>3, <2>1, <2>2, Same, RefreshTypes DEF StartRest, TypeOK, Control, WinTypes
<1>4. CASE StartFails
  <2>1. Control'
    BY <1>0, <1>4, Ending DEF StartFails, Raised
  <2>2. QED
    BY <1>4, <2>1, Same, RefreshTypes DEF StartFails, Failed, TypeOK, Control, WinTypes
<1>5. CASE Toggle
  <2>1. Control' /\ NetTypes' /\ shown' \in BOOLEAN
    <3>1. CASE ActiveNow
      BY <1>0, <1>5, <3>1, Calling DEF Toggle, TypeOK, NetTypes, WinTypes
    <3>2. CASE ~ActiveNow
      BY <1>5, <3>2, StartEngineTypes DEF Toggle
    <3>3. QED BY <3>1, <3>2
  <2>2. QED BY <1>5, <2>1, Same DEF Toggle, TypeOK, Control, WinTypes
<1>6. CASE StopRest
  <2>1. Control'
    BY <1>0, <1>6, Ending DEF StopRest, Returned, Raised
  <2>2. NetTypes'
    BY <1>6 DEF StopRest, StopByeDpi, TypeOK, NetTypes, net
  <2>3. QED
    BY <1>6, <2>1, <2>2, Same, RefreshTypes DEF StopRest, TypeOK, Control, WinTypes
<1>7. CASE AutoEnable
  <2>1. Control'
    BY <1>0, <1>7, Calling, Staying DEF AutoEnable
  <2>2. QED BY <1>7, <2>1, Same DEF AutoEnable, TypeOK, Control, WinTypes
<1>8. CASE AutoStart
  <2>1. Control' /\ NetTypes' /\ shown' \in BOOLEAN
    BY <1>8, StartEngineTypes DEF AutoStart
  <2>2. QED BY <1>8, <2>1, Same DEF AutoStart, TypeOK, Control, WinTypes
<1>9. CASE Quit
  <2>1. PICK closed \in [Threads -> Labels] :
           /\ \A t \in Threads : closed[t] = pc[t] \/ closed[t] = "done"
           /\ \/ pc' = closed /\ UNCHANGED <<reg, cont, arg>>
              \/ /\ reg' = FALSE
                 /\ pc' = [closed EXCEPT !["ui"] = "stop"]
                 /\ cont' = [cont EXCEPT !["ui"] = "quit"]
                 /\ arg' = [arg EXCEPT !["ui"] = Null]
    <3> DEFINE closed == [t \in Threads |->
                 IF t = dialog /\ pc[t] \in {"opened", "posted"} THEN "done" ELSE pc[t]]
    <3>1. closed \in [Threads -> Labels]
      BY DEF TypeOK, CtlTypes, Labels
    <3>2. \A t \in Threads : closed[t] = pc[t] \/ closed[t] = "done"
      OBVIOUS
    <3>3. QED BY <1>9, <3>1, <3>2 DEF Quit
  <2>2. CtlTypes'
    BY <1>0, <2>1 DEF TypeOK, CtlTypes, Labels
  <2>3. Control'
    BY <1>0, <2>1, <2>2 DEF Control, CtlTypes
  <2>4. NetTypes' /\ TuneTypes'
    BY <1>9, <2>1 DEF Quit, TypeOK, NetTypes, TuneTypes
  <2>5. WinTypes'
    BY <1>9 DEF Quit, TypeOK, WinTypes
  <2>6. QED BY <1>9, <2>2, <2>3, <2>4, <2>5, Same DEF Quit, TypeOK
<1>10. CASE QuitRest
  <2>1. Control'
    BY <1>0, <1>10, Ending DEF QuitRest, Returned, Raised
  <2>2. NetTypes' /\ app' \in {"running", "quitting", "ended", "exited"}
    BY <1>10 DEF QuitRest, StopByeDpi, TypeOK, NetTypes, WinTypes, net
  <2>3. QED BY <1>10, <2>1, <2>2, Same DEF QuitRest, TypeOK, Control, WinTypes
<1>11. QED BY <1>1, <1>2, <1>3, <1>4, <1>5, <1>6, <1>7, <1>8, <1>9, <1>10

\* The dialogs for Discord and what their threads do between two calls of winws.
LEMMA DialogTypes ==
    ASSUME TypeOK, Control, Counting,
           \/ OpenDiscord \/ DiscordOpened \/ Apply \/ Applied
           \/ \E w \in Tunes : \/ StartTune(w) \/ CancelTune(w) \/ FinishTune(w)
                             \/ NextTrial(w) \/ TrialStep(w) \/ LastStop(w) \/ TuneEnds(w)
           \/ \E v \in Tests : StartTest(v) \/ TestStep(v) \/ TestDone(v)
           \/ CancelConfirm
    PROVE  TypeOK' /\ Control'
<1>0. /\ {"opened", "idle", "next", "posted", "done"} \subseteq Labels \ {"launch"}
      /\ "ui" \in Threads /\ Tunes \subseteq Threads /\ Tests \subseteq Threads
      /\ {"openDiscord", "try", "confirm", "gap", "trial", "final"} \subseteq Conts
  BY DEF Labels, Conts, Threads
<1>1. CASE OpenDiscord
  <2>1. Control'
    BY <1>0, <1>1, Calling, Staying DEF OpenDiscord
  <2>2. QED BY <1>1, <2>1, Same DEF OpenDiscord, Set, TypeOK, Control, WinTypes
<1>2. CASE DiscordOpened
  <2>1. CASE Raised("openDiscord") /\ UNCHANGED <<net, zap, dialog, shown>>
    <3>1. Control'
      BY <1>0, <2>1, Ending DEF Raised
    <3>2. QED
      BY <1>2, <2>1, <3>1, Same DEF DiscordOpened, TypeOK, Control, WinTypes
  <2>2. CASE ~(Raised("openDiscord") /\ UNCHANGED <<net, zap, dialog, shown>>)
    <3>1. PICK w \in Tunes :
             /\ dialog' = w
             /\ pc' = [pc EXCEPT !["ui"] = "idle", ![w] = "opened"]
             /\ cont' = [cont EXCEPT !["ui"] = "none"]
             /\ arg' = [arg EXCEPT !["ui"] = Null]
             /\ UNCHANGED <<net, zap>> /\ Refresh
      BY <1>2, <2>2 DEF DiscordOpened
    <3>2. w \in Threads /\ w # "ui"
      BY ThreadsAssumption, <1>0
    <3>3. CtlTypes'
      BY <1>0, <3>1, <3>2 DEF TypeOK, CtlTypes, Labels, Conts
    <3>4. Control'
      BY <1>0, <3>1, <3>2, <3>3 DEF Control, CtlTypes
    <3>5. QED
      BY <1>2, <3>1, <3>3, <3>4, Same, RefreshTypes DEF DiscordOpened, TypeOK, WinTypes
  <2>3. QED BY <1>2, <2>1, <2>2 DEF DiscordOpened
<1>3. CASE Apply
  BY <1>0, <1>3, Calling, Same DEF Apply, TypeOK, Control, WinTypes, win
<1>4. CASE Applied
  <2>1. Control'
    BY <1>0, <1>4, Ending DEF Applied, Returned, Raised
  <2>2. dialog' \in {"none", "confirm"} \cup Tunes \cup Tests /\ shown' \in BOOLEAN
    BY <1>4, RefreshTypes DEF Applied, TypeOK, WinTypes
  <2>3. QED BY <1>4, <2>1, <2>2, Same DEF Applied, TypeOK, Control, WinTypes
<1>5. ASSUME NEW w \in Tunes,
             StartTune(w) \/ CancelTune(w) \/ FinishTune(w) \/ TuneEnds(w)
      PROVE  TypeOK' /\ Control'
  <2>1. CASE StartTune(w)
    <3>1. Control'
      BY <1>0, <2>1, Moves DEF StartTune, Conts
    <3>2. QED BY <2>1, <3>1, Same DEF StartTune, TypeOK, Control, WinTypes, win
  <2>2. CASE CancelTune(w)
    <3>1. Control'
      BY <1>0, <2>2, Ending, Staying DEF CancelTune
    <3>2. QED BY <2>2, <3>1, Same DEF CancelTune, TypeOK, Control, WinTypes, TuneTypes
  <2>3. CASE FinishTune(w)
    <3>1. Control'
      BY <1>0, <2>3, Ending DEF FinishTune
    <3>2. QED BY <2>3, <3>1, Same DEF FinishTune, TypeOK, Control, WinTypes
  <2>4. CASE TuneEnds(w)
    <3>1. Control'
      BY <1>0, <2>4, Ending DEF TuneEnds
    <3>2. QED BY <2>4, <3>1, Same DEF TuneEnds, TypeOK, Control, WinTypes, win
  <2>5. QED BY <1>5, <2>1, <2>2, <2>3, <2>4
<1>6. ASSUME NEW w \in Tunes, NextTrial(w) \/ LastStop(w)
      PROVE  TypeOK' /\ Control'
  <2>1. Control'
    BY <1>0, <1>6, Calling DEF NextTrial, LastStop
  <2>2. QED
    BY <1>6, <2>1, Same DEF NextTrial, LastStop, At, TypeOK, Control, WinTypes, win
<1>7. ASSUME NEW w \in Tunes, TrialStep(w)
      PROVE  TypeOK' /\ Control'
  <2>1. CASE \E q \in Presets : Call(w, q, "trial") /\ UNCHANGED left
    <3>1. Control'
      BY <1>0, <2>1, Calling
    <3>2. QED
      BY <1>7, <2>1, <3>1, Same DEF TrialStep, TypeOK, Control, WinTypes, TuneTypes, win
  <2>2. CASE /\ cont[w] \in {"gap", "trial"}
             /\ left' = [left EXCEPT ![w] = @ - 1]
             /\ Ends(w, "next")
    <3>1. Control'
      BY <1>0, <2>2, Ending
    <3>2. left' \in [Tunes -> 0 .. Trials]
      BY <2>2, TrialsAssumption DEF Counting, TypeOK, TuneTypes
    <3>3. QED
      BY <1>7, <3>1, <3>2, Same DEF TrialStep, TypeOK, Control, WinTypes, TuneTypes, win
  <2>3. QED BY <1>7, <2>1, <2>2 DEF TrialStep
<1>8. ASSUME NEW v \in Tests, StartTest(v) \/ TestStep(v) \/ TestDone(v)
      PROVE  TypeOK' /\ Control'
  <2>1. Control'
    <3>1. CASE StartTest(v)
      BY <1>0, <3>1, Calling DEF StartTest
    <3>2. CASE TestStep(v)
      BY <1>0, <3>2, Calling, Ending DEF TestStep
    <3>3. CASE TestDone(v)
      BY <1>0, <3>3, Ending DEF TestDone
    <3>4. QED BY <1>8, <3>1, <3>2, <3>3
  <2>2. WinTypes'
    BY <1>8 DEF StartTest, TestStep, TestDone, TypeOK, WinTypes, win
  <2>3. QED BY <1>8, <2>1, <2>2, Same DEF StartTest, TestStep, TestDone, TypeOK, Control
<1>9. CASE CancelConfirm
  <2>1. Control'
    BY <1>0, <1>9, Ending, Staying DEF CancelConfirm
  <2>2. QED BY <1>9, <2>1, Same DEF CancelConfirm, TypeOK, Control, WinTypes
<1>10. QED BY <1>1, <1>2, <1>3, <1>4, <1>5, <1>6, <1>7, <1>8, <1>9

\* The test counter of a benchmark is only lowered by the benchmark itself.
LEMMA Counts ==
    ASSUME TypeOK, Counting, [Next]_vars
    PROVE  Counting'
<1>0. Tunes \subseteq Threads \ {"ui"} /\ Tunes \cap Tests = {} /\ cont \in [Threads -> Conts]
  BY ThreadsAssumption DEF Threads, TypeOK, CtlTypes
<1>1. ASSUME NEW t \in Threads, WinWs(t)
      PROVE  Counting'
  <2>1. cont' = cont /\ left' = left
    BY <1>1 DEF WinWs, StopCheck, Terminate, Forget, Kill, Launch, Wait, At, Goto, tune
  <2>2. QED BY <2>1 DEF Counting
<1>2. ASSUME left' = left, NEW x, cont' = cont \/ cont' = [cont EXCEPT !["ui"] = x]
      PROVE  Counting'
  BY <1>0, <1>2 DEF Counting
<1>3. CASE \/ \E c \in Components : SwitchOn(c) \/ SwitchOff(c)
           \/ OpenTg \/ ProcessEnds \/ Exit \/ Over
           \/ \E w \in Tunes : StartTune(w)
  BY <1>3, <1>2 DEF SwitchOn, SwitchOff, OpenTg, ProcessEnds, Exit, Over,
                    StartTune, Goto, ctl, tune, vars
<1>4. CASE SwitchDiscord \/ Apply \/ AutoEnable \/ OpenDiscord
  BY <1>4, <1>2 DEF SwitchDiscord, Apply, AutoEnable, OpenDiscord, Call, Skip, ctl, tune
<1>5. CASE DiscordSwitched \/ StartRest \/ StartFails \/ StopRest \/ Applied
  BY <1>5, <1>2 DEF DiscordSwitched, StartRest, StartFails, StopRest, Applied, Returned,
                    Raised, Ends, tune
<1>6. CASE Toggle \/ AutoStart
  BY <1>6, <1>2 DEF Toggle, AutoStart, StartEngine, Call, Skip, Ends, tune
<1>7. CASE DiscordOpened \/ Quit \/ QuitRest
  BY <1>7, <1>2 DEF DiscordOpened, Quit, QuitRest, Returned, Raised, Ends, tune
<1>8. ASSUME NEW w \in Tunes,
             CancelTune(w) \/ FinishTune(w) \/ LastStop(w) \/ TuneEnds(w)
      PROVE  Counting'
  <2>1. left' = left /\ (cont' = cont \/ \E x \in {"none", "final"} : cont' = [cont EXCEPT ![w] = x])
    BY <1>8 DEF CancelTune, FinishTune, LastStop, TuneEnds, At, Ends, Call, tune, ctl
  <2>2. QED BY <1>0, <2>1 DEF Counting
<1>9. ASSUME NEW w \in Tunes, NextTrial(w) \/ TrialStep(w)
      PROVE  Counting'
  <2>1. CASE NextTrial(w)
    BY <1>0, <2>1 DEF NextTrial, GivesUp, At, Call, tune, Counting
  <2>2. CASE TrialStep(w) /\ UNCHANGED left
    <3>1. cont[w] \in {"gap", "trial"} /\ \E x \in Conts : cont' = [cont EXCEPT ![w] = x]
      BY <2>2 DEF TrialStep, Call, Ends, Conts
    <3>2. QED BY <1>0, <2>2, <3>1 DEF Counting
  <2>3. CASE TrialStep(w) /\ ~UNCHANGED left
    <3>1. cont' = [cont EXCEPT ![w] = "none"] /\ left' = [left EXCEPT ![w] = @ - 1]
      BY <2>3 DEF TrialStep, Ends
    <3>2. QED BY <1>0, <3>1 DEF Counting, TypeOK, TuneTypes
  <2>4. QED BY <1>9, <2>1, <2>2, <2>3
<1>10. ASSUME NEW v \in Tests,
              \/ StartTest(v) \/ TestStep(v) \/ TestDone(v)
              \/ CancelConfirm /\ (dialog = v \/ UNCHANGED ctl)
       PROVE  Counting'
  <2>1. left' = left /\ \E x \in Conts : cont' = cont \/ cont' = [cont EXCEPT ![v] = x]
    BY <1>10 DEF StartTest, TestStep, TestDone, CancelConfirm, Call, Ends, tune, ctl, Conts
  <2>2. QED BY <1>0, <2>1 DEF Counting
<1>11. CASE CancelConfirm
  <2>1. dialog \in Tests \/ UNCHANGED ctl
    BY <1>11 DEF CancelConfirm
  <2>2. CASE UNCHANGED ctl
    BY <1>11, <2>2, <1>2 DEF CancelConfirm, ctl, tune
  <2>3. QED BY <1>10, <1>11, <2>1, <2>2
<1>12. CASE UNCHANGED vars
  BY <1>12, <1>2 DEF vars, ctl, tune
<1>13. QED
  BY <1>1, <1>3, <1>4, <1>5, <1>6, <1>7, <1>8, <1>9, <1>10, <1>11, <1>12
     DEF Next, Events, UiStep, TuneStep, Threads

LEMMA NextTypes ==
    ASSUME TypeOK, Control, Counting, [Next]_vars
    PROVE  TypeOK' /\ Control'
<1>1. CASE \E t \in Threads : WinWs(t)
  BY <1>1, WinWsTypes
<1>2. CASE UNCHANGED vars
  BY <1>2, Same, Staying DEF vars, TypeOK, Control, WinTypes, win
<1>3. CASE Next
  BY <1>1, <1>2, <1>3, PlainTypes, WindowTypes, DialogTypes
     DEF Next, Events, UiStep, TuneStep, Over, Threads
<1>4. QED BY <1>2, <1>3

\* The steps named here change ByeDPI, the system setting or the state of the
\* application; every other step leaves the three alone.
LEMMA NetworkFrame ==
    ASSUME TypeOK, Next,
           ~\/ \E c \in Components : SwitchOn(c) \/ SwitchOff(c)
            \/ StartRest \/ Toggle \/ StopRest \/ AutoStart \/ Quit \/ QuitRest
            \/ ProcessEnds \/ Exit
    PROVE  UNCHANGED <<byedpi, reg, app>>
<1>1. ASSUME NEW t \in Threads, WinWs(t)
      PROVE  UNCHANGED <<byedpi, reg, app>>
  BY <1>1 DEF WinWs, StopCheck, Terminate, Forget, Kill, Launch, Wait, At, net, win
<1>2. CASE SwitchDiscord \/ AutoEnable \/ OpenTg \/ OpenDiscord \/ Apply \/ CancelConfirm
  BY <1>2 DEF SwitchDiscord, AutoEnable, OpenTg, OpenDiscord, Apply, CancelConfirm, net, win
<1>3. CASE DiscordSwitched \/ StartFails \/ DiscordOpened \/ Applied
  BY <1>3 DEF DiscordSwitched, StartFails, DiscordOpened, Applied, net, win
<1>4. ASSUME NEW w \in Tunes,
             StartTune(w) \/ CancelTune(w) \/ FinishTune(w) \/ NextTrial(w)
               \/ TrialStep(w) \/ LastStop(w) \/ TuneEnds(w)
      PROVE  UNCHANGED <<byedpi, reg, app>>
  BY <1>4 DEF StartTune, CancelTune, FinishTune, NextTrial, TrialStep, LastStop, TuneEnds,
              At, net, win
<1>5. ASSUME NEW v \in Tests, StartTest(v) \/ TestStep(v) \/ TestDone(v)
      PROVE  UNCHANGED <<byedpi, reg, app>>
  BY <1>5 DEF StartTest, TestStep, TestDone, net, win
<1>6. CASE Over
  BY <1>6 DEF Over, vars, net, win
<1>7. QED
  BY <1>1, <1>2, <1>3, <1>4, <1>5, <1>6 DEF Next, Events, UiStep, TuneStep, Threads

\* Each handler keeps the system setting behind a ByeDPI process.
LEMMA SysProxyStep ==
    ASSUME TypeOK, SysProxyServed, [Next]_vars
    PROVE  SysProxyServed'
<1>1. ASSUME UNCHANGED <<byedpi, reg, app>>
      PROVE  SysProxyServed'
  BY <1>1 DEF SysProxyServed
<1>2. CASE UNCHANGED vars
  BY <1>1, <1>2 DEF vars, net, win
<1>3. ASSUME NEW c \in Components, SwitchOn(c) \/ SwitchOff(c)
      PROVE  SysProxyServed'
  BY <1>3 DEF SwitchOn, SwitchOff, StartByeDpi, StopByeDpi, SysProxyServed, Components, net
<1>4. CASE StartRest \/ StopRest \/ QuitRest
  BY <1>4 DEF StartRest, StopRest, QuitRest, StopByeDpi, SysProxyServed, net
<1>5. CASE Toggle \/ AutoStart
  BY <1>5 DEF Toggle, AutoStart, StartEngine, StartByeDpi, SysProxyServed, net
<1>6. CASE Quit \/ ProcessEnds \/ Exit
  BY <1>6 DEF Quit, ProcessEnds, Exit, SysProxyServed, net
<1>7. QED
  BY <1>1, <1>2, <1>3, <1>4, <1>5, <1>6, NetworkFrame

\* Once the main loop has ended only other threads and processes act.
LEMMA SettledStep ==
    ASSUME TypeOK, Settled, [Next]_vars
    PROVE  Settled'
<1>0. "ui" \in Threads /\ "ui" \notin Tunes \cup Tests /\ pc \in [Threads -> Labels]
      /\ app \in {"running", "quitting", "ended", "exited"}
  BY ThreadsAssumption DEF Threads, TypeOK, CtlTypes, WinTypes
<1>a. ~Idle => ~\/ \E c \in Components : SwitchOn(c) \/ SwitchOff(c)
                \/ SwitchDiscord \/ Toggle \/ AutoEnable \/ OpenTg \/ OpenDiscord \/ Quit
                \/ \E w \in Tunes : StartTune(w) \/ CancelTune(w) \/ FinishTune(w)
                \/ \E v \in Tests : StartTest(v) \/ TestDone(v)
                \/ Apply \/ CancelConfirm
  BY DEF SwitchOn, SwitchOff, SwitchDiscord, Toggle, AutoEnable, OpenTg, OpenDiscord, Quit,
         StartTune, CancelTune, FinishTune, StartTest, TestDone, Apply, CancelConfirm,
         Unlocked
<1>b. pc["ui"] = "idle" =>
        ~\/ WinWs("ui") \/ DiscordSwitched \/ StartRest \/ StartFails \/ StopRest
         \/ AutoStart \/ DiscordOpened \/ Applied \/ QuitRest
  BY DEF WinWs, StopCheck, Terminate, Forget, Kill, Launch, Wait, At, DiscordSwitched,
         StartRest, StartFails, StopRest, AutoStart, DiscordOpened, Applied, QuitRest,
         Returned, Raised
<1>1. CASE app \in {"ended", "exited"}
  <2>1. pc["ui"] = "idle" /\ ~reg /\ byedpi # "on" /\ ~Idle
    BY <1>1 DEF Settled, Idle
  <2>2. ASSUME NEW t \in Threads \ {"ui"}, WinWs(t)
        PROVE  pc'["ui"] = "idle"
    BY <1>0, <2>1, <2>2 DEF WinWs, StopCheck, Terminate, Forget, Kill, Launch, Wait, Goto
  <2>3. ASSUME NEW w \in Tunes,
               NextTrial(w) \/ TrialStep(w) \/ LastStop(w) \/ TuneEnds(w)
        PROVE  pc'["ui"] = "idle"
    BY <1>0, <2>1, <2>3 DEF NextTrial, TrialStep, LastStop, TuneEnds, Call, Ends
  <2>4. ASSUME NEW v \in Tests, TestStep(v)
        PROVE  pc'["ui"] = "idle"
    BY <1>0, <2>1, <2>4 DEF TestStep, Call, Ends
  <2>5. CASE ProcessEnds \/ Exit \/ UNCHANGED vars
    BY <2>1, <2>5 DEF ProcessEnds, Exit, Settled, ctl, net, vars
  <2>6. CASE Next /\ ~(ProcessEnds \/ Exit \/ UNCHANGED vars)
    <3>1. UNCHANGED <<byedpi, reg, app>>
      BY <1>a, <1>b, <2>1, <2>6, NetworkFrame DEF Over
    <3>2. pc'["ui"] = "idle"
      BY <1>a, <1>b, <2>1, <2>2, <2>3, <2>4, <2>6, <1>0
         DEF Next, Events, UiStep, TuneStep, Over, Threads
    <3>3. QED BY <2>1, <3>1, <3>2 DEF Settled
  <2>7. QED BY <2>5, <2>6
<1>2. CASE app \notin {"ended", "exited"}
  <2>1. CASE Quit
    <3>1. CASE ActiveNow
      BY <2>1, <3>1 DEF Quit, Settled
    <3>2. CASE ~ActiveNow
      <4>1. app' = "ended" /\ UNCHANGED <<reg, byedpi>> /\ pc["ui"] = "idle"
            /\ pc' = [t \in Threads |->
                        IF t = dialog /\ pc[t] \in {"opened", "posted"} THEN "done" ELSE pc[t]]
        BY <2>1, <3>2 DEF Quit, Idle
      <4>2. pc'["ui"] = "idle"
        BY <1>0, <4>1
      <4>3. QED BY <3>2, <4>1, <4>2 DEF ActiveNow, Active, Settled
    <3>3. QED BY <3>1, <3>2
  <2>2. CASE QuitRest
    BY <1>0, <1>2, <2>2 DEF QuitRest, Returned, Raised, Ends, StopByeDpi, Settled, net
  <2>3. CASE ~Quit /\ ~QuitRest
    <3>1. app' \notin {"ended", "exited"}
      <4>1. ASSUME NEW c \in Components, SwitchOn(c) \/ SwitchOff(c)
            PROVE  app' = app
        BY <4>1 DEF SwitchOn, SwitchOff
      <4>2. CASE StartRest \/ Toggle \/ StopRest \/ AutoStart \/ ProcessEnds
        BY <1>2, <4>2 DEF StartRest, Toggle, StopRest, AutoStart, ProcessEnds, win
      <4>3. CASE Exit
        BY <1>2, <4>3 DEF Exit
      <4>4. CASE UNCHANGED vars
        BY <1>2, <4>4 DEF vars, win
      <4>5. CASE /\ Next
                 /\ ~\/ \E c \in Components : SwitchOn(c) \/ SwitchOff(c)
                     \/ StartRest \/ Toggle \/ StopRest \/ AutoStart \/ ProcessEnds \/ Exit
        <5>1. app' = app
          BY <2>3, <4>5, NetworkFrame
        <5>2. QED BY <1>2, <5>1
      <4>6. QED BY <1>2, <4>1, <4>2, <4>3, <4>4, <4>5
    <3>2. QED BY <3>1 DEF Settled
  <2>4. QED BY <2>1, <2>2, <2>3
<1>3. QED BY <1>1, <1>2

-----------------------------------------------------------------------------
\* The inductive invariant: types, the preset of a launch, the tests that a
\* benchmark still has, and what holds of the network setting at any time and
\* after the end.
THEOREM Invariance == Spec => []IInv
<1>1. Init => IInv
  <2>1. ASSUME Init PROVE CtlTypes
    BY <2>1 DEF Init, CtlTypes, Labels, Conts
  <2>2. ASSUME Init PROVE TypeOK
    <3>1. NetTypes /\ ZapTypes /\ died \in BOOLEAN
      BY <2>2 DEF Init, NetTypes, ZapTypes
    <3>2. WinTypes
      BY <2>2 DEF Init, WinTypes
    <3>3. TuneTypes
      BY <2>2, TrialsAssumption DEF Init, TuneTypes
    <3>4. QED BY <2>1, <2>2, <3>1, <3>2, <3>3 DEF TypeOK
  <2>3. ASSUME Init PROVE Control /\ Counting /\ SysProxyServed /\ Settled
    BY <2>1, <2>3, ThreadsAssumption
       DEF Init, Control, Counting, SysProxyServed, Settled, Threads
  <2>4. QED BY <2>2, <2>3 DEF IInv
<1>2. IInv /\ [Next]_vars => IInv'
  BY NextTypes, Counts, SysProxyStep, SettledStep DEF IInv
<1>3. QED BY <1>1, <1>2, PTL DEF Spec

\* Whatever the window, its dialogs, their threads and the processes do, every
\* variable keeps its type; in particular only presets are started and the
\* counter of a benchmark never goes below zero.
THEOREM TypeCorrect == Spec => []TypeOK
<1>1. IInv => TypeOK
  BY DEF IInv
<1>2. QED BY <1>1, Invariance, PTL

\* engine.start(), stop() and the component switches: the system setting is on
\* only while a ByeDPI process was started and not stopped.
THEOREM SystemProxyIsServed == Spec => []SysProxyServed
<1>1. IInv => SysProxyServed
  BY DEF IInv
<1>2. QED BY <1>1, Invariance, PTL

\* _quit_app(): a program whose main loop has ended leaves no ciadpi running and
\* the system setting off, with any number of benchmarks and tests under way.
THEOREM QuitCleansNetwork == Spec => []QuitLeavesNetwork
<1>1. IInv => QuitLeavesNetwork
  BY DEF IInv, Settled, QuitLeavesNetwork
<1>2. QED BY <1>1, Invariance, PTL

-----------------------------------------------------------------------------
(* What is shown is what runs                                              *)

\* No thread of a dialog was started and no process has ended by itself.
Alone == ~died /\ \A t \in Threads \ {"ui"} : pc[t] \in {"new", "opened"}

Started == Labels \ {"new", "opened"}

\* A thread that was started is never new again.
LEMMA AloneBefore ==
    ASSUME TypeOK, [Next]_vars, Alone'
    PROVE  Alone
<1>0. /\ pc \in [Threads -> Labels] /\ Tunes \subseteq Threads /\ Tests \subseteq Threads
      /\ "ui" \in Threads
  BY DEF TypeOK, CtlTypes, Threads
<1>1. ASSUME died' = died, NEW t \in Threads, NEW l \in Started,
             pc' = pc \/ pc' = [pc EXCEPT ![t] = l]
      PROVE  Alone
  BY <1>0, <1>1 DEF Alone, Started
<1>2. {"terminate", "forget", "kill", "launch", "wait", "ok", "raised", "stop", "idle", "next",
       "posted", "done"} \subseteq Started
  BY DEF Started, Labels
<1>3. ASSUME NEW t \in Threads, WinWs(t) PROVE Alone
  BY <1>1, <1>2, <1>3
     DEF WinWs, StopCheck, Terminate, Forget, Kill, Launch, Wait, At, Goto
<1>4. CASE \/ \E c \in Components : SwitchOn(c) \/ SwitchOff(c)
           \/ OpenTg \/ Exit \/ UNCHANGED vars
  BY <1>0, <1>1, <1>2, <1>4 DEF SwitchOn, SwitchOff, OpenTg, Exit, ctl, vars
<1>5. CASE SwitchDiscord \/ Apply \/ AutoEnable \/ OpenDiscord
  BY <1>0, <1>1, <1>2, <1>5
     DEF SwitchDiscord, Apply, AutoEnable, OpenDiscord, Call, Skip, ctl
<1>6. CASE DiscordSwitched \/ StartRest \/ StartFails \/ StopRest \/ Applied \/ QuitRest
  BY <1>0, <1>1, <1>2, <1>6
     DEF DiscordSwitched, StartRest, StartFails, StopRest, Applied, QuitRest, Returned,
         Raised, Ends
<1>7. CASE Toggle \/ AutoStart
  BY <1>0, <1>1, <1>2, <1>7 DEF Toggle, AutoStart, StartEngine, Call, Skip, Ends
<1>8. CASE DiscordOpened
  <2>1. CASE Raised("openDiscord")
    BY <1>0, <1>1, <1>2, <1>8, <2>1 DEF DiscordOpened, Raised, Ends
  <2>2. CASE ~Raised("openDiscord")
    <3>1. /\ died' = died
          /\ \E w \in Tunes : /\ pc[w] = "new"
                              /\ pc' = [pc EXCEPT !["ui"] = "idle", ![w] = "opened"]
      BY <1>8, <2>2 DEF DiscordOpened, NewTune
    <3> QED
      BY <1>0, <3>1 DEF Alone
  <2> QED
    BY <2>1, <2>2
<1>9. CASE Quit
  <2>1. /\ died' = died
        /\ \A t \in Threads \ {"ui"} : pc'[t] \in {pc[t], "done"}
    BY <1>0, <1>9 DEF Quit
  <2> QED
    BY <2>1 DEF Alone
<1>10. ASSUME NEW w \in Tunes,
              \/ StartTune(w) \/ CancelTune(w) \/ FinishTune(w)
              \/ NextTrial(w) \/ TrialStep(w) \/ LastStop(w) \/ TuneEnds(w)
       PROVE  Alone
  BY <1>0, <1>1, <1>2, <1>10
     DEF StartTune, CancelTune, FinishTune, NextTrial, TrialStep, LastStop, TuneEnds, At,
         Goto, Call, Ends, ctl
<1>11. ASSUME NEW v \in Tests, StartTest(v) \/ TestStep(v) \/ TestDone(v)
       PROVE  Alone
  BY <1>0, <1>1, <1>2, <1>11 DEF StartTest, TestStep, TestDone, Call, Ends
<1>12. CASE CancelConfirm
  BY <1>0, <1>1, <1>2, <1>12 DEF CancelConfirm, Ends, ctl
<1>13. CASE ProcessEnds
  BY <1>13 DEF ProcessEnds, Alone
<1>14. CASE Over
  BY <1>4, <1>14 DEF Over
<1> QED
  BY <1>3, <1>4, <1>5, <1>6, <1>7, <1>8, <1>9, <1>10, <1>11, <1>12, <1>13, <1>14
     DEF Next, Events, UiStep, TuneStep, Threads

\* What was shown before winws was called, and what the handlers that do not
\* refresh afterwards find.
Displayed ==
    Alone =>
        /\ dialog \in {"none"} \cup Tunes
        /\ cont["ui"] \notin {"try", "confirm"}
        /\ cont["ui"] = "quit" => app # "running"
        /\ Idle => shown = ActiveNow
        /\ pc["ui"] = "terminate" => launcher \in winws
        /\ cont["ui"] = "openDiscord" /\ pc["ui"] \notin {"idle", "ok"} =>
             /\ shown = Active(byedpi, {}, tgws, reg)
             /\ arg["ui"] # Null
             /\ pc["ui"] # "wait" => winws = {}

LEMMA RefreshShows ==
    ASSUME Refresh, UNCHANGED zap
    PROVE  shown' = ActiveNow'
<1>1. winws' = winws
  BY DEF zap
<1> QED
  BY <1>1, Zenon DEF Refresh, ActiveNow

LEMMA Refreshed ==
    ASSUME Refresh, UNCHANGED zap, cont'["ui"] = "none", pc'["ui"] = "idle",
           dialog' \in {"none"} \cup Tunes
    PROVE  Displayed'
<1>1. shown' = ActiveNow'
  BY RefreshShows
<1> QED
  BY <1>1 DEF Displayed

\* A handler that changes neither the threads nor winws, and refreshes.
LEMMA RefreshedInPlace ==
    ASSUME Displayed, Alone, Idle, Refresh, UNCHANGED <<zap, ctl, dialog>>
    PROVE  Displayed'
<1>1. shown' = ActiveNow'
  BY RefreshShows
<1>2. pc["ui"] = "idle" /\ app = "running"
  BY DEF Idle
<1>3. /\ dialog' \in {"none"} \cup Tunes /\ cont'["ui"] \notin {"try", "confirm"}
      /\ pc'["ui"] = "idle" /\ cont'["ui"] # "quit"
  BY <1>2 DEF Displayed, ctl
<1> QED
  BY <1>1, <1>3 DEF Displayed

LEMMA Busy ==
    ASSUME cont'["ui"] \notin {"try", "confirm", "openDiscord", "quit"},
           pc'["ui"] \notin {"idle", "terminate"}, dialog' \in {"none"} \cup Tunes
    PROVE  Displayed'
BY DEF Displayed, Idle

LEMMA SameDisplay ==
    ASSUME Displayed, Alone, UNCHANGED <<zap, ctl, net, shown, app>>,
           dialog' \in {dialog, "none"}
    PROVE  Displayed'
BY DEF Displayed, zap, ctl, net, Idle, ActiveNow

\* start() and stop() on the Tk thread, with nobody else at winws.
LEMMA WinWsDisplay ==
    ASSUME TypeOK, Displayed, Alone, WinWs("ui")
    PROVE  Displayed'
<1>1. /\ pc \in [Threads -> Labels] /\ "ui" \in Threads
      /\ launcher \in winws => launcher # Null
  BY PresetsAssumption DEF TypeOK, CtlTypes, ZapTypes, Threads
<1>2. /\ UNCHANGED <<net, win, tune, died, cont, arg>>
      /\ pc["ui"] \notin {"idle", "ok"}
      /\ pc'["ui"] # "idle"
  BY <1>1 DEF WinWs, StopCheck, Terminate, Forget, Kill, Launch, Wait, At, Goto
<1>3. /\ dialog' \in {"none"} \cup Tunes /\ cont'["ui"] \notin {"try", "confirm"}
      /\ ~Idle' /\ (cont'["ui"] = "quit" => app' # "running")
  BY <1>2 DEF Displayed, win, Idle
<1>4. pc'["ui"] = "terminate" => launcher' \in winws'
  BY <1>1 DEF WinWs, StopCheck, Terminate, Forget, Kill, Launch, Wait, At, Goto, zap
<1>5. ASSUME cont["ui"] = "openDiscord", pc'["ui"] # "ok"
      PROVE  /\ shown' = Active(byedpi', {}, tgws', reg')
             /\ arg'["ui"] # Null
             /\ pc'["ui"] # "wait" => winws' = {}
  <2>1. /\ shown = Active(byedpi, {}, tgws, reg) /\ arg["ui"] # Null
        /\ pc["ui"] # "wait" => winws = {}
    BY <1>2, <1>5 DEF Displayed
  <2>2. shown' = Active(byedpi', {}, tgws', reg') /\ arg'["ui"] # Null
    BY <1>2, <2>1 DEF net, win
  <2>3. pc'["ui"] # "wait" => winws' = {}
    BY <1>1, <1>5, <2>1 DEF WinWs, StopCheck, Terminate, Forget, Kill, Launch, Wait, At, Goto, zap
  <2> QED
    BY <2>2, <2>3
<1> QED
  BY <1>2, <1>3, <1>4, <1>5 DEF Displayed

\* The handlers of the main window.
LEMMA WindowDisplay ==
    ASSUME TypeOK, Displayed, Alone,
           \/ \E c \in Components : SwitchOn(c) \/ SwitchOff(c)
           \/ SwitchDiscord \/ DiscordSwitched \/ StartRest \/ StartFails \/ Toggle
           \/ StopRest \/ AutoEnable \/ AutoStart \/ OpenTg \/ Quit \/ QuitRest \/ Exit
    PROVE  Displayed'
<1>1. /\ pc \in [Threads -> Labels] /\ cont \in [Threads -> Conts] /\ "ui" \in Threads
      /\ dialog \in {"none"} \cup Tunes
  BY DEF TypeOK, CtlTypes, Threads, Displayed
<1>2. ASSUME Ends("ui", "idle"), Refresh, UNCHANGED zap, dialog' = dialog
      PROVE  Displayed'
  BY <1>1, <1>2, Refreshed DEF Ends
<1>3. ASSUME NEW c \in {"startAll", "stopAll", "auto", "switchOn", "switchOff"},
             NEW p, Call("ui", p, c) \/ Skip("ui", c), dialog' = dialog
      PROVE  Displayed'
  <2>1. cont'["ui"] = c /\ pc'["ui"] \in {"stop", "ok"}
    BY <1>1, <1>3 DEF Call, Skip
  <2> QED
    BY <1>1, <1>3, <2>1, Busy
<1>4. ASSUME NEW c \in Components, SwitchOn(c) \/ SwitchOff(c) PROVE Displayed'
  <2>1. UNCHANGED <<ctl, zap, dialog>> /\ Refresh /\ Idle
    BY <1>4 DEF SwitchOn, SwitchOff, Unlocked
  <2> QED
    BY <2>1, RefreshedInPlace
<1>5. CASE SwitchDiscord
  BY <1>3, <1>5 DEF SwitchDiscord
<1>6. CASE DiscordSwitched \/ StartRest \/ StartFails \/ StopRest
  BY <1>2, <1>6 DEF DiscordSwitched, StartRest, StartFails, StopRest, Failed, Returned, Raised
<1>7. ASSUME StartEngine, UNCHANGED zap, dialog' = dialog PROVE Displayed'
  BY <1>2, <1>3, <1>7 DEF StartEngine
<1>8. CASE Toggle
  BY <1>3, <1>7, <1>8 DEF Toggle
<1>9. CASE AutoEnable
  <2>1. CASE UNCHANGED ctl
    BY <1>9, <2>1, SameDisplay DEF AutoEnable
  <2> QED
    BY <1>3, <1>9, <2>1 DEF AutoEnable
<1>10. CASE AutoStart
  BY <1>7, <1>10 DEF AutoStart
<1>11. CASE OpenTg
  <2>1. UNCHANGED <<ctl, zap, dialog, byedpi, reg, app>>
    BY <1>11 DEF OpenTg
  <2>2. CASE UNCHANGED <<tgws, shown>>
    BY <2>1, <2>2, SameDisplay DEF net
  <2>3. CASE Refresh
    BY <1>11, <2>1, <2>3, RefreshedInPlace DEF OpenTg, Unlocked
  <2> QED
    BY <1>11, <2>2, <2>3 DEF OpenTg
<1>12. CASE Quit
  <2>1. dialog' = "none" /\ app' # "running" /\ pc'["ui"] \in {"idle", "stop", "done"}
    BY <1>1, <1>12 DEF Quit, Idle
  <2>2. cont'["ui"] \notin {"try", "confirm"}
    BY <1>1, <1>12 DEF Quit, Displayed
  <2>3. cont'["ui"] = "openDiscord" => pc'["ui"] = "idle"
    BY <1>1, <1>12, ThreadsAssumption DEF Quit, Idle, Displayed
  <2> QED
    BY <2>1, <2>2, <2>3 DEF Displayed, Idle
<1>13. CASE QuitRest
  <2>1. /\ Ends("ui", "idle") /\ dialog' = dialog /\ app' \in {app, "ended"}
        /\ cont["ui"] = "quit"
    BY <1>13 DEF QuitRest, Returned, Raised
  <2>2. app' # "running"
    BY <2>1 DEF Displayed
  <2> QED
    BY <1>1, <2>1, <2>2 DEF Displayed, Idle, Ends
<1>14. CASE Exit
  <2>1. app' = "exited" /\ UNCHANGED <<net, zap, ctl, shown, dialog>>
    BY <1>14 DEF Exit
  <2> QED
    BY <2>1 DEF Displayed, Idle, net, zap, ctl
<1> QED
  BY <1>4, <1>5, <1>6, <1>8, <1>9, <1>10, <1>11, <1>12, <1>13, <1>14

\* The dialogs and their threads: only the window opens one while it is alone.
LEMMA DialogDisplay ==
    ASSUME TypeOK, Displayed, Alone, Alone', [Next]_vars,
           \/ OpenDiscord \/ DiscordOpened \/ Apply \/ Applied
           \/ \E w \in Tunes : \/ StartTune(w) \/ CancelTune(w) \/ FinishTune(w)
                             \/ NextTrial(w) \/ TrialStep(w) \/ LastStop(w) \/ TuneEnds(w)
           \/ \E v \in Tests : StartTest(v) \/ TestStep(v) \/ TestDone(v)
           \/ CancelConfirm
    PROVE  Displayed'
<1>1. /\ pc \in [Threads -> Labels] /\ cont \in [Threads -> Conts] /\ "ui" \in Threads
      /\ arg \in [Threads -> Presets \cup {Null}]
      /\ dialog \in {"none"} \cup Tunes
      /\ Tunes \subseteq Threads \ {"ui"} /\ Tests \subseteq Threads \ {"ui"}
      /\ "confirm" \notin Tunes /\ Tunes \cap Tests = {} /\ "none" \notin Tests
  BY ThreadsAssumption DEF TypeOK, CtlTypes, Threads, Displayed
<1>2. \A t \in Threads \ {"ui"} : pc[t] \in {"new", "opened"} /\ pc'[t] \in {"new", "opened"}
  BY DEF Alone
<1>3. CASE OpenDiscord
  <2>1. /\ pc["ui"] = "idle" /\ app = "running" /\ shown = ActiveNow
        /\ UNCHANGED <<net, zap, shown, dialog, app>>
    BY <1>3 DEF OpenDiscord, Unlocked, Idle, Displayed
  <2>2. CASE UNCHANGED ctl
    BY <2>1, <2>2, SameDisplay
  <2>3. CASE winws # {} /\ Skip("ui", "openDiscord")
    <3>1. cont'["ui"] = "openDiscord" /\ pc'["ui"] = "ok"
      BY <1>1, <2>3 DEF Skip
    <3> QED
      BY <1>1, <2>1, <3>1 DEF Displayed, Idle
  <2>4. CASE winws = {} /\ \E p \in Presets : Call("ui", p, "openDiscord")
    <3>1. cont'["ui"] = "openDiscord" /\ pc'["ui"] = "stop" /\ arg'["ui"] \in Presets
      BY <1>1, <2>4 DEF Call
    <3>2. arg'["ui"] # Null
      BY <3>1, PresetsAssumption
    <3>3. shown' = Active(byedpi', {}, tgws', reg') /\ winws' = {}
      BY <2>1, <2>4 DEF ActiveNow, net, zap
    <3> QED
      BY <1>1, <2>1, <3>1, <3>2, <3>3 DEF Displayed, Idle
  <2> QED
    BY <1>3, <2>2, <2>3, <2>4 DEF OpenDiscord
<1>4. CASE DiscordOpened
  <2>1. CASE Raised("openDiscord") /\ UNCHANGED <<net, zap, dialog, shown>>
    <3>1. shown = Active(byedpi, {}, tgws, reg) /\ winws = {}
      BY <2>1 DEF Displayed, Raised
    <3>2. cont'["ui"] = "none" /\ pc'["ui"] = "idle"
      BY <1>1, <2>1 DEF Raised, Ends
    <3>3. shown' = ActiveNow'
      BY <2>1, <3>1 DEF ActiveNow, net, zap
    <3> QED
      BY <1>1, <2>1, <3>2, <3>3 DEF Displayed
  <2>2. CASE ~(Raised("openDiscord") /\ UNCHANGED <<net, zap, dialog, shown>>)
    <3>1. PICK w \in Tunes :
             /\ dialog' = w
             /\ pc' = [pc EXCEPT !["ui"] = "idle", ![w] = "opened"]
             /\ cont' = [cont EXCEPT !["ui"] = "none"]
             /\ UNCHANGED zap /\ Refresh
      BY <1>4, <2>2 DEF DiscordOpened
    <3>2. pc'["ui"] = "idle" /\ cont'["ui"] = "none" /\ dialog' \in {"none"} \cup Tunes
      BY <1>1, <3>1
    <3> QED
      BY <3>1, <3>2, Refreshed
  <2> QED
    BY <2>1, <2>2
<1>5. ~Apply /\ ~Applied
  BY <1>1 DEF Apply, Applied, Returned, Raised, Displayed
<1>6. ASSUME NEW w \in Tunes,
             \/ StartTune(w) \/ FinishTune(w) \/ NextTrial(w) \/ TrialStep(w)
             \/ LastStop(w) \/ TuneEnds(w)
      PROVE  FALSE
  <2>1. ~FinishTune(w) /\ ~NextTrial(w) /\ ~LastStop(w) /\ ~TrialStep(w) /\ ~TuneEnds(w)
    BY <1>1, <1>2 DEF FinishTune, NextTrial, LastStop, TrialStep, TuneEnds, At
  <2>2. ~StartTune(w)
    BY <1>1, <1>2 DEF StartTune, Goto
  <2> QED
    BY <1>6, <2>1, <2>2
<1>7. ASSUME NEW w \in Tunes, CancelTune(w) PROVE Displayed'
  <2>1. /\ pc["ui"] = "idle" /\ dialog' = "none"
        /\ UNCHANGED <<net, zap, shown, app>>
    BY <1>7 DEF CancelTune, Idle
  <2>2. pc'["ui"] = pc["ui"] /\ cont'["ui"] = cont["ui"]
    BY <1>1, <1>7 DEF CancelTune, Ends, ctl
  <2> QED
    BY <2>1, <2>2 DEF Displayed, Idle, ActiveNow, net, zap
<1>8. ASSUME NEW v \in Tests, StartTest(v) \/ TestStep(v) \/ TestDone(v)
      PROVE  FALSE
  BY <1>1, <1>2, <1>8 DEF StartTest, TestStep, TestDone
<1>9. CASE CancelConfirm
  BY <1>1, <1>9 DEF CancelConfirm
<1> QED
  BY <1>3, <1>4, <1>5, <1>6, <1>7, <1>8, <1>9

LEMMA NextDisplay ==
    ASSUME TypeOK, Displayed, [Next]_vars
    PROVE  Displayed'
<1>1. CASE ~Alone'
  BY <1>1 DEF Displayed
<1>2. CASE Alone'
  <2>1. Alone
    BY <1>2, AloneBefore
  <2>2. CASE UNCHANGED vars
    BY <2>1, <2>2, SameDisplay DEF vars, win
  <2>3. ASSUME NEW t \in Threads \ {"ui"}, WinWs(t) PROVE FALSE
    BY <2>1, <2>3
       DEF Alone, WinWs, StopCheck, Terminate, Forget, Kill, Launch, Wait, At
  <2>4. ~ProcessEnds
    BY <1>2 DEF ProcessEnds, Alone
  <2>5. Tunes \subseteq Threads \ {"ui"} /\ Tests \subseteq Threads \ {"ui"}
    BY ThreadsAssumption DEF Threads
  <2>6. CASE Next /\ ~UNCHANGED vars
    BY <1>2, <2>1, <2>3, <2>4, <2>5, <2>6, WinWsDisplay, WindowDisplay, DialogDisplay
       DEF Next, Events, UiStep, TuneStep, Over
  <2> QED
    BY <2>2, <2>6
<1> QED
  BY <1>1, <1>2

\* While the user has started no thread of a dialog and no process has ended by
\* itself, the status shown between two events is the state of the engine, for
\* any presets and however often each handler runs.
THEOREM StatusIsActual == Spec => []ShownIsActual
<1>1. ASSUME Init PROVE Displayed
  <2>1. shown = FALSE /\ byedpi = "off" /\ winws = {} /\ tgws = FALSE /\ reg = FALSE
    BY <1>1 DEF Init
  <2>2. shown = ActiveNow
    BY <2>1 DEF ActiveNow, Active
  <2>3. dialog = "none" /\ cont["ui"] = "none" /\ pc["ui"] = "idle"
    BY <1>1 DEF Init, Threads
  <2> QED
    BY <2>2, <2>3 DEF Displayed
<1>2. TypeOK /\ Displayed /\ [Next]_vars => Displayed'
  BY NextDisplay
<1>3. Displayed => ShownIsActual
  BY DEF Displayed, ShownIsActual, Alone
<1> QED
  BY TypeCorrect, <1>1, <1>2, <1>3, PTL DEF Spec

=============================================================================
