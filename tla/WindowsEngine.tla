---------------------------- MODULE WindowsEngine ----------------------------
(***************************************************************************)
(* The Windows application: the engine that starts and stops ciadpi         *)
(* (ByeDPI), winws (zapret, for Discord), the Telegram proxy and the system *)
(* SOCKS setting (core/engine.py and the services below it), the handlers   *)
(* of the main window that call it (main.py), and the threads of the        *)
(* Discord dialogs that start and stop winws at the same time.              *)
(*                                                                         *)
(* Handlers run on the Tk thread, one after another.  Only winws is shared  *)
(* with other threads: its start() and stop() are several steps, and what a *)
(* handler does before, between and after them is one step.                 *)
(***************************************************************************)
EXTENDS Naturals, FiniteSets

CONSTANTS
    Presets,   \* presets of winws
    Tunes,     \* benchmark threads, one for each opening of the tune dialog
    Tests,     \* threads of "test this preset" in the dialog that follows
    Trials,    \* most tests of one benchmark: every preset, then the finalists
    Crashes,   \* whether processes may end by themselves
    Null

Threads == {"ui"} \cup Tunes \cup Tests

ASSUME ThreadsAssumption ==
    /\ "ui" \notin Tunes \cup Tests /\ Tunes \cap Tests = {}
    /\ {"none", "confirm"} \cap (Tunes \cup Tests) = {}
ASSUME PresetsAssumption == Presets # {} /\ Null \notin Presets
ASSUME TrialsAssumption == Trials \in Nat \ {0} /\ Crashes \in BOOLEAN

Components == {"byedpi", "discord", "tgws", "sys_proxy"}

VARIABLES
    sw,        \* the switches of the window, which _read_config() turns into cfg
    byedpi,    \* ByeDpiService: "off", "on", or "dead", ended by itself
    tgws,      \* the thread of the Telegram proxy is alive
    reg,       \* ProxyEnable in the registry
    launcher,  \* WinWsService._launcher, or Null
    winws,     \* the winws processes, by preset
    pc,        \* where each thread is
    cont,      \* what a thread does after start() or stop() of winws
    arg,       \* the preset that start() was called with, Null in stop()
    shown,     \* the state that _refresh_status() displayed last
    dialog,    \* "none", the benchmark of the open dialog, or the dialog that
               \* follows: "confirm", or the test that it waits for
    timer,     \* _try_auto_enable() is still to be called
    cancel,    \* the Event of each benchmark
    left,      \* tests that a benchmark has still to do
    app,       \* "running", "quitting", "ended", or "exited"
    died       \* auxiliary: a process has ended by itself

net  == <<byedpi, tgws, reg>>
zap  == <<launcher, winws>>
ctl  == <<pc, cont, arg>>
win  == <<sw, shown, dialog, timer, app>>
tune == <<cancel, left>>
vars == <<net, zap, ctl, win, tune, died>>

Labels == {"new", "opened", "idle", "next", "stop", "terminate", "forget", "kill",
           "launch", "wait", "ok", "raised", "posted", "done"}

Conts == {"none", "startAll", "stopAll", "auto", "quit", "switchOn", "switchOff",
          "openDiscord", "try", "confirm", "gap", "trial", "final"}

NetTypes == byedpi \in {"off", "on", "dead"} /\ tgws \in BOOLEAN /\ reg \in BOOLEAN

ZapTypes == launcher \in Presets \cup {Null} /\ winws \subseteq Presets

CtlTypes ==
    /\ pc \in [Threads -> Labels]
    /\ cont \in [Threads -> Conts]
    /\ arg \in [Threads -> Presets \cup {Null}]

WinTypes ==
    /\ sw \in [Components -> BOOLEAN]
    /\ shown \in BOOLEAN /\ timer \in BOOLEAN
    /\ dialog \in {"none", "confirm"} \cup Tunes \cup Tests
    /\ app \in {"running", "quitting", "ended", "exited"}

TuneTypes == cancel \in [Tunes -> BOOLEAN] /\ left \in [Tunes -> 0 .. Trials]

TypeOK ==
    /\ NetTypes /\ ZapTypes /\ CtlTypes /\ WinTypes /\ TuneTypes
    /\ died \in BOOLEAN

Active_ByProcess(b, w, t, r) == b = "on" \/ w # {} \/ t

\* engine.active: also the system setting counts.
Active(b, w, t, r) == b = "on" \/ w # {} \/ t \/ r

ActiveNow == Active(byedpi, winws, tgws, reg)

\* _refresh_status() at the end of a handler
Refresh == shown' = Active(byedpi', winws, tgws', reg')

Init ==
    /\ sw \in {s \in [Components -> BOOLEAN] : s["sys_proxy"] => s["byedpi"]}
    /\ byedpi = "off" /\ tgws = FALSE /\ reg = FALSE
    /\ launcher = Null /\ winws = {}
    /\ pc = [t \in Threads |-> IF t = "ui" THEN "idle" ELSE "new"]
    /\ cont = [t \in Threads |-> "none"]
    /\ arg = [t \in Threads |-> Null]
    /\ shown = FALSE
    /\ dialog = "none"
    /\ timer \in BOOLEAN
    /\ cancel = [w \in Tunes |-> FALSE]
    /\ left \in [Tunes -> 1 .. Trials]
    /\ app = "running"
    /\ died = FALSE

Goto(t, l) == pc' = [pc EXCEPT ![t] = l] /\ UNCHANGED <<cont, arg>>

Ends(t, l) ==
    /\ pc' = [pc EXCEPT ![t] = l]
    /\ cont' = [cont EXCEPT ![t] = "none"]
    /\ arg' = [arg EXCEPT ![t] = Null]

\* Thread t calls winws.start(p), or winws.stop() if p is Null, and then does c.
Call(t, p, c) ==
    /\ pc' = [pc EXCEPT ![t] = "stop"]
    /\ cont' = [cont EXCEPT ![t] = c]
    /\ arg' = [arg EXCEPT ![t] = p]

\* Thread t goes on with c at once.
Skip(t, c) ==
    /\ pc' = [pc EXCEPT ![t] = "ok"]
    /\ cont' = [cont EXCEPT ![t] = c]
    /\ arg' = [arg EXCEPT ![t] = Null]

-----------------------------------------------------------------------------
(* WinWsService.start() and stop(), in any thread                          *)

At(t, l) == pc[t] = l /\ app # "exited" /\ UNCHANGED <<net, win, tune, died>>

StopCheck(t) ==
    /\ At(t, "stop")
    /\ Goto(t, IF launcher \in winws THEN "terminate" ELSE "forget")
    /\ UNCHANGED zap

\* Another thread may have cleared _launcher since the check: AttributeError.
Terminate(t) ==
    /\ At(t, "terminate")
    /\ winws' = winws \ {launcher}
    /\ Goto(t, IF launcher = Null THEN "raised" ELSE "forget")
    /\ UNCHANGED launcher

Forget(t) ==
    /\ At(t, "forget")
    /\ launcher' = Null
    /\ Goto(t, "kill")
    /\ UNCHANGED winws

\* taskkill ends every winws.exe, whoever started it; stop() returns to start().
Kill(t) ==
    /\ At(t, "kill")
    /\ winws' = {}
    /\ Goto(t, IF arg[t] = Null THEN "ok" ELSE "launch")
    /\ UNCHANGED launcher

\* No winws.exe, no administrator, no such preset, or a process.
Launch(t) ==
    /\ At(t, "launch")
    /\ \/ Goto(t, "raised") /\ UNCHANGED zap
       \/ Goto(t, "wait") /\ launcher' = arg[t] /\ winws' \in {winws, winws \cup {arg[t]}}

Wait_NoTimeout(t) ==
    /\ At(t, "wait") /\ UNCHANGED zap
    /\ Goto(t, IF winws # {} THEN "ok" ELSE "wait")

\* _wait_for_winws() looks for any winws.exe.
Wait(t) ==
    /\ At(t, "wait")
    /\ IF winws # {}
         THEN Goto(t, "ok") /\ UNCHANGED zap
         ELSE Goto(t, "raised") /\ launcher' = Null /\ UNCHANGED winws

WinWs(t) ==
    \/ StopCheck(t) \/ Terminate(t) \/ Forget(t) \/ Kill(t) \/ Launch(t) \/ Wait(t)

-----------------------------------------------------------------------------
(* The handlers of the main window                                         *)

Idle == app = "running" /\ pc["ui"] = "idle"

\* No dialog has grabbed the input.
Unlocked == Idle /\ dialog = "none"

Returned(c) == pc["ui"] = "ok" /\ cont["ui"] = c /\ Ends("ui", "idle")

Raised(c) == pc["ui"] = "raised" /\ cont["ui"] = c /\ Ends("ui", "idle")

Set(c, b) == sw' = [sw EXCEPT ![c] = b]

StopByeDpi_KeepsProxy == byedpi' = "off" /\ UNCHANGED reg

\* stop_component(BYEDPI): whatever cfg.enable_sys_proxy is, the setting goes.
StopByeDpi == byedpi' = "off" /\ reg' = FALSE

\* start_component(BYEDPI): the setting follows when the process was started.
StartByeDpi ==
    IF byedpi = "on"
      THEN UNCHANGED <<byedpi, reg>>
      ELSE byedpi' = "on" /\ reg' = (reg \/ sw["sys_proxy"])

SwitchOff(c) ==
    /\ Unlocked /\ sw[c] /\ c # "discord"
    /\ IF c = "byedpi" THEN sw' = [sw EXCEPT !["byedpi"] = FALSE, !["sys_proxy"] = FALSE]
                       ELSE Set(c, FALSE)
    /\ CASE c = "byedpi"    -> StopByeDpi /\ UNCHANGED tgws
         [] c = "tgws"      -> tgws' = FALSE /\ UNCHANGED <<byedpi, reg>>
         [] c = "sys_proxy" -> reg' = FALSE /\ UNCHANGED <<byedpi, tgws>>
    /\ Refresh
    /\ UNCHANGED <<zap, ctl, dialog, timer, app, tune, died>>

\* A start that fails is reported and the switch goes back.  The switch of the
\* system setting is disabled while that of ByeDPI is off.
SwitchOn(c) ==
    /\ Unlocked /\ ~sw[c] /\ c # "discord"
    /\ c = "sys_proxy" => sw["byedpi"]
    /\ \/ UNCHANGED <<net, sw>>
       \/ /\ Set(c, TRUE)
          /\ CASE c = "byedpi"    -> StartByeDpi /\ UNCHANGED tgws
               [] c = "tgws"      -> tgws' = TRUE /\ UNCHANGED <<byedpi, reg>>
               [] c = "sys_proxy" -> byedpi' = "on" /\ reg' = TRUE /\ UNCHANGED tgws
    /\ Refresh
    /\ UNCHANGED <<zap, ctl, dialog, timer, app, tune, died>>

\* The switch of Discord; winws is not started when one is found running.
SwitchDiscord ==
    /\ Unlocked
    /\ Set("discord", ~sw["discord"])
    /\ IF sw["discord"]
         THEN Call("ui", Null, "switchOff")
         ELSE \/ winws # {} /\ Skip("ui", "switchOn")
              \/ winws = {} /\ \E p \in Presets : Call("ui", p, "switchOn")
    /\ UNCHANGED <<net, zap, shown, dialog, timer, app, tune, died>>

DiscordSwitched ==
    /\ \/ Returned("switchOn") /\ UNCHANGED sw
       \/ Returned("switchOff") /\ UNCHANGED sw
       \/ Raised("switchOn") /\ Set("discord", FALSE)
       \/ Raised("switchOff") /\ Set("discord", TRUE)
    /\ UNCHANGED <<net, zap, dialog, timer, app, tune, died>>
    /\ Refresh

\* _start_engine() up to DISCORD: the validation or ByeDPI fails, or it goes on.
StartEngine ==
    \/ Ends("ui", "idle") /\ UNCHANGED net /\ Refresh
    \/ /\ \E c \in Components : sw[c]
       /\ IF sw["byedpi"] THEN StartByeDpi ELSE UNCHANGED <<byedpi, reg>>
       /\ IF sw["discord"] /\ winws = {}
            THEN \E p \in Presets : Call("ui", p, "startAll")
            ELSE Skip("ui", "startAll")
       /\ UNCHANGED <<tgws, shown>>

\* The rest of engine.start(), TGWS and SYS_PROXY, or what fails there.
StartRest ==
    /\ Returned("startAll")
    /\ \/ sw["tgws"] /\ ~tgws /\ UNCHANGED net
       \/ /\ tgws' = (tgws \/ sw["tgws"])
          /\ \/ ~sw["sys_proxy"] /\ UNCHANGED <<byedpi, reg>>
             \/ sw["sys_proxy"] /\ byedpi' = "on" /\ reg' = TRUE
             \/ sw["sys_proxy"] /\ byedpi # "on" /\ UNCHANGED <<byedpi, reg>>
    /\ UNCHANGED <<zap, sw, dialog, timer, app, tune, died>>
    /\ Refresh

Failed_NoRefresh == UNCHANGED shown

\* The handler of an exception refreshes the status as well.
Failed == Refresh

\* winws raised: what was started before goes on, the rest is not started.
StartFails ==
    /\ Raised("startAll")
    /\ UNCHANGED <<net, zap, sw, dialog, timer, app, tune, died>>
    /\ Failed

\* The main button, or the menu of the tray, which no dialog locks.
Toggle ==
    /\ Idle
    /\ IF ActiveNow
         THEN /\ reg' = FALSE
              /\ Call("ui", Null, "stopAll")
              /\ UNCHANGED <<byedpi, tgws, shown>>
         ELSE StartEngine
    /\ UNCHANGED <<zap, sw, dialog, timer, app, tune, died>>

StopRest ==
    /\ \/ Returned("stopAll") /\ tgws' = FALSE /\ StopByeDpi
       \/ Raised("stopAll") /\ UNCHANGED net
    /\ UNCHANGED <<zap, sw, dialog, timer, app, tune, died>>
    /\ Refresh

\* _try_auto_enable(): winws first if the application was started by Windows.
AutoEnable ==
    /\ Idle /\ timer
    /\ timer' = FALSE
    /\ \/ UNCHANGED ctl
       \/ ~ActiveNow /\ sw["discord"] /\ \E p \in Presets : Call("ui", p, "auto")
       \/ ~ActiveNow /\ Skip("ui", "auto")
    /\ UNCHANGED <<net, zap, sw, shown, dialog, app, tune, died>>

\* autostart_discord() swallows exceptions.
AutoStart ==
    /\ pc["ui"] \in {"ok", "raised"} /\ cont["ui"] = "auto"
    /\ StartEngine
    /\ UNCHANGED <<zap, sw, dialog, timer, app, tune, died>>

OpenTg ==
    /\ Unlocked
    /\ Set("tgws", TRUE)
    /\ UNCHANGED <<byedpi, reg>>
    /\ \/ UNCHANGED <<tgws, shown>>
       \/ tgws' = TRUE /\ Refresh
    /\ UNCHANGED <<zap, ctl, dialog, timer, app, tune, died>>

\* _quit_app(): the dialogs are destroyed, which cancels a benchmark.
Quit ==
    /\ Idle
    /\ dialog' = "none"
    /\ cancel' = [w \in Tunes |-> cancel[w] \/ w = dialog]
    /\ LET closed == [t \in Threads |->
                        IF t = dialog /\ pc[t] \in {"opened", "posted"} THEN "done" ELSE pc[t]]
       IN  IF ~ActiveNow
             THEN app' = "ended" /\ pc' = closed /\ UNCHANGED <<reg, cont, arg>>
             ELSE /\ app' = "quitting"
                  /\ reg' = FALSE
                  /\ pc' = [closed EXCEPT !["ui"] = "stop"]
                  /\ cont' = [cont EXCEPT !["ui"] = "quit"]
                  /\ arg' = [arg EXCEPT !["ui"] = Null]
    /\ UNCHANGED <<byedpi, tgws, zap, sw, shown, timer, left, died>>

\* The main loop ends; when stop() raised it does not, and _quitting stays set.
QuitRest ==
    /\ \/ Returned("quit") /\ tgws' = FALSE /\ StopByeDpi /\ app' = "ended"
       \/ Raised("quit") /\ UNCHANGED <<net, app>>
    /\ UNCHANGED <<zap, sw, shown, dialog, timer, tune, died>>

\* The interpreter exits and takes the daemon threads with it.
Exit ==
    /\ app = "ended" /\ app' = "exited"
    /\ UNCHANGED <<net, zap, ctl, sw, shown, dialog, timer, tune, died>>

-----------------------------------------------------------------------------
(* The dialogs for Discord and their threads                               *)

\* A new dialog names an unused benchmark; which one makes no difference.
NewTune(w) == pc[w] = "new" /\ w = CHOOSE v \in Tunes : pc[v] = "new"

OpenDiscord ==
    /\ Unlocked /\ \E w \in Tunes : NewTune(w)
    /\ Set("discord", TRUE)
    /\ \/ UNCHANGED ctl
       \/ winws # {} /\ Skip("ui", "openDiscord")
       \/ winws = {} /\ \E p \in Presets : Call("ui", p, "openDiscord")
    /\ UNCHANGED <<net, zap, shown, dialog, timer, app, tune, died>>

DiscordOpened ==
    /\ cont["ui"] = "openDiscord"
    /\ \/ /\ pc["ui"] = "ok"
          /\ \E w \in Tunes :
                /\ NewTune(w)
                /\ dialog' = w
                /\ pc' = [pc EXCEPT !["ui"] = "idle", ![w] = "opened"]
          /\ cont' = [cont EXCEPT !["ui"] = "none"]
          /\ arg' = [arg EXCEPT !["ui"] = Null]
          /\ UNCHANGED <<net, zap>> /\ Refresh
       \/ Raised("openDiscord") /\ UNCHANGED <<net, zap, dialog, shown>>
    /\ UNCHANGED <<sw, timer, app, tune, died>>

StartTune(w) ==
    /\ Idle /\ dialog = w /\ pc[w] = "opened"
    /\ Goto(w, "next")
    /\ UNCHANGED <<net, zap, win, tune, died>>

\* A result that was posted to a destroyed dialog is dropped.
CancelTune(w) ==
    /\ Idle /\ dialog = w
    /\ dialog' = "none"
    /\ cancel' = [cancel EXCEPT ![w] = TRUE]
    /\ IF pc[w] \in {"opened", "posted"} THEN Ends(w, "done") ELSE UNCHANGED ctl
    /\ UNCHANGED <<net, zap, sw, shown, timer, app, left, died>>

FinishTune(w) ==
    /\ Idle /\ dialog = w /\ pc[w] = "posted"
    /\ dialog' = "confirm"
    /\ Ends(w, "done")
    /\ UNCHANGED <<net, zap, sw, shown, timer, app, tune, died>>

GivesUp_IfCancelled(w) == cancel[w]

\* The loops over the presets and over the finalists.
GivesUp(w) == left[w] = 0 \/ cancel[w]

NextTrial(w) ==
    /\ At(w, "next") /\ ~GivesUp(w)
    /\ Call(w, Null, "gap")
    /\ UNCHANGED zap

\* _quick_score() and _full_score() call stop() and then start_preset(); what
\* they raise is a score of 0.
TrialStep(w) ==
    /\ app # "exited"
    /\ \/ pc[w] = "ok" /\ cont[w] = "gap" /\ UNCHANGED left
          /\ \E p \in Presets : Call(w, p, "trial")
       \/ /\ pc[w] \in {"ok", "raised"}
          /\ cont[w] = "trial" \/ (cont[w] = "gap" /\ pc[w] = "raised")
          /\ left' = [left EXCEPT ![w] = @ - 1]
          /\ Ends(w, "next")
    /\ UNCHANGED <<net, zap, win, cancel, died>>

\* The finally clause stops winws, whoever has started it meanwhile.
LastStop(w) ==
    /\ At(w, "next") /\ GivesUp(w)
    /\ Call(w, Null, "final")
    /\ UNCHANGED zap

TuneEnds(w) ==
    /\ app # "exited" /\ cont[w] = "final"
    /\ \/ pc[w] = "ok" /\ dialog = w /\ Ends(w, "posted")
       \/ pc[w] = "ok" /\ dialog # w /\ Ends(w, "done")
       \/ pc[w] = "raised" /\ Ends(w, "done")
    /\ UNCHANGED <<net, zap, win, tune, died>>

StartTest(v) ==
    /\ Idle /\ dialog = "confirm" /\ pc[v] = "new"
    /\ dialog' = v
    /\ Call(v, Null, "gap")
    /\ UNCHANGED <<net, zap, sw, shown, timer, app, tune, died>>

TestStep(v) ==
    /\ app # "exited"
    /\ IF pc[v] = "ok" /\ cont[v] = "gap"
         THEN \E p \in Presets : Call(v, p, "trial")
         ELSE /\ pc[v] \in {"ok", "raised"}
              /\ Ends(v, IF dialog = v THEN "posted" ELSE "done")
    /\ UNCHANGED <<net, zap, win, tune, died>>

TestDone(v) ==
    /\ Idle /\ dialog = v /\ pc[v] = "posted"
    /\ dialog' = "confirm"
    /\ Ends(v, "done")
    /\ UNCHANGED <<net, zap, sw, shown, timer, app, tune, died>>

\* "Open Discord (test)" and "Apply": both start winws anew.
Apply ==
    /\ Idle /\ dialog = "confirm"
    /\ \E p \in Presets, c \in {"try", "confirm"} : Call("ui", p, c)
    /\ UNCHANGED <<net, zap, win, tune, died>>

\* Discord may fail to start afterwards, which leaves the dialog open.
Applied ==
    /\ UNCHANGED <<net, zap, sw, timer, app, tune, died>>
    /\ \/ Returned("confirm") /\ dialog' = "none" /\ Refresh
       \/ Returned("confirm") /\ UNCHANGED <<dialog, shown>>
       \/ Returned("try") /\ UNCHANGED <<dialog, shown>>
       \/ \E c \in {"try", "confirm"} : Raised(c) /\ UNCHANGED <<dialog, shown>>

\* The dialog may be closed while it waits for a test, which goes on.
CancelConfirm ==
    /\ Idle /\ dialog \in {"confirm"} \cup Tests /\ dialog' = "none"
    /\ IF dialog \in Tests /\ pc[dialog] = "posted"
         THEN Ends(dialog, "done")
         ELSE UNCHANGED ctl
    /\ UNCHANGED <<net, zap, sw, shown, timer, app, tune, died>>

-----------------------------------------------------------------------------
\* A process ends by itself.
ProcessEnds ==
    /\ Crashes /\ app # "exited" /\ died' = TRUE
    /\ \/ byedpi = "on" /\ byedpi' = "dead" /\ UNCHANGED <<tgws, winws>>
       \/ tgws /\ tgws' = FALSE /\ UNCHANGED <<byedpi, winws>>
       \/ \E p \in winws : winws' = winws \ {p} /\ UNCHANGED <<byedpi, tgws>>
    /\ UNCHANGED <<reg, launcher, ctl, win, tune>>

Events ==
    \/ \E c \in Components : SwitchOn(c) \/ SwitchOff(c)
    \/ SwitchDiscord \/ Toggle \/ AutoEnable \/ OpenTg \/ OpenDiscord \/ Quit
    \/ \E w \in Tunes : StartTune(w) \/ CancelTune(w) \/ FinishTune(w)
    \/ \E v \in Tests : StartTest(v) \/ TestDone(v)
    \/ Apply \/ CancelConfirm \/ ProcessEnds

UiStep ==
    \/ WinWs("ui")
    \/ DiscordSwitched \/ StartRest \/ StartFails \/ StopRest \/ AutoStart
    \/ DiscordOpened \/ Applied \/ QuitRest \/ Exit

TuneStep(w) == WinWs(w) \/ NextTrial(w) \/ TrialStep(w) \/ LastStop(w) \/ TuneEnds(w)

\* The program has exited, or its window is stuck and no thread is left.
Over ==
    /\ \/ app = "exited"
       \/ /\ app = "quitting" /\ pc["ui"] = "idle"
          /\ \A t \in Threads \ {"ui"} : pc[t] \in {"new", "done"}
    /\ UNCHANGED vars

Next ==
    \/ Events \/ UiStep
    \/ \E w \in Tunes : TuneStep(w)
    \/ \E v \in Tests : WinWs(v) \/ TestStep(v)
    \/ Over

Spec ==
    /\ Init /\ [][Next]_vars
    /\ WF_vars(UiStep)
    /\ \A w \in Tunes : WF_vars(TuneStep(w))
    /\ \A v \in Tests : WF_vars(WinWs(v) \/ TestStep(v))

-----------------------------------------------------------------------------
(* Properties                                                              *)

\* The system setting sends the browsers to ByeDPI only while the engine has a
\* ByeDPI process, running or ended by itself: through partial starts, failed
\* stops, switches, the tray and quitting, never to a port nobody was started
\* on (the order of engine.start() and engine.stop()).
SysProxyServed == reg => byedpi # "off"

\* A program that has quit leaves neither ciadpi nor the system setting behind,
\* although a benchmark may still run.
QuitLeavesNetwork == app \in {"ended", "exited"} => ~reg /\ byedpi # "on"

\* With no thread of a dialog started and no process ended by itself, the status
\* shown between two events, and with it what the main button will do, is the
\* state of the engine: every handler that changes it refreshes, also when it
\* fails half-way.
ShownIsActual ==
    /\ Idle /\ ~died
    /\ \A t \in Threads \ {"ui"} : pc[t] \in {"new", "opened"}
    => shown = ActiveNow

\* A benchmark that was cancelled ends, whatever the other threads do to winws,
\* unless the program exits before.
CancelledEnds == \A w \in Tunes : cancel[w] ~> pc[w] = "done" \/ app = "exited"

=============================================================================
