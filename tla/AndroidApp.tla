------------------------------ MODULE AndroidApp ------------------------------
(***************************************************************************)
(* The interface of the Android application in proxy mode around the        *)
(* proxy-only service: the activity with its button, the quick settings     *)
(* tile, and the broadcasts that make both read appStatus again.            *)
(***************************************************************************)
EXTENDS ProxyService

VARIABLES
    activity,  \* what MainActivity shows, "gone" without one
    tile       \* qsTile.state

ui   == <<activity, tile>>
vars == <<serviceVars, ui>>

ASSUME ReceiversAssumption == Receivers = {"activity", "tile"}

TypeOK ==
    /\ ServiceTypeOK
    /\ activity \in {"gone", "Halted", "Connecting", "Running"}
    /\ tile \in {"INACTIVE", "ACTIVE", "UNAVAILABLE"}

Init ==
    /\ ServiceInit
    /\ activity = "gone"
    /\ tile = "INACTIVE"

TileFor(s) == IF s = "Halted" THEN "INACTIVE" ELSE "ACTIVE"

-----------------------------------------------------------------------------
(* Receivers: a broadcast only says that appStatus should be read again.    *)

Register(r) ==
    /\ r \notin registered
    /\ registered' = registered \cup {r}
    /\ UNCHANGED pending

Unregister(r) ==
    /\ r \in registered
    /\ registered' = registered \ {r}
    /\ pending' = [pending EXCEPT ![r] = 0]

Show(r) ==
    IF r = "activity"
      THEN activity' = appStatus /\ UNCHANGED tile
      ELSE tile' = TileFor(appStatus) /\ UNCHANGED activity

Receive_Unasked(r) ==
    /\ Ready
    /\ pending' = [pending EXCEPT ![r] = @ - 1]
    /\ Show(r)
    /\ UNCHANGED <<faults, inbox, static, object, lock, control, native,
                   registered, crashed>>

Receive(r) ==
    /\ Ready /\ pending[r] > 0
    /\ pending' = [pending EXCEPT ![r] = @ - 1]
    /\ Show(r)
    /\ UNCHANGED <<faults, inbox, static, object, lock, control, native,
                   registered, crashed>>

-----------------------------------------------------------------------------
(* MainActivity                                                            *)

UiStep == Ready /\ UNCHANGED <<faults, object, lock, native, crashed>>

Open ==
    /\ UiStep /\ Register("activity") /\ Show("activity")
    /\ UNCHANGED <<inbox, static, control>>

Close ==
    /\ UiStep /\ Unregister("activity") /\ activity' = "gone"
    /\ UNCHANGED <<inbox, static, control, tile>>

\* The button: start() shows Connecting before it sends the intent.
Press ==
    /\ UiStep /\ activity # "gone"
    /\ \/ /\ appStatus = "Halted"
          /\ appStatus' = "Connecting" /\ activity' = "Connecting"
          /\ SendStart
       \/ /\ appStatus # "Halted"
          /\ SendStop
          /\ UNCHANGED <<appStatus, activity>>
    /\ UNCHANGED <<status, target, cast, tile>>

-----------------------------------------------------------------------------
(* QuickTileService                                                        *)

StartListening ==
    /\ UiStep /\ Register("tile") /\ Show("tile")
    /\ UNCHANGED <<inbox, static, control>>

StopListening ==
    /\ UiStep /\ Unregister("tile")
    /\ UNCHANGED <<inbox, static, control, ui>>

TapIgnored == tile = "UNAVAILABLE"

\* onClick() and handleClick(): the tile stays unavailable until a broadcast.
Tap ==
    /\ UiStep /\ "tile" \in registered /\ ~TapIgnored
    /\ tile' = "UNAVAILABLE"
    /\ IF appStatus = "Halted" THEN SendStart ELSE SendStop
    /\ UNCHANGED <<static, target, cast, activity>>

-----------------------------------------------------------------------------
User == Open \/ Close \/ Press \/ StartListening \/ StopListening \/ Tap

Next ==
    \/ /\ ~crashed
       /\ \/ ServiceStep /\ UNCHANGED ui
          \/ \E r \in Receivers : Receive(r)
          \/ User
    \/ crashed /\ UNCHANGED vars

\* The dispatchers run what can run, the system delivers intents and
\* broadcasts; the user need not do anything.
Fairness ==
    /\ WF_vars(~crashed /\ OnDestroy /\ UNCHANGED ui)
    /\ \A c \in Calls :
         WF_vars(~crashed /\ (OnStart(c) \/ OnStop(c) \/ CallStep(c))
                          /\ UNCHANGED ui)
    /\ \A j \in Jobs :
         /\ WF_vars(~crashed /\ (RunProxy(j) \/ Reported(j) \/ Leave(j))
                             /\ UNCHANGED ui)
         /\ WF_vars(~crashed /\ sock[j] = "shut" /\ Listener(j) /\ UNCHANGED ui)
         /\ WF_vars(~crashed /\ pc[j] = "check" /\ CheckExit(j) /\ UNCHANGED ui)
    /\ \A r \in Receivers : WF_vars(~crashed /\ Receive(r))

Spec == Init /\ [][Next]_vars /\ Fairness

-----------------------------------------------------------------------------
(* Safety                                                                  *)

Listening(j) == sock[j] = "open"

\* The service has no call to handle and no job that is coming or going.
Idle ==
    /\ inbox = << >>
    /\ \A c \in Calls : pc[c] \in {"idle", "done"}
    /\ \A j \in Jobs : pc[j] \in {"idle", "running", "done"}

\* stop() finds a descriptor to shut down and a loop job a ByeDpiProxy without
\* one, whatever the clicks, when nothing goes wrong.
NoCrash == faults = {} => ~crashed

\* Every socket that accepts connections is the one that the service object
\* would shut down and whose job it would join: no start, stop or destruction
\* leaves an event loop behind that nobody can stop.
ListenerIsOwned ==
    faults = {} =>
        \A j \in Jobs : Listening(j) =>
            alive /\ fd = j /\ j \in mine /\ proxyJob \in {j, Null}

\* When the service has nothing to do, the static status tells whether the
\* proxy accepts connections, also after the object it describes is destroyed.
StatusIsTrue ==
    faults = {} /\ ~crashed /\ Idle =>
        (status = "Connected" <=> \E j \in Jobs : Listening(j))

\* When the service has nothing to do and every broadcast has been received,
\* the activity and the tile show the status of the service.
InterfaceIsTrue ==
    ~crashed /\ Idle /\ (\A r \in Receivers : pending[r] = 0) =>
        /\ appStatus = (IF status = "Connected" THEN "Running" ELSE "Halted")
        /\ activity \in {"gone", appStatus}
        /\ "tile" \in registered => tile = TileFor(appStatus)

-----------------------------------------------------------------------------
(* Liveness                                                                *)

\* Every intent is answered: stop() does not wait for ever for the mutex or for
\* the loop job, the application does not stay Connecting, and a tile that was
\* tapped can be tapped again.
CallsReturn ==
    /\ \A c \in Calls : pc[c] # "idle" ~> (pc[c] = "done" \/ crashed)
    /\ appStatus = "Connecting" ~> (appStatus # "Connecting" \/ crashed)
    /\ ("tile" \in registered /\ tile = "UNAVAILABLE") ~>
          ("tile" \notin registered \/ tile # "UNAVAILABLE" \/ crashed)

=============================================================================
