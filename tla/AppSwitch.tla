------------------------------ MODULE AppSwitch ------------------------------
(***************************************************************************)
(* framework/system/app_switcher.c with its users: the main thread, which  *)
(* performs every switch, and the firmware upgrade application             *)
(* (bt_earphone/src/ota/ota_app_foreground.c), whose two threads lock and  *)
(* unlock the switcher.                                                    *)
(*                                                                         *)
(* app_switch holds app_switch_mutex while app_manager_active_app waits    *)
(* for the current application to exit; only main holds it across steps.   *)
(* app_manager is what AppManager shows of it: the application receives    *)
(* MSG_EXIT_APP, leaves, and only then is the next thread created.  A name *)
(* is one entry of app_id_list (none of them begins with another), 0xff is *)
(* NoApp.  app_switch without a name is only called by MSG_START_APP, that *)
(* is with force, and only for APP_SWITCH_LAST.                            *)
(***************************************************************************)
EXTENDS Naturals, Sequences, FiniteSets

CONSTANTS Apps,       \* app_id_list
          Ota, BtCall, BtMusic, ApRecord,
          NoApp,
          Plugged,    \* the applications system_app_launch adds
          Launched,   \* its default_app
          QBound,     \* bound: messages pending at main
          Windows     \* the races and failures that are let happen

\* What the code relies on and does not ensure:
\*   start        main takes no message before a new ota application locked
\*   end          main has no message pending when an upgrade ends
\*   pool         the message pool has an entry for a message to main, and for
\*                what ota sends itself
\*   exit_lost    and for the exit message of the current application
\*   start_fails  a thread can always be created
\*   nomem        ota_init gets its memory
\*   reconnect    the peer does not connect again during an upgrade
\*   poweroff     nor is the power switched off then
AllWindows == {"start", "end", "pool", "exit_lost", "start_fails", "nomem",
               "reconnect", "poweroff"}

ASSUME AppsAssumption ==
    /\ {Ota, BtCall, BtMusic, ApRecord} \subseteq Apps
    /\ Ota \notin {BtCall, BtMusic, ApRecord}
    /\ IsFiniteSet(Apps) /\ NoApp \notin Apps
    /\ Plugged \subseteq Apps /\ BtMusic \in Plugged
    /\ Launched \in Apps \ {Ota}
ASSUME QBoundAssumption == QBound \in Nat \ {0}
ASSUME WindowsAssumption == Windows \subseteq AllWindows

VARIABLES
    locked, force_locked,    \* the only reason in use is 1
    cur_index, last_index, pluged, app_actived_num,
    queue,                   \* messages pending at main
    mpc,                     \* where main is
    actived_app, app, inbox, \* the foreground application and its thread
    ota_data,                \* ota_thread_data
    upgrade, dongle,         \* its thread upgrades, or serves a dongle for ever
    data_chan,               \* data_chan_phone_value says dongle (0xf5)
    wake,                    \* FULL_WAKE_LOCKs of the upgrade
    displaced                \* history: what ran when ota was switched to

lockVars == <<locked, force_locked>>
indexVars == <<cur_index, last_index>>
plugVars == <<pluged, app_actived_num>>
appVars == <<actived_app, app, inbox>>
threadVars == <<ota_data, upgrade, dongle>>
otaVars == <<ota_data, upgrade, dongle, data_chan, wake>>
vars == <<locked, force_locked, cur_index, last_index, pluged,
          app_actived_num, queue, mpc, actived_app, app, inbox,
          ota_data, upgrade, dongle, data_chan, wake, displaced>>

Start(a) == [type |-> "start", app |-> a]
Other(t) == [type |-> t, app |-> NoApp]
Messages ==
    {Start(a) : a \in Apps} \cup
    {Other(t) : t \in {"last", "record_on", "record_off", "tws", "poweroff"}}

\* app_switch_init
Init ==
    /\ locked = FALSE /\ force_locked = FALSE
    /\ cur_index = NoApp /\ last_index = NoApp
    /\ pluged = {} /\ app_actived_num = 0
    /\ queue = <<>> /\ mpc = "launch"
    /\ actived_app = NoApp /\ app = "none" /\ inbox = <<>>
    /\ ota_data = FALSE /\ upgrade = FALSE /\ dongle = FALSE
    /\ data_chan = FALSE /\ wake = 0 /\ displaced = NoApp

Open(w) == w \in Windows

\* app_switch_mutex: main keeps it until the application is switched.
MutexFree == mpc \notin {"switch", "wait"}

-----------------------------------------------------------------------------
(* app_switch                                                              *)

\* app_switch_add_app, of some applications.
app_switch_add_app(add) ==
    /\ pluged' = pluged \cup add
    /\ app_actived_num' = app_actived_num + Cardinality(add \ pluged)

\* Mutant: nobody looks at force_locked.
Refused_NoForceLock(name, force) ==
    \/ name # NoApp /\ name = actived_app
    \/ locked /\ ~force
    \/ app_actived_num' <= 1 /\ cur_index \in pluged' /\ ~force

\* The early returns.
Refused(name, force) ==
    \/ force_locked
    \/ name # NoApp /\ name = actived_app
    \/ locked /\ ~force
    \/ app_actived_num' <= 1 /\ cur_index \in pluged' /\ ~force

\* target_app_index, the last application for a null name; NoApp means that
\* there is nothing to switch to.  (A last_index of 0xff would be used as an
\* index of app_list, but ReturnsFromOta shows that it is not.)
Wanted(name, force) ==
    CASE name = NoApp -> last_index
      [] name # NoApp /\ (name \in pluged' \/ force) -> name
      [] OTHER -> NoApp

\* Mutant: the index moves although the switch is refused.
app_switch_MovesFirst(name, force) ==
    LET t == Wanted(name, force) IN
    IF t = cur_index \/ t = NoApp
    THEN UNCHANGED indexVars /\ mpc' = "idle"
    ELSE /\ last_index' = cur_index /\ cur_index' = t
         /\ mpc' = IF Refused(name, force) THEN "idle" ELSE "switch"

\* Mutant: last_index is not kept.
app_switch_NoLast(name, force) ==
    LET t == Wanted(name, force) IN
    IF Refused(name, force) \/ t = cur_index \/ t = NoApp
    THEN UNCHANGED indexVars /\ mpc' = "idle"
    ELSE /\ last_index' = last_index /\ cur_index' = t
         /\ mpc' = "switch"

\* Up to the call of app_manager_active_app; cur_index moves before it.
app_switch(name, force) ==
    LET t == Wanted(name, force) IN
    IF Refused(name, force) \/ t = cur_index \/ t = NoApp
    THEN UNCHANGED indexVars /\ mpc' = "idle"
    ELSE /\ last_index' = cur_index /\ cur_index' = t
         /\ mpc' = "switch"

\* The end of app_manager_active_app: the thread is created, if it can be.
StartApp(t) ==
    /\ actived_app' \in {t} \cup (IF Open("start_fails") THEN {NoApp} ELSE {})
    /\ app' = IF actived_app' = NoApp THEN "none" ELSE "start"
    /\ inbox' = <<>>

\* An application's message queue after a send_async_msg that may find the
\* pool empty.
Sent(m, window) == {Append(inbox, m)} \cup (IF Open(window) THEN {inbox} ELSE {})

\* app_manager_active_app: the current application has to exit first.  If the
\* exit message is lost nobody notices: init_app is refused, the application
\* stays, and cur_index has moved.
ActiveApp ==
    /\ mpc = "switch"
    /\ CASE actived_app = cur_index ->
              mpc' = "idle" /\ UNCHANGED appVars
         [] actived_app = NoApp ->
              mpc' = "idle" /\ StartApp(cur_index)
         [] OTHER ->
              /\ inbox' \in Sent("exit", "exit_lost")
              /\ mpc' = IF inbox' = inbox THEN "idle" ELSE "wait"
              /\ UNCHANGED <<actived_app, app>>
    /\ displaced' = IF cur_index = Ota THEN actived_app ELSE displaced
    /\ UNCHANGED <<lockVars, indexVars, plugVars, queue, otaVars>>

\* The application has exited.
Waited ==
    /\ mpc = "wait" /\ actived_app = NoApp
    /\ mpc' = "idle" /\ StartApp(cur_index)
    /\ UNCHANGED <<lockVars, indexVars, plugVars, queue, otaVars, displaced>>

-----------------------------------------------------------------------------
(* The main thread.                                                        *)

\* system_app_launch; if default_app is not there, btmusic is started.
Launch ==
    /\ mpc = "launch"
    /\ app_switch_add_app(Plugged)
    /\ app_switch(IF Launched \in Plugged THEN Launched ELSE BtMusic, FALSE)
    /\ UNCHANGED <<lockVars, queue, appVars, otaVars, displaced>>

\* record_slave_status_set
record_slave_status_set(start) ==
    /\ IF start
       THEN IF actived_app \notin {NoApp, ApRecord}
            THEN app_switch_add_app({ApRecord}) /\ app_switch(ApRecord, FALSE)
            ELSE UNCHANGED <<indexVars, plugVars, mpc>>
       ELSE IF actived_app = ApRecord
            THEN app_switch_add_app({BtMusic}) /\ app_switch(BtMusic, FALSE)
            ELSE UNCHANGED <<indexVars, plugVars, mpc>>
    /\ UNCHANGED <<locked, inbox>>

\* A slave's TWS connection: "tws" is not in app_id_list, so app_switch to it
\* does nothing, then app_switch_lock.
TwsConnected ==
    locked' = TRUE /\ UNCHANGED <<indexVars, plugVars, mpc, inbox>>

\* system_app_enter_poweroff: app_manager_active_app(APP_ID_ILLEGAL)
EnterPowerOff ==
    /\ mpc' = "off"
    /\ inbox' \in IF actived_app = NoApp THEN {inbox} ELSE Sent("exit", "exit_lost")
    /\ UNCHANGED <<locked, indexVars, plugVars>>

\* MSG_START_APP and the events that make main call app_switch; those of
\* the bluetooth manager and of keys do it with force.
Handle(m) ==
    CASE m.type \in {"start", "last"} ->
           UNCHANGED <<locked, plugVars, inbox>> /\ app_switch(m.app, TRUE)
      [] m.type \in {"record_on", "record_off"} ->
           record_slave_status_set(m.type = "record_on")
      [] m.type = "tws" -> TwsConnected
      [] m.type = "poweroff" -> EnterPowerOff

Receive ==
    /\ mpc = "idle" /\ queue # <<>>
    /\ Open("start") \/ actived_app # Ota \/ app # "start"
    /\ queue' = Tail(queue)
    /\ Handle(Head(queue))
    /\ UNCHANGED <<force_locked, actived_app, app, otaVars, displaced>>

Main == Launch \/ ActiveApp \/ Waited \/ Receive

-----------------------------------------------------------------------------
(* The other threads.                                                      *)

\* A message to main, which is lost when the pool is empty.
Posted(m) ==
    queue' \in {Append(queue, m)} \cup (IF Open("pool") THEN {queue} ELSE {})

\* What any thread may ask of main.
Requests ==
    {Start(a) : a \in Apps \ {Ota}}
      \cup {Other("record_on"), Other("record_off"), Other("tws")}

\* A sender is told when there is no room.
Post(m) ==
    /\ mpc # "off"
    /\ Open("end") \/ ~force_locked \/ queue = <<>>
    /\ IF Len(queue) < QBound THEN Posted(m) ELSE UNCHANGED queue
    /\ UNCHANGED <<lockVars, indexVars, plugVars, mpc, appVars, otaVars, displaced>>

\* Whether an upgrade is asked for or under way.
Upgrading == wake > 0 \/ Ota \in {actived_app, cur_index}

PostPowerOff ==
    /\ Open("poweroff") \/ ~Upgrading
    /\ Post(Other("poweroff"))

\* A phone connects: over BLE, which sets the data channel, or SPP, which leaves
\* it; ota_app_backend_callback, which ignores it during a call, ota_app_start.
OtaStart ==
    /\ mpc \notin {"launch", "off"} /\ Len(queue) < QBound
    /\ wake < (IF Open("reconnect") THEN 2 ELSE 1)
    /\ Open("poweroff") \/ \A i \in 1..Len(queue) : queue[i].type # "poweroff"
    /\ data_chan' \in {FALSE, data_chan}
    /\ IF actived_app = BtCall
       THEN UNCHANGED <<queue, wake>>
       ELSE Posted(Start(Ota)) /\ wake' = wake + 1
    /\ UNCHANGED <<lockVars, indexVars, plugVars, mpc, appVars, threadVars,
                   displaced>>

\* ota_init: what it creates is a thread for an upgrade, or for a dongle when
\* the data channel says so as it starts; it creates none if there is one
\* (-EALREADY) or no memory, and nobody notices.
ota_init(channel) ==
    \E memory \in {TRUE} \cup (IF Open("nomem") THEN {FALSE} ELSE {}) :
       LET created == ~ota_data /\ memory IN
       /\ ota_data' = (ota_data \/ created)
       /\ upgrade' = (upgrade \/ (created /\ ~channel))
       /\ dongle' = (dongle \/ (created /\ channel))

\* stream_ble_rx_set_notifyind: a dongle connects over BLE.  ota_init is called
\* from the Bluetooth service, with or without the ota application.
DongleStart ==
    /\ mpc \notin {"launch", "off"}
    /\ data_chan' = TRUE /\ ota_init(TRUE)
    /\ UNCHANGED <<lockVars, indexVars, plugVars, queue, mpc, appVars, wake,
                   displaced>>

\* An application's thread enters its loop.  ota_app_main locks the switcher
\* first, and asks itself to start the upgrade.
AppReady ==
    /\ app = "start" /\ app' = "loop"
    /\ IF actived_app = Ota
       THEN /\ MutexFree /\ force_locked' = TRUE
            /\ inbox' \in Sent("init", "pool")
       ELSE UNCHANGED <<force_locked, inbox>>
    /\ UNCHANGED <<locked, indexVars, plugVars, queue, mpc, actived_app,
                   otaVars, displaced>>

\* Any other application that cannot initialise exits by itself, and no
\* application is left.
AppFails ==
    /\ app = "start" /\ actived_app # Ota
    /\ actived_app' = NoApp /\ app' = "none" /\ inbox' = <<>>
    /\ UNCHANGED <<lockVars, indexVars, plugVars, queue, mpc, otaVars, displaced>>

\* ota's own message: ota_init.
OtaInit ==
    /\ app = "loop" /\ inbox # <<>> /\ Head(inbox) = "init"
    /\ inbox' = Tail(inbox)
    /\ ota_init(data_chan)
    /\ UNCHANGED <<lockVars, indexVars, plugVars, queue, mpc,
                   actived_app, app, data_chan, wake, displaced>>

\* Mutant: the application does not tell app_manager that it exits.
AppExit_StaysListed ==
    /\ app = "loop" /\ inbox # <<>> /\ Head(inbox) = "exit"
    /\ app' = "none" /\ inbox' = <<>>
    /\ UNCHANGED <<lockVars, indexVars, plugVars, queue, mpc,
                   actived_app, otaVars, displaced>>

\* MSG_EXIT_APP: app_manager_thread_exit; ota_deinit then frees the stack
\* of the upgrade's thread.
AppExit ==
    /\ app = "loop" /\ inbox # <<>> /\ Head(inbox) = "exit"
    /\ actived_app' = NoApp /\ app' = "none" /\ inbox' = <<>>
    /\ ota_data' = (ota_data /\ actived_app # Ota)
    /\ UNCHANGED <<lockVars, indexVars, plugVars, queue, mpc, upgrade, dongle,
                   data_chan, wake, displaced>>

\* Mutant: the wakelock is not released.
OtaStop_KeepsWake ==
    /\ upgrade /\ MutexFree
    /\ Open("end") \/ queue = <<>>
    /\ force_locked' = FALSE
    /\ Posted(Other("last"))
    /\ upgrade' = FALSE
    /\ UNCHANGED <<locked, indexVars, plugVars, mpc, appVars, ota_data, dongle,
                   data_chan, wake, displaced>>

\* Mutant: main is not asked to leave the ota application.
OtaStop_NotAsked ==
    /\ upgrade /\ MutexFree
    /\ Open("end") \/ queue = <<>>
    /\ force_locked' = FALSE
    /\ wake' = wake - 1 /\ upgrade' = FALSE
    /\ UNCHANGED <<locked, indexVars, plugVars, queue, mpc, appVars, ota_data, dongle,
                   data_chan, displaced>>

\* The end of ota_process_deal, which a thread that serves a dongle does not
\* reach: the switcher is unlocked, main is asked to go back to the last
\* application (ota_app_stop) and the thread ends, at a cooperative priority.
OtaStop ==
    /\ upgrade /\ MutexFree
    /\ Open("end") \/ queue = <<>>
    /\ force_locked' = FALSE
    /\ Posted(Other("last"))
    /\ wake' = wake - 1 /\ upgrade' = FALSE
    /\ UNCHANGED <<locked, indexVars, plugVars, mpc, appVars, ota_data, dongle,
                   data_chan, displaced>>

App == AppReady \/ AppFails \/ OtaInit \/ AppExit

\* The power is off.
Off == mpc = "off" /\ UNCHANGED vars

Next ==
    \/ Main
    \/ App
    \/ \E m \in Requests : Post(m)
    \/ PostPowerOff
    \/ OtaStart \/ DongleStart \/ OtaStop
    \/ Off

\* Ready threads run, and an upgrade (not a dongle's thread) ends, by success
\* or by failure; its thread is handed app_switch_mutex when it waits for it.
Fairness == WF_vars(Main) /\ WF_vars(App) /\ SF_vars(OtaStop)

Spec == Init /\ [][Next]_vars
FairSpec == Spec /\ Fairness

-----------------------------------------------------------------------------
(* Properties.                                                             *)

\* Every variable has its type.
TypeOK ==
    /\ locked \in BOOLEAN /\ force_locked \in BOOLEAN
    /\ cur_index \in Apps \cup {NoApp} /\ last_index \in Apps \cup {NoApp}
    /\ pluged \subseteq Apps /\ app_actived_num \in 0..Cardinality(Apps)
    /\ queue \in Seq(Messages)
    /\ mpc \in {"launch", "idle", "switch", "wait", "off"}
    /\ actived_app \in Apps \cup {NoApp} /\ app \in {"none", "start", "loop"}
    /\ inbox \in Seq({"init", "exit"})
    /\ ota_data \in BOOLEAN /\ upgrade \in BOOLEAN /\ dongle \in BOOLEAN
    /\ data_chan \in BOOLEAN /\ wake \in 0..2 /\ displaced \in Apps \cup {NoApp}

\* Outside of a switch cur_index is the application that really runs: what
\* the next switch compares with and goes back to is not out of date.
CurIsActive == MutexFree /\ actived_app # NoApp => cur_index = actived_app

\* An upgrade is never cut off: while its thread runs, ota stays the
\* foreground application, whoever asks for a switch meanwhile; ota_deinit
\* never frees the stack of a thread that runs, also not of one that a dongle
\* started; and force_locked does not outlive the ota application, or no
\* application could be started any more.
OtaUninterrupted ==
    /\ upgrade => actived_app = Ota
    /\ upgrade \/ dongle => ota_data
    /\ force_locked => actived_app = Ota

\* The upgrade's FULL_WAKE_LOCK is held only while an upgrade is asked for
\* or under way: otherwise the system could never sleep again.
WakeBalanced ==
    wake > 0 =>
      \/ Ota \in {actived_app, cur_index}
      \/ \E i \in 1..Len(queue) : queue[i] = Start(Ota)
      \/ mpc = "off"

\* When an upgrade is over, APP_SWITCH_LAST leads to the application that had
\* to leave for ota, whatever was asked of main meanwhile: never to ota itself
\* or to no entry of app_list.
ReturnsFromOta ==
    [][(/\ mpc = "idle" /\ queue # <<>> /\ Head(queue).type = "last"
        /\ queue' = Tail(queue))
         => /\ cur_index' \in Apps \ {Ota}
            /\ displaced \in {cur_index', NoApp}]_vars

\* Every app_switch returns: main does not wait for the exit of an
\* application that waits for app_switch_mutex.
CallsReturn == mpc \in {"switch", "wait"} ~> MutexFree

\* The ota application is left again, unless a dongle's thread keeps ota_init
\* from starting the upgrade (no upgrade then ends, and nobody unlocks).
OtaLeaves == actived_app = Ota ~> actived_app # Ota \/ dongle
=============================================================================
