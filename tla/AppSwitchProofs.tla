--------------------------- MODULE AppSwitchProofs ---------------------------
(***************************************************************************)
(* Proofs about AppSwitch for any list of applications and any length of   *)
(* main's queue.  The windows "end", "poweroff" and "exit_lost" are closed; *)
(* the others may be open, except for the wakelock's balance, which needs  *)
(* them all closed.                                                        *)
(***************************************************************************)
EXTENDS AppSwitch, FiniteSetTheorems, TLAPS

USE AppsAssumption, QBoundAssumption

-----------------------------------------------------------------------------
(* The inductive invariant.                                                *)

Has(t) == \E i \in 1..Len(queue) : queue[i].type = t

\* An upgrade that has not ended yet is somewhere on its way.
Asked ==
    \/ \E i \in 1..Len(queue) : queue[i] = Start(Ota)
    \/ ~MutexFree /\ cur_index = Ota
    \/ actived_app = Ota /\ app = "start"
    \/ force_locked

\* Before the launch nothing runs, after it cur_index is always set.
LaunchInv ==
    IF mpc = "launch"
    THEN /\ ~locked /\ ~force_locked /\ ~upgrade /\ inbox = <<>>
         /\ cur_index = NoApp /\ actived_app = NoApp /\ app = "none"
    ELSE cur_index \in Apps

\* The last application is another one, and known once ota is current.
IndexInv ==
    /\ cur_index \in Apps => last_index # cur_index
    /\ cur_index = Ota => last_index \in Apps

\* app_actived_num counts the plugged applications.
CountInv == app_actived_num = Cardinality(pluged)

\* The switcher is locked only by a running ota application, and while it
\* is main is not in app_switch.
LockInv ==
    /\ force_locked => actived_app = Ota /\ app = "loop" /\ MutexFree
    /\ upgrade => force_locked /\ ota_data

\* ota_thread_data is there for the thread it belongs to.  An ota application
\* that has unlocked the switcher had a thread of its own, not a dongle's.
DongleInv ==
    /\ dongle => ota_data /\ ~upgrade
    /\ actived_app = Ota /\ app = "loop" /\ ~force_locked => ota_data /\ ~dongle

\* While ota is current, the last application is the one that had to leave.
ReturnInv ==
    cur_index = Ota =>
      IF mpc = "switch" THEN actived_app \in {last_index, NoApp}
                        ELSE displaced \in {last_index, NoApp}

\* An application has at most one of its own messages pending, and that
\* says where main is.
InboxInv ==
    /\ inbox \in {<<>>, <<"init">>, <<"exit">>}
    /\ inbox = <<"init">> => force_locked /\ ~upgrade
    /\ inbox = <<"exit">> => mpc \in {"wait", "off"}

\* The request to leave ota is the next message main takes.
LastInv ==
    Has("last") =>
      /\ \A i \in 1..Len(queue) : queue[i].type = "last" => i = 1
      /\ actived_app = Ota /\ cur_index = Ota /\ app = "loop"
      /\ mpc = "idle" /\ ~force_locked /\ ~upgrade

\* The power is only switched off when there is no upgrade.
PowerInv ==
    Has("poweroff") \/ mpc = "off" =>
      wake = 0 /\ Ota \notin {actived_app, cur_index}

\* An upgrade holds a wakelock.
WakeInv == Asked => wake >= 1

Inv ==
    /\ TypeOK /\ CurIsActive
    /\ LaunchInv /\ IndexInv /\ CountInv /\ LockInv /\ InboxInv
    /\ LastInv /\ PowerInv /\ WakeInv /\ DongleInv /\ ReturnInv

-----------------------------------------------------------------------------
(* Lemmas about the operators.                                             *)

\* A message sent to main (send_async_msg) comes last, if it is not lost.
LEMMA PostedLast ==
    ASSUME TypeOK, NEW m \in Messages, Posted(m)
    PROVE  /\ queue' \in Seq(Messages)
           /\ \A i \in 1..Len(queue') :
                 \/ i \in 1..Len(queue) /\ queue'[i] = queue[i]
                 \/ i = Len(queue) + 1 /\ queue'[i] = m
           /\ queue = <<>> => queue' \in {<<>>, <<m>>}
<1>1. queue \in Seq(Messages)
  BY DEF TypeOK
<1>2. CASE queue' = queue
  BY <1>1, <1>2
<1>3. CASE queue' = Append(queue, m)
  <2>1. queue' \in Seq(Messages) /\ Len(queue') = Len(queue) + 1
    BY <1>1, <1>3
  <2>2. \A i \in 1..Len(queue') :
           \/ i \in 1..Len(queue) /\ queue'[i] = queue[i]
           \/ i = Len(queue) + 1 /\ queue'[i] = m
    BY <1>1, <1>3, <2>1
  <2>3. queue = <<>> => queue' = <<m>>
    BY <1>3
  <2> QED BY <2>1, <2>2, <2>3
<1> QED BY <1>2, <1>3 DEF Posted

\* main takes the first message (receive_msg).
LEMMA TakenFirst ==
    ASSUME TypeOK, queue # <<>>, queue' = Tail(queue)
    PROVE  /\ queue' \in Seq(Messages)
           /\ Head(queue) \in Messages /\ Head(queue) = queue[1]
           /\ 1 \in 1..Len(queue)
           /\ \A i \in 1..Len(queue') :
                 i + 1 \in 1..Len(queue) /\ queue'[i] = queue[i + 1]
<1>1. queue \in Seq(Messages)
  BY DEF TypeOK
<1> QED BY <1>1

\* app_switch_add_app counts what it plugs.
LEMMA AddedCounted ==
    ASSUME TypeOK, CountInv, NEW add \in SUBSET Apps, app_switch_add_app(add)
    PROVE  pluged' \subseteq Apps /\ CountInv'
<1>1. pluged \subseteq Apps
  BY DEF TypeOK
<1>2. IsFiniteSet(pluged) /\ IsFiniteSet(add \ pluged)
  <2>1. (add \ pluged) \in SUBSET Apps /\ pluged \in SUBSET Apps
    BY <1>1
  <2> QED BY <2>1, FS_Subset
<1>3. pluged \cup add = pluged \cup (add \ pluged) /\ pluged \cap (add \ pluged) = {}
  OBVIOUS
<1>4. Cardinality(pluged \cup (add \ pluged)) =
        Cardinality(pluged) + Cardinality(add \ pluged) - Cardinality({})
  BY <1>2, <1>3, FS_Union
<1>5. Cardinality({}) = 0
  BY FS_EmptySet
<1>6. Cardinality(pluged) \in Nat /\ Cardinality(add \ pluged) \in Nat
  BY <1>2, FS_CardinalityType
<1>7. /\ pluged' = pluged \cup (add \ pluged)
      /\ app_actived_num' = app_actived_num + Cardinality(add \ pluged)
  BY <1>3 DEF app_switch_add_app
<1>8. Cardinality(pluged') = Cardinality(pluged) + Cardinality(add \ pluged)
  BY <1>4, <1>5, <1>6, <1>7
<1> QED BY <1>1, <1>7, <1>8 DEF CountInv

\* The count is never larger than the list (app_actived_num is a uint8_t).
LEMMA CountBounded ==
    ASSUME NEW S \in SUBSET Apps
    PROVE  Cardinality(S) \in 0..Cardinality(Apps)
<1>1. IsFiniteSet(S) /\ Cardinality(S) <= Cardinality(Apps)
  BY FS_Subset
<1>2. Cardinality(S) \in Nat /\ Cardinality(Apps) \in Nat
  BY <1>1, FS_CardinalityType
<1> QED BY <1>1, <1>2

\* app_switch either leaves everything alone or moves on from cur_index to
\* another application, which the name says unless it is null.
LEMMA SwitchMoves ==
    ASSUME TypeOK, pluged' \subseteq Apps, NEW name \in Apps \cup {NoApp},
           NEW force \in BOOLEAN, app_switch(name, force)
    PROVE  \/ mpc' = "idle" /\ UNCHANGED <<cur_index, last_index>>
           \/ /\ mpc' = "switch" /\ ~force_locked
              /\ last_index' = cur_index
              /\ cur_index' \in Apps /\ cur_index' # cur_index
              /\ cur_index' = (IF name = NoApp THEN last_index ELSE name)
<1>1. Wanted(name, force) \in Apps \cup {NoApp}
  BY DEF Wanted, TypeOK
<1>2. Wanted(name, force) # NoApp =>
        Wanted(name, force) = (IF name = NoApp THEN last_index ELSE name)
  BY DEF Wanted
<1> QED BY <1>1, <1>2 DEF app_switch, Refused, indexVars

-----------------------------------------------------------------------------
(* The invariant is inductive.                                             *)

\* The invariant holds before the launch.
LEMMA InitInv == Init => Inv
<1> SUFFICES ASSUME Init PROVE Inv
  OBVIOUS
<1>1. Cardinality({}) = 0 /\ 0 \in 0..Cardinality(Apps)
  BY FS_EmptySet, CountBounded
<1>2. TypeOK
  <2>1. queue \in Seq(Messages) /\ inbox \in Seq({"init", "exit"})
    BY DEF Init
  <2>2. /\ locked \in BOOLEAN /\ force_locked \in BOOLEAN
        /\ ota_data \in BOOLEAN /\ upgrade \in BOOLEAN
        /\ dongle \in BOOLEAN /\ data_chan \in BOOLEAN
    BY DEF Init
  <2>3. pluged \subseteq Apps /\ app_actived_num \in 0..Cardinality(Apps)
    BY <1>1 DEF Init
  <2>4. wake \in 0..2
    BY DEF Init
  <2>5. /\ cur_index \in Apps \cup {NoApp} /\ last_index \in Apps \cup {NoApp}
        /\ actived_app \in Apps \cup {NoApp} /\ displaced \in Apps \cup {NoApp}
        /\ mpc \in {"launch", "idle", "switch", "wait", "off"}
        /\ app \in {"none", "start", "loop"}
    BY DEF Init
  <2> QED BY <2>1, <2>2, <2>3, <2>4, <2>5 DEF TypeOK
<1>3. CurIsActive /\ LaunchInv /\ IndexInv /\ CountInv
  BY <1>1 DEF Init, CurIsActive, LaunchInv, IndexInv, CountInv
<1>4. LockInv /\ InboxInv /\ LastInv /\ PowerInv /\ WakeInv
  BY DEF Init, LockInv, InboxInv, LastInv, PowerInv, WakeInv, Has, Asked,
         MutexFree
<1>5. DongleInv /\ ReturnInv
  BY DEF Init, DongleInv, ReturnInv
<1> QED BY <1>2, <1>3, <1>4, <1>5 DEF Inv

\* What a step that leaves the queue, the switcher and the plugged
\* applications alone has to say of the types.
LEMMA AppStepType ==
    ASSUME TypeOK, UNCHANGED <<locked, cur_index, last_index, pluged,
                               app_actived_num, queue, wake>>,
           force_locked' \in BOOLEAN, ota_data' \in BOOLEAN, upgrade' \in BOOLEAN,
           dongle' \in BOOLEAN, data_chan' \in BOOLEAN,
           displaced' \in Apps \cup {NoApp},
           mpc' \in {"launch", "idle", "switch", "wait", "off"},
           app' \in {"none", "start", "loop"}, actived_app' \in Apps \cup {NoApp},
           inbox' \in {<<>>, <<"init">>, <<"exit">>}
    PROVE  TypeOK'
<1>1. inbox' \in Seq({"init", "exit"})
  <2>1. /\ <<>> \in Seq({"init", "exit"}) /\ <<"init">> \in Seq({"init", "exit"})
        /\ <<"exit">> \in Seq({"init", "exit"})
    OBVIOUS
  <2> QED BY <2>1
<1>2. wake' \in 0..2 /\ app_actived_num' \in 0..Cardinality(Apps)
  BY DEF TypeOK
<1>3. locked' \in BOOLEAN /\ queue' \in Seq(Messages) /\ pluged' \subseteq Apps
  BY DEF TypeOK
<1>4. cur_index' \in Apps \cup {NoApp} /\ last_index' \in Apps \cup {NoApp}
  BY DEF TypeOK
<1> QED BY <1>1, <1>2, <1>3, <1>4 DEF TypeOK

\* The steps of main in app_manager_active_app.
LEMMA ActiveInv ==
    ASSUME Inv, ActiveApp \/ Waited, ~Open("exit_lost")
    PROVE  Inv'
<1> USE DEF Inv
<1>1. mpc \in {"switch", "wait"} /\ ~MutexFree /\ ~force_locked /\ ~upgrade
  BY DEF ActiveApp, Waited, MutexFree, LockInv
<1>2. UNCHANGED <<locked, force_locked, cur_index, last_index, pluged, app_actived_num,
                  queue, ota_data, upgrade, dongle, data_chan, wake>>
  BY DEF ActiveApp, Waited, lockVars, indexVars, plugVars, otaVars
<1>3. cur_index \in Apps /\ cur_index # NoApp
  BY <1>1 DEF LaunchInv
<1>4. inbox # <<"init">> /\ inbox \in {<<>>, <<"exit">>}
  BY <1>1 DEF InboxInv
<1>5. mpc = "switch" => inbox = <<>>
  BY <1>4 DEF InboxInv
<1>6. Append(<<>>, "exit") = <<"exit">> /\ <<>> # <<"exit">>
  OBVIOUS
<1>7. \/ mpc' = "idle" /\ UNCHANGED <<actived_app, app, inbox>>
           /\ actived_app = cur_index /\ mpc = "switch"
      \/ /\ mpc' = "idle" /\ inbox' = <<>>
         /\ \/ actived_app' = cur_index /\ app' = "start"
            \/ actived_app' = NoApp /\ app' = "none"
      \/ /\ mpc = "switch" /\ mpc' = "wait" /\ inbox' = <<"exit">>
         /\ UNCHANGED <<actived_app, app>>
  BY <1>3, <1>5, <1>6 DEF ActiveApp, Waited, StartApp, Sent, appVars
<1>8. mpc' \in {"idle", "wait"} /\ inbox' \in {<<>>, <<"exit">>}
      /\ (inbox' = <<"exit">> => mpc' = "wait")
  BY <1>5, <1>6, <1>7
<1>9. /\ mpc = "switch" => displaced' = IF cur_index = Ota THEN actived_app ELSE displaced
      /\ mpc = "wait" => displaced' = displaced
  BY DEF ActiveApp, Waited
<1>10. TypeOK'
  <2>1. displaced' \in Apps \cup {NoApp}
    BY <1>1, <1>9 DEF TypeOK
  <2>2. /\ force_locked' \in BOOLEAN /\ ota_data' \in BOOLEAN /\ upgrade' \in BOOLEAN
        /\ dongle' \in BOOLEAN /\ data_chan' \in BOOLEAN
    BY <1>2 DEF TypeOK
  <2>3. app' \in {"none", "start", "loop"} /\ actived_app' \in Apps \cup {NoApp}
    BY <1>3, <1>7 DEF TypeOK
  <2> QED BY <1>2, <1>8, <2>1, <2>2, <2>3, AppStepType
<1>11. CurIsActive' /\ LaunchInv' /\ IndexInv' /\ CountInv'
  BY <1>1, <1>2, <1>3, <1>7, <1>8
     DEF CurIsActive, LaunchInv, IndexInv, CountInv, MutexFree
<1>12. LockInv' /\ InboxInv'
  BY <1>1, <1>2, <1>8 DEF LockInv, InboxInv
<1>13. ~Has("last") /\ ~Has("last")'
  BY <1>1, <1>2 DEF LastInv, Has
<1>14. PowerInv'
  <2>1. Has("poweroff")' => Has("poweroff")
    BY <1>2 DEF Has
  <2> QED BY <1>2, <1>7, <1>8, <2>1 DEF PowerInv
<1>15. WakeInv'
  <2>1. Asked' => Asked
    BY <1>1, <1>2, <1>7 DEF Asked, MutexFree
  <2> QED BY <1>2, <2>1 DEF WakeInv
<1>16. DongleInv'
  BY <1>1, <1>2, <1>3, <1>7 DEF DongleInv
<1>17. ReturnInv'
  BY <1>1, <1>2, <1>8, <1>9 DEF ReturnInv
<1> QED BY <1>10, <1>11, <1>12, <1>13, <1>14, <1>15, <1>16, <1>17 DEF LastInv

\* What a step of main that leaves the applications alone has to say of the
\* types.
LEMMA MainStepType ==
    ASSUME TypeOK, UNCHANGED <<force_locked, actived_app, app, ota_data,
                               upgrade, dongle, data_chan, wake, displaced>>,
           locked' \in BOOLEAN, pluged' \subseteq Apps, CountInv',
           cur_index' \in Apps \cup {NoApp}, last_index' \in Apps \cup {NoApp},
           mpc' \in {"launch", "idle", "switch", "wait", "off"},
           queue' \in Seq(Messages), inbox' \in {<<>>, <<"init">>, <<"exit">>}
    PROVE  TypeOK'
<1>1. inbox' \in Seq({"init", "exit"})
  <2>1. /\ <<>> \in Seq({"init", "exit"}) /\ <<"init">> \in Seq({"init", "exit"})
        /\ <<"exit">> \in Seq({"init", "exit"})
    OBVIOUS
  <2> QED BY <2>1
<1>2. app_actived_num' \in 0..Cardinality(Apps)
  <2>1. Cardinality(pluged') \in 0..Cardinality(Apps)
    BY CountBounded
  <2> QED BY <2>1 DEF CountInv
<1>3. wake' \in 0..2
  BY DEF TypeOK
<1>4. /\ force_locked' \in BOOLEAN /\ ota_data' \in BOOLEAN
      /\ upgrade' \in BOOLEAN /\ dongle' \in BOOLEAN /\ data_chan' \in BOOLEAN
  BY DEF TypeOK
<1>5. actived_app' \in Apps \cup {NoApp} /\ app' \in {"none", "start", "loop"}
      /\ displaced' \in Apps \cup {NoApp}
  BY DEF TypeOK
<1> QED BY <1>1, <1>2, <1>3, <1>4, <1>5 DEF TypeOK

\* system_app_launch.
LEMMA LaunchKeepsInv ==
    ASSUME Inv, Launch
    PROVE  Inv'
<1> USE DEF Inv
<1> DEFINE first == IF Launched \in Plugged THEN Launched ELSE BtMusic
<1>1. /\ ~locked /\ ~force_locked /\ ~upgrade /\ inbox = <<>> /\ MutexFree
      /\ cur_index = NoApp /\ actived_app = NoApp /\ app = "none"
      /\ mpc = "launch"
  BY DEF Launch, LaunchInv, MutexFree
<1>2. UNCHANGED <<locked, force_locked, queue, actived_app, app, inbox,
                  ota_data, upgrade, dongle, data_chan, wake, displaced>>
  BY DEF Launch, lockVars, appVars, otaVars
<1>3. pluged' \subseteq Apps /\ CountInv' /\ pluged' = pluged \cup Plugged
  <2>1. app_switch_add_app(Plugged) /\ Plugged \in SUBSET Apps
    BY DEF Launch
  <2>2. pluged' \subseteq Apps /\ CountInv'
    BY <2>1, AddedCounted
  <2> QED BY <2>1, <2>2 DEF app_switch_add_app
<1>4. first \in Plugged /\ first \in Apps \ {Ota} /\ first # NoApp
  OBVIOUS
<1>5. mpc' = "switch" /\ last_index' = NoApp /\ cur_index' = first
  <2>1. app_switch(first, FALSE)
    BY DEF Launch
  <2>2. Wanted(first, FALSE) = first
    BY <1>3, <1>4 DEF Wanted
  <2>3. ~Refused(first, FALSE)
    BY <1>1, <1>3, <1>4 DEF Refused
  <2> QED BY <1>1, <1>4, <2>1, <2>2, <2>3 DEF app_switch
<1>6. TypeOK'
  <2>1. /\ locked' \in BOOLEAN /\ queue' \in Seq(Messages)
        /\ inbox' \in {<<>>, <<"init">>, <<"exit">>}
    BY <1>1, <1>2 DEF TypeOK
  <2> QED BY <1>2, <1>3, <1>4, <1>5, <2>1, MainStepType
<1>7. CurIsActive' /\ LaunchInv' /\ IndexInv' /\ LockInv' /\ InboxInv'
  BY <1>1, <1>2, <1>4, <1>5
     DEF CurIsActive, LaunchInv, IndexInv, LockInv, InboxInv, MutexFree
<1>8. LastInv'
  BY <1>1, <1>2 DEF LastInv, Has
<1>9. PowerInv'
  BY <1>1, <1>2, <1>4, <1>5 DEF PowerInv, Has
<1>10. WakeInv'
  <2>1. Asked' => Asked
    BY <1>1, <1>2, <1>4, <1>5 DEF Asked
  <2> QED BY <1>2, <2>1 DEF WakeInv
<1>11. DongleInv' /\ ReturnInv'
  BY <1>1, <1>2, <1>4, <1>5 DEF DongleInv, ReturnInv
<1> QED BY <1>3, <1>6, <1>7, <1>8, <1>9, <1>10, <1>11

\* What handling a message of main does (system_app_main): nothing to the
\* switcher, a move to another application, or the way to the power-off.
LEMMA HandleMoves ==
    ASSUME Inv, mpc = "idle", NEW m \in Messages, Handle(m)
    PROVE  /\ pluged' \subseteq Apps /\ CountInv' /\ locked' \in BOOLEAN
           /\ \/ mpc' = "idle" /\ UNCHANGED <<cur_index, last_index, inbox>>
              \/ /\ mpc' = "switch" /\ ~force_locked /\ UNCHANGED inbox
                 /\ last_index' = cur_index
                 /\ cur_index' \in Apps /\ cur_index' # cur_index
                 /\ cur_index' = Ota =>
                      \/ m = Start(Ota)
                      \/ m.type = "last" /\ last_index = Ota
              \/ /\ m.type = "poweroff" /\ mpc' = "off"
                 /\ UNCHANGED <<cur_index, last_index>>
                 /\ inbox' \in {inbox, Append(inbox, "exit")}
<1> USE DEF Inv
<1>1. m.app \in Apps \cup {NoApp}
  BY DEF Messages, Start, Other
<1>2. CASE m.type \in {"start", "last"}
  <2>1. UNCHANGED <<locked, pluged, app_actived_num, inbox>> /\ app_switch(m.app, TRUE)
    BY <1>2 DEF Handle, plugVars
  <2>2. pluged' \subseteq Apps /\ CountInv' /\ locked' \in BOOLEAN
    BY <2>1 DEF TypeOK, CountInv
  <2>3. m.app = Ota => m = Start(Ota)
    BY DEF Messages, Start, Other
  <2>4. m.app = NoApp => m.type = "last"
    BY <1>2 DEF Messages, Start, Other
  <2> QED BY <1>1, <2>1, <2>2, <2>3, <2>4, SwitchMoves
<1>3. CASE m.type = "record_on" /\ actived_app \notin {NoApp, ApRecord}
  <2>1. /\ app_switch_add_app({ApRecord}) /\ app_switch(ApRecord, FALSE)
        /\ UNCHANGED <<locked, inbox>>
    BY <1>3 DEF Handle, record_slave_status_set
  <2>2. pluged' \subseteq Apps /\ CountInv' /\ locked' \in BOOLEAN
    <3>1. {ApRecord} \in SUBSET Apps
      OBVIOUS
    <3>2. pluged' \subseteq Apps /\ CountInv'
      BY <2>1, <3>1, AddedCounted
    <3> QED BY <2>1, <3>2 DEF TypeOK
  <2> QED BY <2>1, <2>2, SwitchMoves
<1>4. CASE m.type = "record_off" /\ actived_app = ApRecord
  <2>1. /\ app_switch_add_app({BtMusic}) /\ app_switch(BtMusic, FALSE)
        /\ UNCHANGED <<locked, inbox>>
    BY <1>4 DEF Handle, record_slave_status_set
  <2>2. pluged' \subseteq Apps /\ CountInv' /\ locked' \in BOOLEAN
    <3>1. {BtMusic} \in SUBSET Apps
      OBVIOUS
    <3>2. pluged' \subseteq Apps /\ CountInv'
      BY <2>1, <3>1, AddedCounted
    <3> QED BY <2>1, <3>2 DEF TypeOK
  <2> QED BY <2>1, <2>2, SwitchMoves
<1>5. CASE m.type = "tws"
  <2>1. locked' = TRUE /\ UNCHANGED <<cur_index, last_index, pluged, app_actived_num,
                                      mpc, inbox>>
    BY <1>5 DEF Handle, TwsConnected, indexVars, plugVars
  <2> QED BY <2>1 DEF TypeOK, CountInv
<1>6. CASE m.type = "poweroff"
  <2>1. /\ mpc' = "off" /\ inbox' \in {inbox, Append(inbox, "exit")}
        /\ UNCHANGED <<locked, cur_index, last_index, pluged, app_actived_num>>
    BY <1>6 DEF Handle, EnterPowerOff, Sent, indexVars, plugVars
  <2> QED BY <1>6, <2>1 DEF TypeOK, CountInv
<1>7. CASE /\ m.type \in {"record_on", "record_off"}
           /\ ~(m.type = "record_on" /\ actived_app \notin {NoApp, ApRecord})
           /\ ~(m.type = "record_off" /\ actived_app = ApRecord)
  <2>1. UNCHANGED <<locked, cur_index, last_index, pluged, app_actived_num, mpc,
                    inbox>>
    BY <1>7 DEF Handle, record_slave_status_set, indexVars, plugVars
  <2> QED BY <2>1 DEF TypeOK, CountInv
<1>8. m.type \in {"start", "last", "record_on", "record_off", "tws", "poweroff"}
  BY DEF Messages, Start, Other
<1> QED BY <1>2, <1>3, <1>4, <1>5, <1>6, <1>7, <1>8

\* main receives and handles a message.
LEMMA ReceiveKeepsInv ==
    ASSUME Inv, Receive
    PROVE  Inv'
<1> USE DEF Inv
<1> DEFINE m == Head(queue)
<1>1. /\ mpc = "idle" /\ queue # <<>> /\ queue' = Tail(queue) /\ Handle(m)
      /\ UNCHANGED <<force_locked, actived_app, app, ota_data, upgrade, dongle,
                     data_chan, wake, displaced>>
  BY DEF Receive, otaVars
<1>2. /\ queue' \in Seq(Messages) /\ m \in Messages /\ m = queue[1]
      /\ 1 \in 1..Len(queue)
      /\ \A i \in 1..Len(queue') :
            i + 1 \in 1..Len(queue) /\ queue'[i] = queue[i + 1]
  BY <1>1, TakenFirst
<1>3. MutexFree /\ cur_index \in Apps
  BY <1>1 DEF MutexFree, LaunchInv
<1>4. m.type = "last" => last_index # Ota
  BY <1>2 DEF LastInv, Has, IndexInv
<1>5. m.type = "poweroff" => inbox = <<>> /\ actived_app # Ota
  BY <1>1, <1>2 DEF PowerInv, Has, InboxInv, LockInv
<1>6. m.type = "poweroff" => wake = 0 /\ cur_index # Ota
  BY <1>2 DEF PowerInv, Has
<1>7. /\ pluged' \subseteq Apps /\ CountInv' /\ locked' \in BOOLEAN
      /\ \/ mpc' = "idle" /\ UNCHANGED <<cur_index, last_index, inbox>>
         \/ /\ mpc' = "switch" /\ ~force_locked /\ UNCHANGED inbox
            /\ last_index' = cur_index
            /\ cur_index' \in Apps /\ cur_index' # cur_index
            /\ cur_index' = Ota => m = Start(Ota)
         \/ /\ m.type = "poweroff" /\ mpc' = "off"
            /\ UNCHANGED <<cur_index, last_index>>
            /\ inbox' \in {<<>>, <<"exit">>}
  <2>1. Append(<<>>, "exit") = <<"exit">>
    OBVIOUS
  <2> HIDE DEF m
  <2> QED BY <1>1, <1>2, <1>4, <1>5, <2>1, HandleMoves
<1>8. (\E i \in 1..Len(queue) : queue[i] = Start(Ota)) => wake >= 1
  BY DEF WakeInv, Asked
<1> HIDE DEF m
<1>9. TypeOK'
  <2>1. inbox' \in {<<>>, <<"init">>, <<"exit">>}
    BY <1>7 DEF InboxInv
  <2>2. /\ cur_index' \in Apps \cup {NoApp} /\ last_index' \in Apps \cup {NoApp}
        /\ mpc' \in {"launch", "idle", "switch", "wait", "off"}
    BY <1>3, <1>7 DEF TypeOK
  <2> QED BY <1>1, <1>2, <1>7, <2>1, <2>2, MainStepType
<1>10. CurIsActive' /\ LaunchInv' /\ IndexInv'
  BY <1>1, <1>3, <1>7 DEF CurIsActive, LaunchInv, IndexInv, MutexFree
<1>11. LockInv'
  BY <1>1, <1>3, <1>7 DEF LockInv, MutexFree
<1>12. InboxInv'
  <2>1. <<"init">> # <<"exit">> /\ <<>> # <<"exit">> /\ <<>> # <<"init">>
    OBVIOUS
  <2> QED BY <1>1, <1>7, <2>1 DEF InboxInv
<1>13. LastInv'
  <2>1. ~Has("last")'
    <3> SUFFICES ASSUME NEW i \in 1..Len(queue'), queue'[i].type = "last"
                 PROVE  FALSE
      BY DEF Has
    <3>1. i + 1 \in 1..Len(queue) /\ queue[i + 1].type = "last" /\ i + 1 # 1
      BY <1>2
    <3> QED BY <3>1 DEF LastInv, Has
  <2> QED BY <2>1 DEF LastInv
<1>14. PowerInv'
  <2>1. Has("poweroff")' => Has("poweroff")
    BY <1>2 DEF Has
  <2>2. m = Start(Ota) => wake >= 1
    BY <1>2, <1>8
  <2> QED BY <1>1, <1>2, <1>5, <1>6, <1>7, <2>1, <2>2 DEF PowerInv, TypeOK
<1>15. WakeInv'
  <2>1. Asked' => Asked
    <3>1. CASE \E i \in 1..Len(queue') : queue'[i] = Start(Ota)
      BY <1>2, <3>1 DEF Asked
    <3>2. CASE ~MutexFree' /\ cur_index' = Ota
      BY <1>2, <1>7, <3>2 DEF Asked, MutexFree
    <3> QED BY <1>1, <3>1, <3>2 DEF Asked
  <2> QED BY <1>1, <2>1 DEF WakeInv
<1>16. DongleInv'
  BY <1>1 DEF DongleInv
<1>17. ReturnInv'
  <2>1. actived_app \in {cur_index, NoApp}
    BY <1>3 DEF CurIsActive
  <2> QED BY <1>1, <1>7, <2>1 DEF ReturnInv
<1> QED BY <1>7, <1>9, <1>10, <1>11, <1>12, <1>13, <1>14, <1>15, <1>16, <1>17

\* The steps of the application's thread.
LEMMA AppKeepsInv ==
    ASSUME Inv, App
    PROVE  Inv'
<1> USE DEF Inv
<1>1. UNCHANGED <<locked, cur_index, last_index, pluged, app_actived_num, queue,
                  mpc, data_chan, wake, displaced>>
  BY DEF App, AppReady, AppFails, OtaInit, AppExit, lockVars, indexVars, plugVars, otaVars
<1>2. /\ Head(<<"init">>) = "init" /\ Head(<<"exit">>) = "exit"
      /\ Tail(<<"init">>) = <<>> /\ Append(<<>>, "init") = <<"init">>
      /\ <<>> # <<"init">> /\ <<>> # <<"exit">>
  OBVIOUS
<1>3. /\ data_chan' \in BOOLEAN /\ displaced' \in Apps \cup {NoApp}
      /\ mpc' \in {"launch", "idle", "switch", "wait", "off"}
  BY <1>1 DEF TypeOK
<1>4. CASE AppReady
  <2>1. /\ app = "start" /\ app' = "loop"
        /\ UNCHANGED <<actived_app, ota_data, upgrade, dongle>>
    BY <1>4 DEF AppReady, otaVars
  <2>2. ~force_locked /\ ~upgrade /\ inbox # <<"init">> /\ mpc # "launch"
    BY <2>1 DEF LockInv, InboxInv, LaunchInv
  <2>3. \/ /\ actived_app = Ota /\ MutexFree /\ force_locked'
           /\ inbox' \in {<<>>, <<"init">>} /\ mpc # "off"
        \/ actived_app # Ota /\ UNCHANGED <<force_locked, inbox>>
    <3>1. CASE actived_app = Ota
      <4>1. MutexFree /\ force_locked' = TRUE /\ inbox' \in {inbox, Append(inbox, "init")}
        BY <1>4, <3>1 DEF AppReady, Sent
      <4>2. mpc # "off"
        BY <3>1 DEF PowerInv
      <4>3. inbox = <<>>
        BY <2>2, <4>1, <4>2 DEF InboxInv, MutexFree
      <4> QED BY <1>2, <3>1, <4>1, <4>2, <4>3
    <3> QED BY <1>4, <3>1 DEF AppReady
  <2>4. TypeOK'
    <3>1. /\ force_locked' \in BOOLEAN /\ ota_data' \in BOOLEAN
          /\ upgrade' \in BOOLEAN /\ dongle' \in BOOLEAN
      BY <1>4, <2>1 DEF AppReady, TypeOK
    <3>2. inbox' \in {<<>>, <<"init">>, <<"exit">>}
      BY <2>3 DEF InboxInv
    <3>3. actived_app' \in Apps \cup {NoApp}
      BY <2>1 DEF TypeOK
    <3> QED BY <1>1, <1>3, <2>1, <3>1, <3>2, <3>3, AppStepType
  <2>5. CurIsActive' /\ LaunchInv' /\ IndexInv' /\ CountInv'
    BY <1>1, <2>1, <2>2
       DEF CurIsActive, LaunchInv, IndexInv, CountInv, MutexFree
  <2>6. LockInv' /\ InboxInv'
    BY <1>1, <1>2, <2>1, <2>2, <2>3 DEF LockInv, InboxInv, MutexFree
  <2>7. LastInv'
    BY <1>1, <2>1 DEF LastInv, Has
  <2>8. PowerInv'
    BY <1>1, <2>1 DEF PowerInv, Has
  <2>9. WakeInv'
    <3>1. Asked' => Asked
      BY <1>1, <2>1, <2>3 DEF Asked, MutexFree
    <3> QED BY <1>1, <3>1 DEF WakeInv
  <2>10. DongleInv' /\ ReturnInv'
    BY <1>1, <2>1, <2>3 DEF DongleInv, ReturnInv
  <2> QED BY <2>4, <2>5, <2>6, <2>7, <2>8, <2>9, <2>10
<1>5. CASE OtaInit
  <2>1. /\ app = "loop" /\ inbox # <<>> /\ Head(inbox) = "init"
        /\ inbox' = Tail(inbox) /\ ota_init(data_chan)
        /\ UNCHANGED <<force_locked, actived_app, app>>
    BY <1>5 DEF OtaInit, lockVars
  <2>2. inbox = <<"init">> /\ inbox' = <<>> /\ force_locked /\ ~upgrade
    BY <1>2, <2>1 DEF InboxInv
  <2>3. /\ ota_data' \in BOOLEAN /\ upgrade' \in BOOLEAN /\ dongle' \in BOOLEAN
        /\ upgrade' => ota_data' /\ ~dongle'
        /\ dongle' => ota_data'
    <3>1. data_chan \in BOOLEAN
      BY DEF TypeOK
    <3> QED BY <2>1, <2>2, <3>1 DEF ota_init, DongleInv, TypeOK
  <2>4. TypeOK'
    <3>1. /\ force_locked' \in BOOLEAN /\ app' \in {"none", "start", "loop"}
          /\ actived_app' \in Apps \cup {NoApp}
      BY <2>1 DEF TypeOK
    <3> QED BY <1>1, <1>3, <2>2, <2>3, <3>1, AppStepType
  <2>5. CurIsActive' /\ LaunchInv' /\ IndexInv' /\ CountInv'
    BY <1>1, <2>1, <2>2
       DEF CurIsActive, LaunchInv, IndexInv, CountInv, MutexFree
  <2>6. LockInv' /\ InboxInv'
    BY <1>1, <1>2, <2>1, <2>2, <2>3 DEF LockInv, InboxInv, MutexFree
  <2>7. LastInv'
    BY <1>1, <2>1, <2>2 DEF LastInv, Has
  <2>8. PowerInv'
    BY <1>1, <2>1 DEF PowerInv, Has
  <2>9. WakeInv'
    BY <1>1, <2>2 DEF WakeInv, Asked
  <2>10. DongleInv' /\ ReturnInv'
    BY <1>1, <2>1, <2>2, <2>3 DEF DongleInv, ReturnInv
  <2> QED BY <2>4, <2>5, <2>6, <2>7, <2>8, <2>9, <2>10
<1>6. CASE AppExit \/ AppFails
  <2>1. /\ actived_app' = NoApp /\ app' = "none" /\ inbox' = <<>>
        /\ UNCHANGED <<force_locked, upgrade, dongle>>
        /\ ota_data' \in BOOLEAN
        /\ actived_app # Ota => ota_data' = ota_data
    BY <1>6 DEF AppExit, AppFails, lockVars, otaVars, TypeOK
  <2>2. ~force_locked /\ ~upgrade
    <3>1. CASE AppExit
      <4>1. inbox # <<>> /\ Head(inbox) = "exit"
        BY <3>1 DEF AppExit
      <4>2. mpc \in {"wait", "off"}
        BY <1>2, <4>1 DEF InboxInv
      <4> QED BY <4>2 DEF LockInv, MutexFree, PowerInv
    <3>2. CASE AppFails
      BY <3>2 DEF AppFails, LockInv
    <3> QED BY <1>6, <3>1, <3>2
  <2>3. ~Has("last")
    <3>1. CASE AppExit
      <4>1. inbox # <<>> /\ Head(inbox) = "exit"
        BY <3>1 DEF AppExit
      <4>2. mpc \in {"wait", "off"}
        BY <1>2, <4>1 DEF InboxInv
      <4> QED BY <4>2 DEF LastInv
    <3>2. CASE AppFails
      BY <3>2 DEF AppFails, LastInv
    <3> QED BY <1>6, <3>1, <3>2
  <2>4. TypeOK'
    <3>1. force_locked' \in BOOLEAN /\ upgrade' \in BOOLEAN /\ dongle' \in BOOLEAN
      BY <2>1 DEF TypeOK
    <3> QED BY <1>1, <1>3, <2>1, <3>1, AppStepType
  <2>5. CurIsActive' /\ LaunchInv' /\ IndexInv' /\ CountInv'
    BY <1>1, <2>1, <2>2
       DEF CurIsActive, LaunchInv, IndexInv, CountInv, MutexFree
  <2>6. LockInv' /\ InboxInv'
    BY <1>1, <1>2, <2>1, <2>2 DEF LockInv, InboxInv, MutexFree
  <2>7. LastInv'
    BY <1>1, <2>3 DEF LastInv, Has
  <2>8. PowerInv'
    BY <1>1, <2>1 DEF PowerInv, Has
  <2>9. WakeInv'
    <3>1. Asked' => Asked
      BY <1>1, <2>1 DEF Asked, MutexFree
    <3> QED BY <1>1, <3>1 DEF WakeInv
  <2>10. DongleInv'
    <3>1. actived_app = Ota => ~dongle
      BY <1>6, <2>2 DEF AppExit, AppFails, DongleInv
    <3> QED BY <2>1, <3>1 DEF DongleInv
  <2>11. ReturnInv'
    BY <1>1, <2>1 DEF ReturnInv
  <2> QED BY <2>4, <2>5, <2>6, <2>7, <2>8, <2>9, <2>10, <2>11
<1> QED BY <1>4, <1>5, <1>6 DEF App

\* What sending a message to main has to say of the types.
LEMMA PostType ==
    ASSUME TypeOK, queue' \in Seq(Messages), wake' \in 0..2,
           force_locked' \in BOOLEAN, ota_data' \in BOOLEAN, upgrade' \in BOOLEAN,
           dongle' \in BOOLEAN, data_chan' \in BOOLEAN,
           UNCHANGED <<locked, cur_index, last_index, pluged, app_actived_num,
                       mpc, actived_app, app, inbox, displaced>>
    PROVE  TypeOK'
<1>1. app_actived_num' \in 0..Cardinality(Apps) /\ inbox' \in Seq({"init", "exit"})
  BY DEF TypeOK
<1>2. locked' \in BOOLEAN /\ displaced' \in Apps \cup {NoApp}
  BY DEF TypeOK
<1>3. /\ cur_index' \in Apps \cup {NoApp} /\ last_index' \in Apps \cup {NoApp}
      /\ pluged' \subseteq Apps /\ actived_app' \in Apps \cup {NoApp}
      /\ mpc' \in {"launch", "idle", "switch", "wait", "off"}
      /\ app' \in {"none", "start", "loop"}
  BY DEF TypeOK
<1> QED BY <1>1, <1>2, <1>3 DEF TypeOK

\* A request for main, a power-off or the start of an upgrade.
LEMMA PostKeepsInv ==
    ASSUME Inv, NEW m \in Messages, m.type # "last",
           UNCHANGED <<locked, force_locked, cur_index, last_index, pluged,
                       app_actived_num, mpc, actived_app, app, inbox, ota_data,
                       upgrade, dongle, displaced>>,
           data_chan' \in BOOLEAN, Posted(m) \/ UNCHANGED queue,
           wake' \in 0..2, wake' >= wake, m = Start(Ota) => wake' >= 1,
           m.type = "poweroff" => ~Upgrading,
           \/ wake' = wake
           \/ mpc # "off" /\ ~Has("poweroff") /\ m.type # "poweroff"
    PROVE  Inv'
<1> USE DEF Inv
<1>1. /\ queue' \in Seq(Messages)
      /\ \A i \in 1..Len(queue') :
            \/ i \in 1..Len(queue) /\ queue'[i] = queue[i]
            \/ i = Len(queue) + 1 /\ queue'[i] = m
  <2>1. CASE UNCHANGED queue
    BY <2>1 DEF TypeOK
  <2> QED BY <2>1, PostedLast
<1>2. TypeOK'
  BY <1>1, PostType DEF TypeOK
<1>3. CurIsActive' /\ LaunchInv' /\ IndexInv' /\ CountInv'
  BY DEF CurIsActive, LaunchInv, IndexInv, CountInv, MutexFree
<1>4. LockInv' /\ InboxInv'
  BY DEF LockInv, InboxInv, MutexFree
<1>5. LastInv'
  <2>1. \A i \in 1..Len(queue') : queue'[i].type = "last" =>
           i \in 1..Len(queue) /\ queue[i].type = "last"
    BY <1>1
  <2> QED BY <2>1 DEF LastInv, Has
<1>6. PowerInv'
  <2>1. Has("poweroff")' => Has("poweroff") \/ m.type = "poweroff"
    BY <1>1 DEF Has
  <2>2. ~Upgrading => wake = 0 /\ Ota \notin {actived_app, cur_index}
    BY DEF Upgrading, TypeOK
  <2> QED BY <2>1, <2>2 DEF PowerInv
<1>7. WakeInv'
  <2>1. Asked' => Asked \/ m = Start(Ota)
    BY <1>1 DEF Asked, MutexFree
  <2>2. wake \in Nat /\ wake' \in Nat
    BY DEF TypeOK
  <2> QED BY <2>1, <2>2 DEF WakeInv
<1>8. DongleInv' /\ ReturnInv'
  BY DEF DongleInv, ReturnInv
<1> QED BY <1>2, <1>3, <1>4, <1>5, <1>6, <1>7, <1>8

\* A dongle connects: ota_init creates a thread unless there is one.
LEMMA DongleKeepsInv ==
    ASSUME Inv, DongleStart
    PROVE  Inv'
<1> USE DEF Inv
<1>1. /\ UNCHANGED <<locked, force_locked, cur_index, last_index, pluged,
                     app_actived_num, queue, mpc, actived_app, app, inbox, wake, displaced>>
      /\ data_chan' = TRUE /\ ota_init(TRUE)
  BY DEF DongleStart, lockVars, indexVars, plugVars, appVars
<1>2. /\ upgrade' = upgrade /\ ota_data' \in BOOLEAN /\ dongle' \in BOOLEAN
      /\ ota_data => ota_data' /\ dongle' = dongle
      /\ dongle' => dongle \/ ota_data'
  BY <1>1 DEF ota_init, TypeOK
<1>3. TypeOK'
  BY <1>1, <1>2, PostType DEF TypeOK
<1>4. CurIsActive' /\ LaunchInv' /\ IndexInv' /\ CountInv'
  BY <1>1, <1>2 DEF CurIsActive, LaunchInv, IndexInv, CountInv, MutexFree
<1>5. LockInv' /\ InboxInv' /\ LastInv'
  BY <1>1, <1>2 DEF LockInv, InboxInv, LastInv, Has, MutexFree
<1>6. PowerInv' /\ WakeInv' /\ ReturnInv'
  BY <1>1, <1>2 DEF PowerInv, WakeInv, ReturnInv, Has, Asked, MutexFree
<1>7. DongleInv'
  BY <1>1, <1>2 DEF DongleInv, LockInv
<1> QED BY <1>3, <1>4, <1>5, <1>6, <1>7

\* The end of an upgrade.
LEMMA StopKeepsInv ==
    ASSUME Inv, OtaStop, ~Open("end")
    PROVE  Inv'
<1> USE DEF Inv
<1> DEFINE m == Other("last")
<1>1. /\ upgrade /\ MutexFree /\ queue = <<>> /\ ~force_locked' /\ Posted(m)
      /\ force_locked' \in BOOLEAN /\ upgrade' \in BOOLEAN
      /\ wake' = wake - 1 /\ ~upgrade'
      /\ UNCHANGED <<locked, cur_index, last_index, pluged, app_actived_num, mpc,
                     actived_app, app, inbox, ota_data, dongle, data_chan, displaced>>
  BY DEF OtaStop, indexVars, plugVars, appVars
<1>2. m \in Messages /\ m.type = "last" /\ m # Start(Ota)
  BY DEF Messages, Other, Start
<1> HIDE DEF m
<1>3. queue' \in Seq(Messages) /\ queue' \in {<<>>, <<m>>}
  BY <1>1, <1>2, PostedLast
<1>4. \A i \in 1..Len(queue') : i = 1 /\ queue'[i] = m
  <2>1. CASE queue' = <<>>
    BY <2>1
  <2>2. CASE queue' = <<m>>
    BY <2>2
  <2> QED BY <1>3, <2>1, <2>2
<1>5. /\ actived_app = Ota /\ app = "loop" /\ inbox # <<"init">>
      /\ cur_index = Ota /\ mpc = "idle"
  BY <1>1 DEF LockInv, InboxInv, CurIsActive, LaunchInv, PowerInv, MutexFree, TypeOK
<1>6. wake \in 0..2 /\ wake >= 1 /\ wake' \in 0..2
  BY <1>1 DEF LockInv, WakeInv, Asked, TypeOK
<1>7. TypeOK'
  BY <1>1, <1>3, <1>6, PostType DEF TypeOK
<1>8. CurIsActive' /\ LaunchInv' /\ IndexInv' /\ CountInv'
  BY <1>1, <1>5 DEF CurIsActive, LaunchInv, IndexInv, CountInv, MutexFree
<1>9. LockInv' /\ InboxInv'
  BY <1>1, <1>5 DEF LockInv, InboxInv
<1>10. LastInv'
  BY <1>1, <1>4, <1>5 DEF LastInv
<1>11. PowerInv'
  BY <1>1, <1>2, <1>4, <1>5 DEF PowerInv, Has
<1>12. WakeInv'
  BY <1>1, <1>2, <1>4, <1>5 DEF WakeInv, Asked, MutexFree
<1>13. DongleInv' /\ ReturnInv'
  BY <1>1, <1>5 DEF DongleInv, ReturnInv, LockInv
<1> QED BY <1>7, <1>8, <1>9, <1>10, <1>11, <1>12, <1>13

\* Every step keeps the invariant.
LEMMA NextKeepsInv ==
    ASSUME Inv, [Next]_vars, ~Open("end"), ~Open("poweroff"), ~Open("exit_lost")
    PROVE  Inv'
<1>1. CASE Main
  BY <1>1, LaunchKeepsInv, ActiveInv, ReceiveKeepsInv DEF Main
<1>2. CASE App
  BY <1>2, AppKeepsInv
<1>3. ASSUME NEW m \in Requests, Post(m) PROVE Inv'
  <2>1. m \in Messages /\ m.type \notin {"last", "poweroff"} /\ m # Start(Ota)
    BY DEF Requests, Messages, Start, Other
  <2>2. /\ UNCHANGED <<locked, force_locked, cur_index, last_index, pluged,
                       app_actived_num, mpc, actived_app, app, inbox, ota_data,
                       upgrade, dongle, wake, displaced>>
        /\ Posted(m) \/ UNCHANGED queue
        /\ data_chan' \in BOOLEAN
    BY <1>3 DEF Inv, TypeOK, Post, lockVars, indexVars, plugVars, appVars, otaVars
  <2>3. wake' \in 0..2 /\ wake' >= wake
    BY <2>2 DEF Inv, TypeOK
  <2> QED BY <2>1, <2>2, <2>3, PostKeepsInv
<1>4. CASE PostPowerOff
  <2> DEFINE m == Other("poweroff")
  <2>1. m \in Messages /\ m.type = "poweroff" /\ m # Start(Ota)
    BY DEF Messages, Start, Other
  <2>2. /\ UNCHANGED <<locked, force_locked, cur_index, last_index, pluged,
                       app_actived_num, mpc, actived_app, app, inbox, ota_data,
                       upgrade, dongle, wake, displaced>>
        /\ Posted(m) \/ UNCHANGED queue
        /\ data_chan' \in BOOLEAN
        /\ ~Upgrading
    BY <1>4 DEF Inv, TypeOK, PostPowerOff, Post, lockVars, indexVars, plugVars, appVars, otaVars
  <2>3. wake' \in 0..2 /\ wake' >= wake
    BY <2>2 DEF Inv, TypeOK
  <2> HIDE DEF m
  <2> QED BY <2>1, <2>2, <2>3, PostKeepsInv
<1>5. CASE OtaStart
  <2> DEFINE m == Start(Ota)
  <2>1. m \in Messages /\ m.type = "start"
    BY DEF Messages, Start
  <2>2. /\ UNCHANGED <<locked, force_locked, cur_index, last_index, pluged,
                       app_actived_num, mpc, actived_app, app, inbox, ota_data,
                       upgrade, dongle, displaced>>
        /\ data_chan' \in BOOLEAN /\ mpc # "off" /\ ~Has("poweroff")
        /\ wake < (IF Open("reconnect") THEN 2 ELSE 1)
        /\ (Posted(m) /\ wake' = wake + 1) \/ UNCHANGED <<queue, wake>>
    BY <1>5 DEF Inv, TypeOK, OtaStart, Has, lockVars, indexVars, plugVars, appVars, threadVars
  <2> HIDE DEF m
  <2>3. CASE Posted(m) /\ wake' = wake + 1
    <3>1. wake' \in 0..2 /\ wake' >= wake /\ wake' >= 1
      BY <2>2, <2>3 DEF Inv, TypeOK
    <3> QED BY <2>1, <2>2, <2>3, <3>1, PostKeepsInv
  <2>4. CASE UNCHANGED <<queue, wake>>
    <3>1. Other("tws") \in Messages /\ Other("tws").type = "tws" /\ Other("tws") # Start(Ota)
      BY DEF Messages, Start, Other
    <3>2. wake' \in 0..2 /\ wake' >= wake
      BY <2>4 DEF Inv, TypeOK
    <3> QED BY <2>2, <2>4, <3>1, <3>2, PostKeepsInv
  <2> QED BY <2>2, <2>3, <2>4
<1>6. CASE OtaStop
  BY <1>6, StopKeepsInv
<1>7. CASE UNCHANGED vars
  <2> USE <1>7 DEF vars
  <2>1. TypeOK' /\ CurIsActive'
    BY DEF Inv, TypeOK, CurIsActive, MutexFree
  <2>2. LaunchInv' /\ IndexInv' /\ CountInv' /\ LockInv' /\ InboxInv'
    BY DEF Inv, LaunchInv, IndexInv, CountInv, LockInv, InboxInv, MutexFree
  <2>3. LastInv' /\ PowerInv' /\ WakeInv'
    BY DEF Inv, LastInv, PowerInv, WakeInv, Has, Asked, MutexFree
  <2>4. DongleInv' /\ ReturnInv'
    BY DEF Inv, DongleInv, ReturnInv
  <2> QED BY <2>1, <2>2, <2>3, <2>4 DEF Inv
<1>8. CASE DongleStart
  BY <1>8, DongleKeepsInv
<1> QED BY <1>1, <1>2, <1>3, <1>4, <1>5, <1>6, <1>7, <1>8 DEF Next, Off

-----------------------------------------------------------------------------
(* The theorems.                                                           *)

\* The types of app_switch_ctx_t, of main's queue and of the applications.
THEOREM TypeCorrect ==
    ASSUME ~Open("end"), ~Open("poweroff"), ~Open("exit_lost")
    PROVE  Spec => []TypeOK
<1>1. Inv => TypeOK
  BY DEF Inv
<1> QED BY <1>1, InitInv, NextKeepsInv, PTL DEF Spec

\* cur_index is the application that runs (app_switch, active_app), as long as
\* the exit message of the current application is not lost.
THEOREM CurAlwaysActive ==
    ASSUME ~Open("end"), ~Open("poweroff"), ~Open("exit_lost")
    PROVE  Spec => []CurIsActive
<1>1. Inv => CurIsActive
  BY DEF Inv
<1> QED BY <1>1, InitInv, NextKeepsInv, PTL DEF Spec

\* No switch cuts off an upgrade or leaves the switcher locked
\* (app_switch_force_lock, app_switch_force_unlock), and no thread of ota_init
\* loses its stack, whether ota or a dongle started it.
THEOREM OtaNeverInterrupted ==
    ASSUME ~Open("end"), ~Open("poweroff"), ~Open("exit_lost")
    PROVE  Spec => []OtaUninterrupted
<1>1. Inv => OtaUninterrupted
  BY DEF Inv, LockInv, DongleInv, OtaUninterrupted
<1> QED BY <1>1, InitInv, NextKeepsInv, PTL DEF Spec

\* APP_SWITCH_LAST after an upgrade leads to the application that had to leave
\* for ota (last_index), if one ran.
THEOREM AlwaysReturnsFromOta ==
    ASSUME ~Open("end"), ~Open("poweroff"), ~Open("exit_lost")
    PROVE  Spec => ReturnsFromOta
<1> DEFINE P == (/\ mpc = "idle" /\ queue # <<>> /\ Head(queue).type = "last"
                 /\ queue' = Tail(queue))
                  => /\ cur_index' \in Apps \ {Ota}
                     /\ displaced \in {cur_index', NoApp}
<1>1. ASSUME Inv, Next PROVE P
  <2> SUFFICES ASSUME mpc = "idle", queue # <<>>, Head(queue).type = "last",
                      queue' = Tail(queue)
               PROVE  cur_index' \in Apps \ {Ota} /\ displaced \in {cur_index', NoApp}
    OBVIOUS
  <2>1. Head(queue) \in Messages /\ Head(queue) = queue[1] /\ 1 \in 1..Len(queue)
    BY <1>1, TakenFirst DEF Inv
  <2>2. /\ cur_index = Ota /\ actived_app = Ota /\ ~force_locked
        /\ last_index \in Apps \ {Ota} /\ displaced \in {last_index, NoApp}
    BY <1>1, <2>1 DEF Inv, LastInv, Has, IndexInv, ReturnInv
  <2>3. Len(queue') # Len(queue) /\ queue' # queue
    <3>1. queue \in Seq(Messages)
      BY <1>1 DEF Inv, TypeOK
    <3> QED BY <3>1
  <2>4. ~\E m \in Messages : Posted(m)
    <3> SUFFICES ASSUME NEW m \in Messages, Posted(m) PROVE FALSE
      OBVIOUS
    <3>1. queue \in Seq(Messages)
      BY <1>1 DEF Inv, TypeOK
    <3>2. Len(queue') >= Len(queue)
      BY <3>1 DEF Posted
    <3>3. Len(queue') = Len(queue) - 1
      BY <3>1
    <3> QED BY <3>1, <3>2, <3>3
  <2>5. ~App /\ ~OtaStart /\ ~DongleStart /\ ~OtaStop /\ ~PostPowerOff /\ ~Off
        /\ ~\E m \in Requests : Post(m)
    <3>1. /\ Start(Ota) \in Messages /\ Other("last") \in Messages
          /\ Other("poweroff") \in Messages /\ Requests \subseteq Messages
      BY DEF Messages, Start, Other, Requests
    <3>2. ~App /\ ~Off /\ ~DongleStart
      BY <2>3 DEF App, AppReady, AppFails, OtaInit, AppExit, DongleStart, Off, vars
    <3> QED BY <2>3, <2>4, <3>1, <3>2 DEF OtaStart, OtaStop, PostPowerOff, Post
  <2>6. Receive
    BY <1>1, <2>3, <2>5 DEF Next, Main, Launch, ActiveApp, Waited
  <2>7. app_switch(NoApp, TRUE)
    <3>1. Head(queue).app = NoApp
      BY <2>1 DEF Messages, Start, Other
    <3> QED BY <2>6, <3>1 DEF Receive, Handle
  <2>8. ~Refused(NoApp, TRUE) /\ Wanted(NoApp, TRUE) = last_index
    BY <2>2 DEF Refused, Wanted
  <2> QED BY <2>2, <2>7, <2>8 DEF app_switch
<1>2. ASSUME Inv, [Next]_vars PROVE [P]_vars
  BY <1>1, <1>2
<1> QED BY <1>2, InitInv, NextKeepsInv, PTL DEF Spec, ReturnsFromOta

-----------------------------------------------------------------------------
(* The wakelock of an upgrade, with every window closed.                   *)

\* A wakelock is held exactly while an upgrade is on its way.
HeldInv == wake <= 1 /\ (wake = 1 => Asked)

\* The foreground application has a thread, and ota is current only if it runs.
RunsInv ==
    /\ actived_app # NoApp => app # "none"
    /\ mpc = "idle" /\ cur_index = Ota => actived_app = Ota

\* What main switches to is not what runs already.
MovingInv == mpc = "switch" => actived_app # cur_index

\* An ota application whose upgrade is over is left with main's next message.
LeaveInv ==
    actived_app = Ota /\ app = "loop" /\ ~force_locked /\ mpc = "idle" =>
        queue # <<>> /\ Head(queue).type = "last"

BalanceInv == HeldInv /\ RunsInv /\ MovingInv /\ LeaveInv

\* The balance holds initially.
LEMMA InitBalance == Init => BalanceInv
BY DEF Init, BalanceInv, HeldInv, RunsInv, MovingInv, LeaveInv

\* The steps of main in app_manager_active_app.
LEMMA ActiveBalance ==
    ASSUME Windows = {}, Inv, BalanceInv, ActiveApp \/ Waited
    PROVE  BalanceInv'
<1> USE DEF Inv, BalanceInv
<1>1. mpc \in {"switch", "wait"} /\ ~MutexFree /\ ~force_locked /\ ~upgrade
  BY DEF ActiveApp, Waited, MutexFree, LockInv
<1>2. UNCHANGED <<force_locked, cur_index, queue, ota_data, upgrade, wake>>
  BY DEF ActiveApp, Waited, lockVars, indexVars, plugVars, otaVars
<1>3. cur_index \in Apps /\ cur_index # NoApp
  BY <1>1 DEF LaunchInv
<1>4. \/ /\ mpc' = "idle" /\ inbox' = <<>> /\ actived_app = NoApp
         /\ actived_app' = cur_index /\ app' = "start"
      \/ mpc = "switch" /\ mpc' = "wait" /\ UNCHANGED <<actived_app, app>>
  <2>1. mpc = "switch" => inbox = <<>>
    BY <1>1 DEF InboxInv
  <2>2. Append(<<>>, "exit") # <<>>
    OBVIOUS
  <2> QED BY <1>3, <2>1, <2>2 DEF ActiveApp, Waited, StartApp, Sent, appVars, MovingInv, Open
<1>5. Asked => Asked'
  BY <1>1, <1>2, <1>4 DEF Asked, MutexFree
<1>6. HeldInv'
  BY <1>2, <1>5 DEF HeldInv
<1>7. RunsInv'
  BY <1>1, <1>2, <1>3, <1>4 DEF RunsInv
<1>8. MovingInv' /\ LeaveInv'
  BY <1>4 DEF MovingInv, LeaveInv
<1> QED BY <1>6, <1>7, <1>8

\* system_app_launch.
LEMMA LaunchBalance ==
    ASSUME Inv, BalanceInv, Launch
    PROVE  BalanceInv'
<1> USE DEF Inv, BalanceInv
<1>1. /\ mpc = "launch" /\ actived_app = NoApp /\ cur_index = NoApp /\ MutexFree
      /\ UNCHANGED <<force_locked, queue, actived_app, app, inbox, ota_data, upgrade, wake>>
  BY DEF Launch, lockVars, appVars, otaVars, LaunchInv, MutexFree
<1>2. \/ mpc' = "switch" /\ cur_index' # cur_index
      \/ mpc' = "idle" /\ cur_index' = cur_index
  BY DEF Launch, app_switch, indexVars
<1>3. Asked => Asked'
  BY <1>1 DEF Asked
<1>4. HeldInv' /\ RunsInv'
  BY <1>1, <1>2, <1>3 DEF HeldInv, RunsInv
<1>5. MovingInv' /\ LeaveInv'
  BY <1>1, <1>2 DEF MovingInv, LeaveInv
<1> QED BY <1>4, <1>5

\* A request to start ota is granted unless an upgrade has locked the switcher.
LEMMA StartGranted ==
    ASSUME Windows = {}, Inv, BalanceInv, Receive, ~force_locked,
           Head(queue) = Start(Ota)
    PROVE  mpc' = "switch" /\ cur_index' = Ota
<1> USE DEF Inv, BalanceInv
<1>1. mpc = "idle" /\ Handle(Start(Ota)) /\ (actived_app # Ota \/ app # "start")
  BY DEF Receive, Open
<1>2. Start(Ota).type = "start" /\ Start(Ota).app = Ota
  BY DEF Start
<1>3. app_switch(Ota, TRUE)
  BY <1>1, <1>2 DEF Handle
<1>4. actived_app # Ota
  <2> SUFFICES ASSUME actived_app = Ota PROVE FALSE
    OBVIOUS
  <2>1. app = "loop"
    BY <1>1 DEF RunsInv, TypeOK
  <2> QED BY <1>1, <1>2, <2>1 DEF LeaveInv
<1>5. cur_index # Ota
  BY <1>1, <1>4 DEF RunsInv
<1>6. ~Refused(Ota, TRUE) /\ Wanted(Ota, TRUE) = Ota
  BY <1>4 DEF Refused, Wanted
<1> QED BY <1>3, <1>5, <1>6 DEF app_switch

\* A request to go back to the last application is granted.
LEMMA LastGranted ==
    ASSUME Inv, Receive, Head(queue).type = "last"
    PROVE  mpc' = "switch"
<1> USE DEF Inv
<1>1. /\ mpc = "idle" /\ queue # <<>> /\ queue' = Tail(queue)
      /\ Handle(Head(queue))
  BY DEF Receive
<1>2. Head(queue) \in Messages /\ Head(queue) = queue[1] /\ 1 \in 1..Len(queue)
  BY <1>1, TakenFirst
<1>3. cur_index = Ota /\ ~force_locked /\ last_index \in Apps /\ last_index # Ota
  BY <1>2 DEF LastInv, Has, IndexInv
<1>4. Head(queue).app = NoApp
  BY <1>2 DEF Messages, Start, Other
<1>5. app_switch(NoApp, TRUE)
  BY <1>1, <1>4 DEF Handle
<1>6. ~Refused(NoApp, TRUE) /\ Wanted(NoApp, TRUE) = last_index
  BY <1>3 DEF Refused, Wanted
<1> QED BY <1>3, <1>5, <1>6 DEF app_switch

\* main receives and handles a message.
LEMMA ReceiveBalance ==
    ASSUME Windows = {}, Inv, BalanceInv, Receive
    PROVE  BalanceInv'
<1> USE DEF Inv, BalanceInv
<1> DEFINE m == Head(queue)
<1>1. /\ mpc = "idle" /\ queue # <<>> /\ queue' = Tail(queue) /\ Handle(m)
      /\ UNCHANGED <<force_locked, actived_app, app, wake>>
      /\ (actived_app # Ota \/ app # "start")
  BY DEF Receive, otaVars, Open
<1>2. m \in Messages /\ m = queue[1] /\ 1 \in 1..Len(queue)
  BY <1>1, TakenFirst
<1>3. MutexFree /\ actived_app \in {cur_index, NoApp}
  BY <1>1 DEF MutexFree, CurIsActive
<1>4. \A i \in 1..Len(queue) : i = 1 \/ \E j \in 1..Len(queue') : queue'[j] = queue[i]
  <2>1. queue \in Seq(Messages)
    BY DEF TypeOK
  <2>2. Len(queue') = Len(queue) - 1 /\ \A j \in 1..Len(queue') : queue'[j] = queue[j + 1]
    BY <1>1, <2>1
  <2> SUFFICES ASSUME NEW i \in 1..Len(queue), i # 1
               PROVE  \E j \in 1..Len(queue') : queue'[j] = queue[i]
    OBVIOUS
  <2>3. i - 1 \in 1..Len(queue') /\ (i - 1) + 1 = i
    BY <2>1, <2>2
  <2> QED BY <2>2, <2>3
<1> HIDE DEF m
<1>5. \/ mpc' = "idle" /\ UNCHANGED cur_index
      \/ mpc' = "switch" /\ cur_index' \in Apps /\ cur_index' # cur_index
      \/ mpc' = "off"
  BY <1>1, <1>2, HandleMoves
<1>7. m.type = "last" => mpc' = "switch"
  BY LastGranted DEF m
<1>8. m = Start(Ota) /\ ~force_locked => ~MutexFree' /\ cur_index' = Ota
  BY StartGranted DEF m, MutexFree
<1>9. HeldInv'
  <2>1. CASE wake = 0
    BY <1>1, <2>1 DEF HeldInv
  <2>2. CASE wake = 1
    <3>1. Asked
      BY <2>2 DEF HeldInv
    <3>2. Asked'
      <4>1. CASE force_locked
        BY <1>1, <4>1 DEF Asked
      <4>2. CASE ~force_locked /\ m = Start(Ota)
        BY <1>8, <4>2 DEF Asked
      <4>3. CASE ~force_locked /\ m # Start(Ota)
        <5>1. \E i \in 1..Len(queue) : queue[i] = Start(Ota)
          BY <1>1, <1>3, <3>1, <4>3 DEF Asked
        <5>2. \E j \in 1..Len(queue') : queue'[j] = Start(Ota)
          BY <1>2, <1>4, <4>3, <5>1
        <5> QED BY <5>2 DEF Asked
      <4> QED BY <4>1, <4>2, <4>3
    <3> QED BY <1>1, <2>2, <3>2 DEF HeldInv
  <2> QED BY <2>1, <2>2 DEF HeldInv, TypeOK
<1>10. RunsInv'
  BY <1>1, <1>5 DEF RunsInv
<1>11. MovingInv'
  BY <1>1, <1>3, <1>5 DEF MovingInv
<1>12. LeaveInv'
  <2> SUFFICES ASSUME actived_app = Ota, app = "loop", ~force_locked, mpc' = "idle"
               PROVE  FALSE
    BY <1>1 DEF LeaveInv
  <2>1. m.type = "last"
    BY <1>1 DEF LeaveInv, m
  <2> QED BY <1>7, <2>1
<1> QED BY <1>9, <1>10, <1>11, <1>12

\* The steps of the application's thread.
LEMMA AppBalance ==
    ASSUME Inv, BalanceInv, App
    PROVE  BalanceInv'
<1> USE DEF Inv, BalanceInv
<1>1. UNCHANGED <<cur_index, queue, mpc, wake>>
  BY DEF App, AppReady, AppFails, OtaInit, AppExit, lockVars, indexVars, plugVars, otaVars
<1>2. /\ Head(<<"init">>) = "init" /\ Head(<<"exit">>) = "exit"
  OBVIOUS
<1>3. CASE AppReady
  <2>1. app = "start" /\ app' = "loop" /\ UNCHANGED actived_app
    BY <1>3 DEF AppReady
  <2>2. \/ actived_app = Ota /\ force_locked'
        \/ actived_app # Ota /\ UNCHANGED force_locked
    BY <1>3 DEF AppReady
  <2>3. Asked => Asked'
    BY <1>1, <2>1, <2>2 DEF Asked, MutexFree
  <2>4. HeldInv' /\ RunsInv'
    BY <1>1, <2>1, <2>3 DEF HeldInv, RunsInv
  <2>5. MovingInv' /\ LeaveInv'
    BY <1>1, <2>1, <2>2 DEF MovingInv, LeaveInv
  <2> QED BY <2>4, <2>5
<1>4. CASE OtaInit
  <2>1. UNCHANGED <<force_locked, actived_app, app>>
    BY <1>4 DEF OtaInit, lockVars
  <2>2. HeldInv' /\ RunsInv'
    BY <1>1, <2>1 DEF HeldInv, RunsInv, Asked, MutexFree
  <2>3. MovingInv' /\ LeaveInv'
    BY <1>1, <2>1 DEF MovingInv, LeaveInv
  <2> QED BY <2>2, <2>3
<1>5. CASE AppExit \/ AppFails
  <2>1. actived_app' = NoApp /\ app' = "none" /\ UNCHANGED force_locked
    BY <1>5 DEF AppExit, AppFails, lockVars
  <2>2. actived_app # Ota \/ (app = "loop" /\ mpc \in {"wait", "off"})
    <3>1. CASE AppExit
      <4>1. inbox # <<>> /\ Head(inbox) = "exit" /\ app = "loop"
        BY <3>1 DEF AppExit
      <4> QED BY <1>2, <4>1 DEF InboxInv
    <3> QED BY <1>5, <3>1 DEF AppFails
  <2>3. Asked => Asked'
    BY <1>1, <2>1, <2>2 DEF Asked, MutexFree
  <2>4. HeldInv' /\ RunsInv'
    BY <1>1, <2>1, <2>2, <2>3 DEF HeldInv, RunsInv
  <2>5. MovingInv' /\ LeaveInv'
    BY <1>1, <2>1 DEF MovingInv, LeaveInv, LaunchInv
  <2> QED BY <2>4, <2>5
<1> QED BY <1>3, <1>4, <1>5 DEF App

\* A message at the end of main's queue leaves what is there.
LEMMA PostedKeeps ==
    ASSUME TypeOK, NEW m \in Messages, Windows = {}, Posted(m)
    PROVE  /\ \A i \in 1..Len(queue) : i \in 1..Len(queue') /\ queue'[i] = queue[i]
           /\ queue # <<>> => queue' # <<>> /\ Head(queue') = Head(queue)
           /\ \E i \in 1..Len(queue') : queue'[i] = m
           /\ queue = <<>> => queue' = <<m>>
<1>1. queue \in Seq(Messages) /\ queue' = Append(queue, m)
  BY DEF TypeOK, Posted, Open
<1>2. Len(queue') = Len(queue) + 1 /\ queue'[Len(queue) + 1] = m /\ Len(queue) \in Nat
  BY <1>1
<1>3. \A i \in 1..Len(queue) : i \in 1..Len(queue') /\ queue'[i] = queue[i]
  BY <1>1, <1>2
<1>4. queue # <<>> => queue' # <<>> /\ Head(queue') = Head(queue)
  BY <1>1, <1>2
<1>5. \E i \in 1..Len(queue') : queue'[i] = m
  <2>1. Len(queue) + 1 \in 1..Len(queue')
    BY <1>2
  <2> QED BY <1>2, <2>1
<1>6. queue = <<>> => queue' = <<m>>
  BY <1>1
<1> QED BY <1>3, <1>4, <1>5, <1>6

\* The other threads' requests, and the start of an upgrade.
LEMMA PostBalance ==
    ASSUME Windows = {}, Inv, BalanceInv, NEW m \in Messages,
           UNCHANGED <<force_locked, cur_index, mpc, actived_app, app>>,
           \/ wake' = wake /\ (Posted(m) \/ UNCHANGED queue)
           \/ wake = 0 /\ wake' = 1 /\ m = Start(Ota) /\ Posted(m)
    PROVE  BalanceInv'
<1> USE DEF Inv, BalanceInv
<1>1. /\ \A i \in 1..Len(queue) : i \in 1..Len(queue') /\ queue'[i] = queue[i]
      /\ queue # <<>> => queue' # <<>> /\ Head(queue') = Head(queue)
      /\ wake' # wake => \E i \in 1..Len(queue') : queue'[i] = Start(Ota)
  <2>1. CASE UNCHANGED queue /\ wake' = wake
    BY <2>1
  <2>2. CASE Posted(m)
    BY <2>2, PostedKeeps
  <2> QED BY <2>1, <2>2
<1>2. Asked => Asked'
  BY <1>1 DEF Asked, MutexFree
<1>3. HeldInv'
  BY <1>1, <1>2 DEF HeldInv, Asked
<1>4. RunsInv' /\ MovingInv' /\ LeaveInv'
  BY <1>1 DEF RunsInv, MovingInv, LeaveInv
<1> QED BY <1>3, <1>4

\* The end of an upgrade.
LEMMA StopBalance ==
    ASSUME Windows = {}, Inv, BalanceInv, OtaStop
    PROVE  BalanceInv'
<1> USE DEF Inv, BalanceInv
<1> DEFINE m == Other("last")
<1>1. /\ upgrade /\ MutexFree /\ queue = <<>> /\ ~force_locked' /\ Posted(m)
      /\ wake' = wake - 1
      /\ UNCHANGED <<cur_index, mpc, actived_app, app, inbox, ota_data>>
  BY DEF OtaStop, indexVars, plugVars, appVars, Open
<1>2. m \in Messages /\ m.type = "last"
  BY DEF Messages, Other
<1> HIDE DEF m
<1>3. queue' = <<m>>
  BY <1>1, <1>2, PostedKeeps
<1>4. queue' # <<>> /\ Head(queue') = m
  BY <1>3
<1>5. HeldInv'
  <2>1. wake \in 0..1 /\ Asked
    BY <1>1 DEF HeldInv, LockInv, TypeOK, Asked
  <2>2. wake = 1
    BY <2>1 DEF WakeInv
  <2> QED BY <1>1, <2>2 DEF HeldInv
<1>6. RunsInv' /\ MovingInv'
  BY <1>1 DEF RunsInv, MovingInv
<1>7. LeaveInv'
  BY <1>2, <1>4 DEF LeaveInv
<1> QED BY <1>5, <1>6, <1>7

\* Every step keeps the balance.
LEMMA NextBalance ==
    ASSUME Windows = {}, Inv, BalanceInv, [Next]_vars
    PROVE  BalanceInv'
<1>1. CASE Main
  BY <1>1, LaunchBalance, ActiveBalance, ReceiveBalance DEF Main
<1>2. CASE App
  BY <1>2, AppBalance
<1>3. ASSUME NEW m \in Messages, Post(m) PROVE BalanceInv'
  BY <1>3, PostBalance DEF Post, lockVars, indexVars, plugVars, appVars, otaVars
<1>4. CASE (\E m \in Requests : Post(m)) \/ PostPowerOff
  <2>1. Requests \subseteq Messages /\ Other("poweroff") \in Messages
    BY DEF Requests, Messages, Start, Other
  <2> QED BY <1>3, <1>4, <2>1 DEF PostPowerOff
<1>5. CASE OtaStart
  <2>1. Start(Ota) \in Messages
    BY DEF Messages
  <2>2. /\ UNCHANGED <<force_locked, cur_index, mpc, actived_app, app>>
        /\ wake = 0
        /\ (Posted(Start(Ota)) /\ wake' = wake + 1) \/ UNCHANGED <<queue, wake>>
    BY <1>5 DEF OtaStart, Open, Inv, TypeOK, lockVars, indexVars, appVars
  <2> QED BY <2>1, <2>2, PostBalance
<1>6. CASE OtaStop
  BY <1>6, StopBalance
<1>7. CASE UNCHANGED vars
  <2> USE <1>7 DEF vars
  <2>1. Asked' = Asked
    BY DEF Asked, MutexFree
  <2> QED BY <2>1 DEF BalanceInv, HeldInv, RunsInv, MovingInv, LeaveInv
<1>8. CASE DongleStart
  <2>1. UNCHANGED <<force_locked, cur_index, queue, mpc, actived_app, app, wake>>
    BY <1>8 DEF DongleStart, lockVars, indexVars, appVars
  <2>2. Asked' = Asked
    BY <2>1 DEF Asked, MutexFree
  <2> QED BY <2>1, <2>2 DEF BalanceInv, HeldInv, RunsInv, MovingInv, LeaveInv
<1> QED BY <1>1, <1>2, <1>4, <1>5, <1>6, <1>7, <1>8 DEF Next, Off

\* With every window closed the upgrade's FULL_WAKE_LOCK is held only while an
\* upgrade is asked for or under way (ota_app_start, ota_app_stop), for any list
\* of applications and any number of messages pending at main.
THEOREM WakeAlwaysBalanced ==
    ASSUME Windows = {}
    PROVE  Spec => []WakeBalanced
<1>1. ~Open("end") /\ ~Open("poweroff") /\ ~Open("exit_lost")
  BY DEF Open
<1>2. Inv /\ [Next]_vars => Inv'
  BY <1>1, NextKeepsInv
<1>3. Inv /\ BalanceInv /\ [Next]_vars => BalanceInv'
  BY NextBalance
<1>4. Inv /\ BalanceInv => WakeBalanced
  BY DEF Inv, TypeOK, BalanceInv, HeldInv, Asked, LockInv, WakeBalanced
<1> QED BY <1>2, <1>3, <1>4, InitInv, InitBalance, PTL DEF Spec
=============================================================================
