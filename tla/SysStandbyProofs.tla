-------------------------- MODULE SysStandbyProofs --------------------------
(***************************************************************************)
(* Proofs about SysStandby for any limits, bounds and width of the clock.  *)
(* Each theorem names the windows it needs closed and allows the others.   *)
(***************************************************************************)
EXTENDS SysStandby, TLAPS

USE TimesAssumption, MaxRefAssumption

\* Types hold initially.
LEMMA InitType == Init => TypeOK
<1> SUFFICES ASSUME Init PROVE TypeOK
  OBVIOUS
<1>1. ref \in [LockTypes -> 0..MaxRef] /\ idle \in [LockTypes -> 0..MaxIdle]
  BY DEF Init
<1>2. timer \in 0..PowerdownTime /\ suspended \in SUBSET Parts
  BY DEF Init
<1> QED BY <1>1, <1>2 DEF Init, TypeOK

\* The time a free lock reports, and the timer that is set from two of them.
LEMMA FreeTimeType ==
    ASSUME TypeOK, NEW t \in LockTypes
    PROVE  sys_wakelocks_get_free_time(t) \in 0..MaxIdle
BY DEF TypeOK, sys_wakelocks_get_free_time

\* The power-off timer is set to a time within its limit.
LEMMA TimerType ==
    ASSUME TypeOK, auto_powerdown_time # Never, TimeToPowerdown > 0
    PROVE  TimeToPowerdown \in 0..PowerdownTime
<1>1. /\ sys_wakelocks_get_free_time("FULL") \in 0..MaxIdle
      /\ sys_wakelocks_get_free_time("PARTIAL") \in 0..MaxIdle
  BY FreeTimeType DEF LockTypes
<1> QED BY <1>1 DEF TypeOK, TimeToPowerdown, U32

\* Restarting idle times keeps them in range.
LEMMA RestartedType ==
    ASSUME TypeOK, NEW t \in LockTypes
    PROVE  Restarted(t) \in [LockTypes -> 0..MaxIdle]
BY DEF TypeOK, Restarted

\* Main's own steps keep the types.
LEMMA MainType ==
    ASSUME TypeOK, Main
    PROVE  TypeOK'
<1> USE DEF lockVars, timeVars, sleepVars
<1>1. CASE AutoPowerdown
  BY <1>1 DEF AutoPowerdown, SendPowerOff, Sent, TypeOK
<1>2. CASE ProcessNormal
  BY <1>2 DEF ProcessNormal, TypeOK
<1>3. CASE ExitS1
  BY <1>3 DEF ExitS1, TypeOK
<1>4. CASE EnterS2
  BY <1>4 DEF EnterS2, TypeOK, Parts
<1>5. CASE SuspendApp
  BY <1>5 DEF SuspendApp, SuspendPart, Sent, TypeOK, Parts
<1>6. CASE SuspendServices
  BY <1>6 DEF SuspendServices, SuspendPart, Sent, TypeOK, Parts
<1>7. CASE ArmTimer
  <2>1. timer' \in 0..PowerdownTime
    BY <1>7, TimerType DEF ArmTimer, TypeOK
  <2> QED BY <1>7, <2>1 DEF ArmTimer, TypeOK
<1>8. CASE EnterS3
  BY <1>8 DEF EnterS3, TypeOK
<1>9. CASE ExitS2
  BY <1>9 DEF ExitS2, Sent, TypeOK, Parts
<1>10. CASE ResumeApp
  BY <1>10 DEF ResumeApp, Sent, TypeOK, Parts
<1>11. CASE CheckPowerdown
  BY <1>11 DEF CheckPowerdown, SendPowerOff, Sent, TypeOK
<1>12. CASE StopTimer
  <2>1. idle' \in [LockTypes -> 0..MaxIdle]
    BY <1>12, RestartedType DEF StopTimer, LockTypes
  <2>2. timer' \in 0..PowerdownTime
    BY <1>12 DEF StopTimer
  <2> QED BY <1>12, <2>1, <2>2 DEF StopTimer, TypeOK
<1> QED BY <1>1, <1>2, <1>3, <1>4, <1>5, <1>6, <1>7, <1>8, <1>9, <1>10, <1>11,
           <1>12 DEF Main

\* Holders, hardware and the rest of main keep the types.
LEMMA OthersType ==
    ASSUME TypeOK,
           CheckAutoStandby \/ HandlePowerOff \/ Holders \/ Hardware \/ RequestFastStandby
    PROVE  TypeOK'
<1> USE DEF lockVars, timeVars, sleepVars
<1>1. CASE CheckAutoStandby
  <2>1. idle' \in [LockTypes -> 0..MaxIdle]
    <3>1. "FULL" \in LockTypes
      BY DEF LockTypes
    <3> QED BY <1>1, <3>1, RestartedType DEF CheckAutoStandby, TypeOK
  <2>2. force_standby' \in BOOLEAN
    BY <1>1, Zenon DEF CheckAutoStandby, TypeOK
  <2>3. /\ auto_standby_time' \in {StandbyTime, Never}
        /\ auto_powerdown_time' \in {PowerdownTime, Never}
    BY <1>1 DEF CheckAutoStandby, Limit
  <2>4. UNCHANGED <<ref, standby_state, auto_powerdown, timer, suspended,
                    b_enter_sleep, asleep, wakeup_flag, wksrc, poweroff, pc>>
    BY <1>1 DEF CheckAutoStandby
  <2> QED BY <2>1, <2>2, <2>3, <2>4 DEF TypeOK
<1>2. CASE HandlePowerOff
  BY <1>2 DEF HandlePowerOff, TypeOK
<1>3. ASSUME NEW t \in LockTypes, sys_wake_lock(t)
      PROVE  TypeOK'
  <2>1. ref' \in [LockTypes -> 0..MaxRef] /\ idle' \in [LockTypes -> 0..MaxIdle]
    BY <1>3 DEF sys_wake_lock, TypeOK
  <2> QED BY <1>3, <2>1 DEF sys_wake_lock, TypeOK
<1>4. ASSUME NEW t \in LockTypes, sys_wake_unlock(t)
      PROVE  TypeOK'
  <2>1. ref' \in [LockTypes -> 0..MaxRef] /\ idle' \in [LockTypes -> 0..MaxIdle]
    BY <1>4, RestartedType DEF sys_wake_unlock, TypeOK
  <2>2. force_standby' \in BOOLEAN
    BY <1>4 DEF sys_wake_unlock
  <2> QED BY <1>4, <2>1, <2>2 DEF sys_wake_unlock, TypeOK
<1>5. CASE Tick
  <2>1. idle' \in [LockTypes -> 0..MaxIdle] /\ timer' \in 0..PowerdownTime
    BY <1>5 DEF Tick, TypeOK
  <2>2. auto_powerdown' \in BOOLEAN /\ asleep' \in BOOLEAN /\ wakeup_flag' \in BOOLEAN
    BY <1>5 DEF Tick
  <2>3. wksrc' \in {"BT", "other"}
    BY <1>5 DEF Tick, TypeOK
  <2> QED BY <1>5, <2>1, <2>2, <2>3 DEF Tick, TypeOK
<1>6. CASE EnterDeepSleep
  <2>1. b_enter_sleep' \in BOOLEAN /\ asleep' \in BOOLEAN
    BY <1>6, Zenon DEF EnterDeepSleep
  <2> QED BY <1>6, <2>1 DEF EnterDeepSleep, TypeOK
<1>7. ASSUME NEW src \in {"BT", "other"}, WakeUp(src)
      PROVE  TypeOK'
  <2>1. asleep' \in BOOLEAN /\ wakeup_flag' \in BOOLEAN /\ wksrc' \in {"BT", "other"}
    BY <1>7, Zenon DEF WakeUp
  <2> QED BY <1>7, <2>1 DEF WakeUp, TypeOK
<1>8. CASE RequestFastStandby
  BY <1>8 DEF RequestFastStandby, TypeOK
<1> QED BY <1>1, <1>2, <1>3, <1>4, <1>5, <1>6, <1>7, <1>8 DEF Holders, Hardware

\* Types are inductive.
LEMMA StepType == TypeOK /\ [Next]_vars => TypeOK'
<1> SUFFICES ASSUME TypeOK, [Next]_vars PROVE TypeOK'
  OBVIOUS
<1>1. CASE UNCHANGED vars
  BY <1>1 DEF vars, TypeOK
<1>2. CASE Next
  BY <1>2, MainType, OthersType DEF Next
<1> QED BY <1>1, <1>2

\* Type correctness: the reference counts of the wakelocks and the limit of
\* the power-off timer included.
THEOREM TypeCorrect == Spec => []TypeOK
BY InitType, StepType, PTL DEF Spec

-----------------------------------------------------------------------------
(* Sleep, wakelocks and the wake-up flag.                                  *)

\* From the last check of the wakelocks on, the request included, none is held.
SleepReady == b_enter_sleep \/ asleep => Unlocked

\* With wakelock_before_sleep closed no step takes a lock past that check.
LEMMA StepSleepReady ==
    ASSUME "wakelock_before_sleep" \notin Windows, SleepReady, [Next]_vars
    PROVE  SleepReady'
<1> USE DEF SleepReady, Unlocked, lockVars, timeVars, sleepVars
<1>1. CASE UNCHANGED vars
  BY <1>1 DEF vars
<1>2. CASE Main
  <2>1. CASE EnterS3
    BY <2>1 DEF EnterS3
  <2>2. CASE ~EnterS3
    <3>1. UNCHANGED <<ref, b_enter_sleep, asleep>>
      BY <1>2, <2>2 DEF Main, AutoPowerdown, ProcessNormal, ExitS1, EnterS2, SuspendApp,
         SuspendServices, SuspendPart, ArmTimer, ExitS2, ResumeApp,
         CheckPowerdown, StopTimer
    <3> QED BY <3>1
  <2> QED BY <2>1, <2>2
<1>3. CASE CheckAutoStandby \/ HandlePowerOff \/ RequestFastStandby
  <2>1. UNCHANGED <<ref, b_enter_sleep, asleep>>
    BY <1>3 DEF CheckAutoStandby, HandlePowerOff, RequestFastStandby
  <2> QED BY <2>1
<1>4. CASE Holders
  <2>1. UNCHANGED <<b_enter_sleep, asleep>> /\ HoldersRun
    BY <1>4 DEF Holders, sys_wake_lock, sys_wake_unlock
  <2> QED BY <2>1 DEF HoldersRun
<1>5. CASE Tick
  BY <1>5 DEF Tick
<1>6. CASE EnterDeepSleep
  BY <1>6 DEF EnterDeepSleep
<1>7. ASSUME NEW src \in {"BT", "other"}, WakeUp(src)
      PROVE  SleepReady'
  BY <1>7 DEF WakeUp
<1> QED BY <1>1, <1>2, <1>3, <1>4, <1>5, <1>6, <1>7 DEF Next, Hardware

\* A request, a sleep or the flag is there as long as main waits.
LEMMA StepWaits ==
    ASSUME "device_refuses" \notin Windows, WaitsForWakeUp, [Next]_vars
    PROVE  WaitsForWakeUp'
<1> USE DEF WaitsForWakeUp, lockVars, timeVars, sleepVars
<1>1. CASE UNCHANGED vars
  BY <1>1 DEF vars
<1>2. CASE Main
  <2>1. CASE EnterS3
    BY <2>1 DEF EnterS3
  <2>2. CASE ~EnterS3
    <3>1. /\ UNCHANGED <<b_enter_sleep, asleep, wakeup_flag>>
          /\ pc' = "wait" => pc = "wait"
      BY <1>2, <2>2 DEF Main, AutoPowerdown, ProcessNormal, ExitS1, EnterS2, SuspendApp,
         SuspendServices, SuspendPart, ArmTimer, ExitS2, ResumeApp,
         CheckPowerdown, StopTimer
    <3> QED BY <3>1
  <2> QED BY <2>1, <2>2
<1>3. CASE CheckAutoStandby \/ HandlePowerOff \/ RequestFastStandby \/ Holders
  <2>1. UNCHANGED <<b_enter_sleep, asleep, wakeup_flag, pc>>
    BY <1>3 DEF CheckAutoStandby, HandlePowerOff, RequestFastStandby, Holders,
       sys_wake_lock, sys_wake_unlock
  <2> QED BY <2>1
<1>4. CASE Tick
  BY <1>4 DEF Tick
<1>5. CASE EnterDeepSleep
  BY <1>5 DEF EnterDeepSleep
<1>6. ASSUME NEW src \in {"BT", "other"}, WakeUp(src)
      PROVE  WaitsForWakeUp'
  BY <1>6 DEF WakeUp
<1> QED BY <1>1, <1>2, <1>3, <1>4, <1>5, <1>6 DEF Next, Hardware

\* If every device suspends, the wait loop of enter_s3 never waits for a
\* wake-up that cannot come.
THEOREM WaitsAlwaysForWakeUp ==
    ASSUME "device_refuses" \notin Windows
    PROVE  Spec => []WaitsForWakeUp
<1>1. Init => WaitsForWakeUp
  BY DEF Init, WaitsForWakeUp
<1>2. WaitsForWakeUp /\ [Next]_vars => WaitsForWakeUp'
  BY StepWaits
<1> QED BY <1>1, <1>2, PTL DEF Spec

-----------------------------------------------------------------------------
(* Suspend and resume.                                                     *)

\* Who is suspended at each place main can be, and in which state.
Stage ==
    /\ b_enter_sleep \/ asleep => pc = "wait" /\ ~wakeup_flag
    /\ asleep => ~b_enter_sleep
    /\ pc = "cycle" =>
          \/ standby_state \in {"NORMAL", "S1"} /\ suspended = {}
          \/ standby_state = "S2" /\ suspended = Parts
    /\ pc \in {"sus_app", "stuck"} => standby_state = "S2" /\ suspended = {"notifier"}
    /\ pc = "sus_srv" => standby_state = "S2" /\ suspended = {"notifier", "app"}
    /\ pc \in {"sus_app", "sus_srv"} => Unlocked
    /\ pc = "s2" => standby_state = "S2" /\ suspended = Parts
    /\ pc = "wait" => standby_state = "S3" /\ suspended = Parts
    /\ pc = "res_app" => standby_state = "S1" /\ suspended = {"notifier", "app"}
    /\ pc \in {"resumed", "stop"} => standby_state = "S1" /\ suspended = {}

\* Main walks through the stages in order.
LEMMA MainStage ==
    ASSUME "pool" \notin Windows, Stage, Main
    PROVE  Stage'
<1> USE DEF Stage, lockVars, timeVars, sleepVars
<1>0. Sent = {TRUE}
  BY DEF Sent
<1>1. CASE AutoPowerdown
  BY <1>1 DEF AutoPowerdown
<1>2. CASE ProcessNormal
  BY <1>2 DEF ProcessNormal, Work
<1>3. CASE ExitS1
  BY <1>3 DEF ExitS1, Work
<1>4. CASE EnterS2
  <2>1. /\ standby_state' = "S2" /\ suspended' = {"notifier"}
        /\ pc' \in {"sus_app", "stuck"} /\ ~b_enter_sleep' /\ ~asleep'
    BY <1>4 DEF EnterS2, Work
  <2>2. Unlocked'
    BY <1>4 DEF EnterS2, Unlocked
  <2> QED BY <2>1, <2>2
<1>5. CASE SuspendApp
  <2>1. /\ standby_state' = "S2" /\ suspended' = {"notifier", "app"}
        /\ pc' = "sus_srv" /\ ~b_enter_sleep' /\ ~asleep'
    BY <1>0, <1>5 DEF SuspendApp, SuspendPart
  <2>2. Unlocked'
    BY <1>5 DEF SuspendApp, SuspendPart, Unlocked
  <2> QED BY <2>1, <2>2
<1>6. CASE SuspendServices
  BY <1>0, <1>6 DEF SuspendServices, SuspendPart, Parts
<1>7. CASE ArmTimer
  BY <1>7 DEF ArmTimer, Work
<1>8. CASE EnterS3
  BY <1>8 DEF EnterS3
<1>9. CASE ExitS2
  <2>1. suspended = Parts /\ suspended' = suspended \ {"srv"}
    BY <1>0, <1>9 DEF ExitS2
  <2>2. standby_state' = "S1" /\ pc' = "res_app" /\ suspended' = {"notifier", "app"}
    BY <1>9, <2>1 DEF ExitS2, Parts
  <2>3. ~b_enter_sleep' /\ ~asleep'
    BY <1>9, <2>2 DEF ExitS2
  <2> QED BY <2>2, <2>3
<1>10. CASE ResumeApp
  BY <1>0, <1>10 DEF ResumeApp
<1>11. CASE CheckPowerdown
  BY <1>11 DEF CheckPowerdown
<1>12. CASE StopTimer
  BY <1>12 DEF StopTimer
<1> QED BY <1>1, <1>2, <1>3, <1>4, <1>5, <1>6, <1>7, <1>8, <1>9, <1>10, <1>11,
           <1>12 DEF Main

\* Nobody else moves main or tells a part to suspend or resume; a wakelock
\* taken during the suspend notifications would, hence the closed window.
LEMMA StepStage ==
    ASSUME "pool" \notin Windows, "wakelock_in_suspend" \notin Windows,
           Stage, [Next]_vars
    PROVE  Stage'
<1> USE DEF lockVars, timeVars, sleepVars
<1>1. CASE UNCHANGED vars
  BY <1>1 DEF vars, Stage, Unlocked
<1>2. CASE Main
  BY <1>2, MainStage
<1>3. CASE CheckAutoStandby \/ HandlePowerOff \/ RequestFastStandby
  <2>1. UNCHANGED <<ref, b_enter_sleep, asleep, wakeup_flag, pc, standby_state, suspended>>
    BY <1>3 DEF CheckAutoStandby, HandlePowerOff, RequestFastStandby
  <2> QED BY <2>1 DEF Stage, Unlocked
<1>4. CASE Holders
  <2>1. /\ UNCHANGED <<b_enter_sleep, asleep, wakeup_flag, pc, standby_state, suspended>>
        /\ HoldersRun
    BY <1>4 DEF Holders, sys_wake_lock, sys_wake_unlock
  <2> QED BY <2>1 DEF HoldersRun, Stage
<1>5. CASE Tick
  <2>1. /\ UNCHANGED <<ref, b_enter_sleep, pc, standby_state, suspended>>
        /\ asleep' => asleep
    BY <1>5 DEF Tick
  <2>2. b_enter_sleep' \/ asleep' => pc' = "wait" /\ ~wakeup_flag'
    BY <1>5 DEF Tick, Stage
  <2> QED BY <2>1, <2>2 DEF Stage, Unlocked
<1>6. CASE EnterDeepSleep
  <2>1. /\ UNCHANGED <<ref, pc, standby_state, suspended, wakeup_flag>>
        /\ b_enter_sleep /\ ~b_enter_sleep'
    BY <1>6 DEF EnterDeepSleep
  <2> QED BY <2>1 DEF Stage, Unlocked
<1>7. ASSUME NEW src \in {"BT", "other"}, WakeUp(src)
      PROVE  Stage'
  <2>1. /\ UNCHANGED <<ref, pc, standby_state, suspended, b_enter_sleep>>
        /\ asleep /\ ~asleep'
    BY <1>7 DEF WakeUp
  <2> QED BY <2>1 DEF Stage, Unlocked
<1> QED BY <1>1, <1>2, <1>3, <1>4, <1>5, <1>6, <1>7 DEF Next, Hardware

\* Every part is suspended when the processor sleeps and resumed before the
\* screen is on, unless a notification is lost for want of a message or a
\* wakelock is taken during the suspend notifications (sys_standby.c:168).
THEOREM SuspendedAlwaysInStandby ==
    ASSUME "pool" \notin Windows, "wakelock_in_suspend" \notin Windows
    PROVE  Spec => []SuspendedExactlyInStandby
<1>1. Init => Stage
  BY DEF Init, Stage
<1>2. Stage /\ [Next]_vars => Stage'
  BY StepStage
<1>3. TypeOK /\ Stage => SuspendedExactlyInStandby
  BY DEF TypeOK, Stage, SuspendedExactlyInStandby
<1> QED BY <1>1, <1>2, <1>3, TypeCorrect, PTL DEF Spec

-----------------------------------------------------------------------------
(* The automatic power-off.                                                *)

\* While FULL is free PARTIAL has not been free for longer, because the release
\* of FULL restarts both idle times.
PartialNotLonger ==
    ref["FULL"] = 0 => sys_wakelocks_get_free_time("PARTIAL") <= idle["FULL"]

\* The timer runs only from process_s2 to hrtimer_stop, and until the sleep
\* is over it never expires before FULL has been free for the limit.
TimerCovers ==
    /\ timer > 0 => pc \in {"s2", "wait", "res_app", "resumed", "stop"}
    /\ auto_powerdown => timer = 0
    /\ b_enter_sleep \/ asleep => pc = "wait" /\ ~wakeup_flag
    /\ asleep => ~b_enter_sleep
    /\ timer > 0 /\ ref["FULL"] = 0 /\ (pc = "s2" \/ b_enter_sleep \/ asleep) =>
          idle["FULL"] + timer >= PowerdownTime

\* The strengthening the power-off needs.
PowerInv == TypeOK /\ SleepReady /\ PartialNotLonger /\ TimerCovers

\* The integer arithmetic of process_s2: what the timer is set to covers what
\* is left of the limit for FULL.
LEMMA ArmedCovers ==
    ASSUME TypeOK, PartialNotLonger, ref["FULL"] = 0,
           auto_powerdown_time # Never, TimeToPowerdown > 0
    PROVE  idle["FULL"] + TimeToPowerdown >= PowerdownTime
<1>1. /\ sys_wakelocks_get_free_time("FULL") = idle["FULL"]
      /\ idle["FULL"] \in 0..MaxIdle
      /\ sys_wakelocks_get_free_time("PARTIAL") \in 0..MaxIdle
      /\ sys_wakelocks_get_free_time("PARTIAL") <= idle["FULL"]
      /\ auto_powerdown_time = PowerdownTime
  BY FreeTimeType DEF LockTypes, TypeOK, sys_wakelocks_get_free_time, PartialNotLonger
<1> QED BY <1>1 DEF TimeToPowerdown, U32

\* Main's steps keep the strengthening: the timer is set in ArmTimer, carried
\* through the sleep and stopped before the next round.
LEMMA MainPower ==
    ASSUME PowerInv, Main
    PROVE  PartialNotLonger' /\ TimerCovers'
<1> USE DEF PowerInv, lockVars, timeVars, sleepVars
<1>1. CASE ArmTimer
  <2>1. /\ UNCHANGED <<ref, idle, b_enter_sleep, asleep>>
        /\ pc = "cycle" /\ pc' = "s2" /\ ~auto_powerdown'
    BY <1>1 DEF ArmTimer, Work
  <2>2. ~b_enter_sleep /\ ~asleep /\ ~(timer > 0)
    BY <2>1 DEF TimerCovers
  <2>3. timer' > 0 => auto_powerdown_time # Never /\ TimeToPowerdown > 0
                      /\ timer' = TimeToPowerdown
    BY <1>1, <2>2 DEF ArmTimer
  <2>4. timer' > 0 /\ ref["FULL"] = 0 => idle["FULL"] + timer' >= PowerdownTime
    BY <2>3, ArmedCovers
  <2> QED BY <2>1, <2>2, <2>4 DEF TimerCovers, PartialNotLonger, sys_wakelocks_get_free_time
<1>2. CASE EnterS3
  BY <1>2 DEF EnterS3, TimerCovers, PartialNotLonger, sys_wakelocks_get_free_time
<1>3. CASE StopTimer
  <2>1. /\ UNCHANGED <<ref, b_enter_sleep, asleep>> /\ timer' = 0
        /\ pc = "stop" /\ ~b_enter_sleep /\ ~asleep
    BY <1>3 DEF StopTimer, TimerCovers
  <2>2. PartialNotLonger'
    BY <1>3, <2>1 DEF StopTimer, PartialNotLonger, sys_wakelocks_get_free_time, Restarted,
       LockTypes, TypeOK
  <2> QED BY <2>1, <2>2 DEF TimerCovers
<1>4. CASE ~ArmTimer /\ ~EnterS3 /\ ~StopTimer
  <2>1. UNCHANGED <<ref, idle, timer, b_enter_sleep, asleep, wakeup_flag>>
    BY <1>4 DEF Main, AutoPowerdown, ProcessNormal, ExitS1, EnterS2, SuspendApp,
       SuspendServices, SuspendPart, ExitS2, ResumeApp, CheckPowerdown
  <2>2. CASE ExitS2
    BY <2>1, <2>2 DEF ExitS2, TimerCovers, PartialNotLonger, sys_wakelocks_get_free_time
  <2>3. CASE ~ExitS2
    <3>1. /\ pc \in {"res_app", "resumed"} \/ ~(timer > 0)
          /\ pc # "wait" /\ pc' # "wait" /\ pc' # "s2"
          /\ pc = "res_app" => pc' = "resumed"
          /\ pc = "resumed" => pc' = "stop" \/ (auto_powerdown /\ pc' = "cycle")
      BY <1>4, <2>3 DEF Main, AutoPowerdown, ProcessNormal, ExitS1, EnterS2, SuspendApp,
         SuspendServices, SuspendPart, ResumeApp, CheckPowerdown, Work, TimerCovers
    <3>2. auto_powerdown' => timer = 0
      <4>1. auto_powerdown' => auto_powerdown \/ pc = "cycle"
        BY <1>4, <2>3 DEF Main, AutoPowerdown, ProcessNormal, ExitS1, EnterS2, SuspendApp,
           SuspendServices, SuspendPart, ResumeApp, CheckPowerdown
      <4> QED BY <4>1 DEF TimerCovers, TypeOK
    <3> QED BY <2>1, <3>1, <3>2
            DEF TimerCovers, PartialNotLonger, sys_wakelocks_get_free_time
  <2> QED BY <2>2, <2>3
<1> QED BY <1>1, <1>2, <1>3, <1>4

\* So do time, the idle thread, the holders and the rest of main.
LEMMA OthersPower ==
    ASSUME "wakelock_before_sleep" \notin Windows, "timer_awake" \notin Windows,
           PowerInv,
           CheckAutoStandby \/ HandlePowerOff \/ Holders \/ Hardware \/ RequestFastStandby
    PROVE  PartialNotLonger' /\ TimerCovers'
<1> USE DEF PowerInv, lockVars, timeVars, sleepVars
<1>1. CASE CheckAutoStandby
  <2>1. /\ UNCHANGED <<ref, timer, b_enter_sleep, asleep, wakeup_flag, auto_powerdown, pc>>
        /\ pc = "cycle" /\ idle' \in {idle, Restarted("FULL")}
    BY <1>1 DEF CheckAutoStandby
  <2>2. PartialNotLonger'
    BY <2>1 DEF PartialNotLonger, sys_wakelocks_get_free_time, Restarted, LockTypes, TypeOK
  <2> QED BY <2>1, <2>2 DEF TimerCovers
<1>2. CASE HandlePowerOff \/ RequestFastStandby
  <2>1. UNCHANGED <<ref, idle, timer, b_enter_sleep, asleep, wakeup_flag, auto_powerdown, pc>>
    BY <1>2 DEF HandlePowerOff, RequestFastStandby
  <2> QED BY <2>1 DEF PartialNotLonger, sys_wakelocks_get_free_time, TimerCovers
<1>3. ASSUME NEW t \in LockTypes, sys_wake_lock(t) \/ sys_wake_unlock(t)
      PROVE  PartialNotLonger' /\ TimerCovers'
  <2>1. /\ UNCHANGED <<timer, b_enter_sleep, asleep, wakeup_flag, auto_powerdown, pc>>
        /\ ~asleep /\ ~b_enter_sleep /\ pc # "s2"
    BY <1>3 DEF sys_wake_lock, sys_wake_unlock, HoldersRun
  <2>2. PartialNotLonger'
    <3>1. CASE sys_wake_lock(t)
      BY <3>1 DEF sys_wake_lock, PartialNotLonger, sys_wakelocks_get_free_time,
         LockTypes, TypeOK
    <3>2. CASE sys_wake_unlock(t)
      BY <3>2 DEF sys_wake_unlock, Restarted, PartialNotLonger,
         sys_wakelocks_get_free_time, LockTypes, TypeOK
    <3> QED BY <1>3, <3>1, <3>2
  <2>3. TimerCovers'
    BY <2>1 DEF TimerCovers
  <2> QED BY <2>2, <2>3
<1>4. CASE Tick
  <2>1. /\ UNCHANGED <<ref, b_enter_sleep, pc>> /\ (asleep' => asleep)
        /\ timer' = IF timer > 0 THEN timer - 1 ELSE 0
        /\ timer \in 0..PowerdownTime
        /\ timer = 1 => asleep
    BY <1>4 DEF Tick, TypeOK
  <2>2. PartialNotLonger'
    BY <1>4 DEF Tick, PartialNotLonger, sys_wakelocks_get_free_time, LockTypes, TypeOK
  <2>3. ref["FULL"] = 0 => idle'["FULL"] = idle["FULL"] + 1 \/ idle'["FULL"] >= PowerdownTime
    BY <1>4 DEF Tick, LockTypes, TypeOK
  <2>4. /\ auto_powerdown' => timer' = 0
        /\ b_enter_sleep' \/ asleep' => pc' = "wait" /\ ~wakeup_flag'
        /\ asleep' => ~b_enter_sleep'
    <3>0. /\ auto_powerdown' => auto_powerdown \/ timer = 1
          /\ asleep' => ~(timer = 1)
          /\ wakeup_flag' => wakeup_flag \/ (asleep /\ timer = 1)
      BY <1>4, Zenon DEF Tick
    <3>1. auto_powerdown' => timer' = 0
      BY <2>1, <3>0 DEF TimerCovers
    <3>2. /\ b_enter_sleep' \/ asleep' => pc' = "wait" /\ ~wakeup_flag'
          /\ asleep' => ~b_enter_sleep'
      BY <2>1, <3>0 DEF TimerCovers
    <3> QED BY <3>1, <3>2
  <2>5. idle["FULL"] \in Nat /\ idle'["FULL"] \in Nat
    BY <1>4 DEF Tick, LockTypes, TypeOK
  <2>6. TimerCovers'
    BY <2>1, <2>3, <2>4, <2>5 DEF TimerCovers
  <2> QED BY <2>2, <2>6
<1>5. CASE EnterDeepSleep
  <2>1. /\ UNCHANGED <<ref, idle, timer, wakeup_flag, auto_powerdown, pc>>
        /\ b_enter_sleep /\ ~b_enter_sleep'
    BY <1>5 DEF EnterDeepSleep
  <2> QED BY <2>1 DEF PartialNotLonger, sys_wakelocks_get_free_time, TimerCovers
<1>6. ASSUME NEW src \in {"BT", "other"}, WakeUp(src)
      PROVE  PartialNotLonger' /\ TimerCovers'
  <2>1. /\ UNCHANGED <<ref, idle, timer, b_enter_sleep, auto_powerdown, pc>>
        /\ asleep /\ ~asleep'
    BY <1>6 DEF WakeUp
  <2> QED BY <2>1 DEF PartialNotLonger, sys_wakelocks_get_free_time, TimerCovers
<1> QED BY <1>1, <1>2, <1>3, <1>4, <1>5, <1>6 DEF Holders, Hardware

\* A step that decides the power-off finds FULL free for the limit.
LEMMA DecidesIdle ==
    ASSUME "timer_awake" \notin Windows, PowerInv, [Next]_vars,
           ~auto_powerdown, auto_powerdown'
    PROVE  ref["FULL"] = 0 /\ idle'["FULL"] >= PowerdownTime
<1> USE DEF PowerInv, lockVars, timeVars, sleepVars
<1>1. CASE AutoPowerdown
  <2>1. sys_wakelocks_get_free_time("FULL") > auto_powerdown_time /\ idle' = idle
    BY <1>1 DEF AutoPowerdown, IdleTooLong, LockTypes
  <2>2. ref["FULL"] = 0 /\ idle["FULL"] > auto_powerdown_time /\ idle["FULL"] \in 0..MaxIdle
    BY <2>1 DEF sys_wakelocks_get_free_time, TypeOK, LockTypes, Never
  <2> QED BY <2>1, <2>2 DEF TypeOK, Never
<1>2. CASE Tick
  <2>1. timer = 1 /\ asleep /\ ref["FULL"] = 0
    BY <1>2 DEF Tick, SleepReady, Unlocked, LockTypes
  <2>2. idle["FULL"] + 1 >= PowerdownTime /\ idle["FULL"] \in 0..MaxIdle
    BY <2>1 DEF TimerCovers, TypeOK, LockTypes
  <2>3. idle'["FULL"] = IF idle["FULL"] < MaxIdle THEN idle["FULL"] + 1 ELSE idle["FULL"]
    BY <1>2, <2>1 DEF Tick, LockTypes
  <2> QED BY <2>1, <2>2, <2>3
<1>3. CASE ~AutoPowerdown /\ ~Tick
  <2>1. auto_powerdown' = auto_powerdown
    BY <1>3 DEF Next, Main, ProcessNormal, ExitS1, EnterS2, SuspendApp, SuspendServices,
       SuspendPart, ArmTimer, EnterS3, ExitS2, ResumeApp, CheckPowerdown, StopTimer,
       CheckAutoStandby, HandlePowerOff, Holders, sys_wake_lock, sys_wake_unlock,
       Hardware, EnterDeepSleep, WakeUp, RequestFastStandby, vars
  <2> QED BY <2>1
<1> QED BY <1>1, <1>2, <1>3

\* The power-off is decided only after FULL has been free for the configured
\* time, awake or by the timer in deep sleep, for every limit, and whatever is
\* suspended, refused or lost meanwhile; the two closed windows are needed.
THEOREM PowerdownAlwaysIdle ==
    ASSUME "wakelock_before_sleep" \notin Windows, "timer_awake" \notin Windows
    PROVE  Spec => PowerdownOnlyIdle
<1>1. Init => PowerInv
  BY InitType DEF Init, PowerInv, SleepReady, PartialNotLonger, TimerCovers, LockTypes,
     sys_wakelocks_get_free_time
<1>2. PowerInv /\ [Next]_vars => PowerInv'
  <2> SUFFICES ASSUME PowerInv, [Next]_vars PROVE PowerInv'
    OBVIOUS
  <2>1. TypeOK' /\ SleepReady'
    BY StepType, StepSleepReady DEF PowerInv
  <2>2. CASE UNCHANGED vars
    BY <2>1, <2>2 DEF vars, PowerInv, PartialNotLonger, TimerCovers,
       sys_wakelocks_get_free_time
  <2>3. CASE Next
    BY <2>1, <2>3, MainPower, OthersPower DEF Next, PowerInv
  <2> QED BY <2>2, <2>3
<1>3. PowerInv /\ [Next]_vars =>
         [~auto_powerdown /\ auto_powerdown' =>
            ref["FULL"] = 0 /\ idle'["FULL"] >= PowerdownTime]_vars
  BY DecidesIdle
<1> QED BY <1>1, <1>2, <1>3, PTL DEF Spec, PowerdownOnlyIdle
=============================================================================
