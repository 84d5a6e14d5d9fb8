------------------------------ MODULE SysStandby ------------------------------
(***************************************************************************)
(* framework/system: the standby state machine that the system monitor     *)
(* runs in the main thread (sys_standby.c), the wakelocks every thread     *)
(* takes and releases (sys_wakelock.c), the automatic power-off, and the   *)
(* deep sleep the idle thread performs on request (policy_sleep.c, the     *)
(* kernel's pm_system_suspend).                                            *)
(*                                                                         *)
(* Main is split wherever it waits for another thread and wherever it acts *)
(* on a wakelock or a timer it looked at before; holders of wakelocks, the *)
(* idle thread, interrupts and time run in between.                        *)
(***************************************************************************)
EXTENDS Integers

CONSTANTS StandbyTime,    \* Auto_Standby_Time_Sec, 0 if there is no standby
          PowerdownTime,  \* Auto_Power_Off_Time_Sec
          MaxIdle,        \* bound: idle times are not told apart beyond it
          MaxRef,         \* bound: holders of one wakelock, 0xFFFF in the code
          Wrap,           \* 2^32
          Windows         \* the races that are let happen, a subset of AllWindows

\* The points at which the code relies on something that it does not ensure:
\*   wakelock_in_suspend     a wakelock changes while main suspends the system
\*   wakelock_before_sleep   ... between its last check and the sleep
\*   timer_awake             the power-off timer expires while main is awake
\*   device_refuses          a device does not suspend, the sleep is given up
\*   no_app                  no application is in the foreground
\*   pool                    the message pool is empty
AllWindows == {"wakelock_in_suspend", "wakelock_before_sleep", "timer_awake",
               "device_refuses", "no_app", "pool"}

ASSUME TimesAssumption ==
    /\ StandbyTime \in Nat /\ PowerdownTime \in Nat \ {0}
    /\ MaxIdle \in Nat /\ MaxIdle > StandbyTime /\ MaxIdle > PowerdownTime
    /\ Wrap \in Nat /\ Wrap > MaxIdle + PowerdownTime + 1
ASSUME MaxRefAssumption == MaxRef \in Nat \ {0}
ASSUME WindowsAssumption == Windows \subseteq AllWindows

VARIABLES
    ref, idle,      \* per wakelock: ref_cnt, time since free_timestamp
    standby_state,
    auto_standby_time, auto_powerdown_time,
    auto_powerdown, force_standby, wakeup_flag,
    timer,          \* time left of auto_powerdown_timer, 0 when stopped
    suspended,      \* who has been told MSG_SUSPEND_APP last
    b_enter_sleep,  \* deep sleep is requested of the idle thread
    asleep,         \* the processor sleeps
    wksrc,          \* g_sleep_wksrc_src, what ended the last sleep
    poweroff,       \* MSG_POWER_OFF: not sent, in main's queue, handled
    pc              \* where main is

lockVars == <<ref, idle>>
timeVars == <<auto_standby_time, auto_powerdown_time>>
sleepVars == <<b_enter_sleep, asleep, wakeup_flag, wksrc>>
vars == <<ref, idle, standby_state, auto_standby_time, auto_powerdown_time,
          auto_powerdown, force_standby, wakeup_flag, timer, suspended,
          b_enter_sleep, asleep, wksrc, poweroff, pc>>

LockTypes == {"PARTIAL", "FULL"}
Parts == {"notifier", "app", "srv"}

\* (uint32_t)-1, the time that is never exceeded.
Never == Wrap - 1

\* system_set_autosleep_time, system_set_auto_poweroff_time: 0 is no limit.
Limit(t) == IF t = 0 THEN Never ELSE t

\* The conversion of a difference of in-range values to uint32_t.
U32(x) == IF x < 0 THEN x + Wrap ELSE x

-----------------------------------------------------------------------------
(* sys_wakelock.c.  Each call runs with interrupts locked.                 *)

sys_wakelocks_get_free_time(t) == IF ref[t] = 0 THEN idle[t] ELSE 0

Unlocked == \A t \in LockTypes : ref[t] = 0

\* Mutant: releasing FULL restarts its own idle time only.
Restarted_OwnOnly(t) == [idle EXCEPT ![t] = 0]

\* The timestamps after a release: that of FULL restarts every idle time.
Restarted(t) ==
    IF t = "FULL" THEN [u \in LockTypes |-> 0] ELSE [idle EXCEPT ![t] = 0]

\* Nobody touches a wakelock inside a window that is not let happen; nobody
\* runs while the processor sleeps.
HoldersRun ==
    /\ ~asleep
    /\ pc \in {"sus_app", "sus_srv"} => "wakelock_in_suspend" \in Windows
    /\ pc = "s2" \/ b_enter_sleep =>
          "wakelock_before_sleep" \in Windows

sys_wake_lock(t) ==
    /\ HoldersRun /\ ref[t] < MaxRef
    /\ ref' = [ref EXCEPT ![t] = @ + 1]
    /\ idle' = [idle EXCEPT ![t] = 0]
    /\ UNCHANGED <<standby_state, timeVars, auto_powerdown, force_standby,
                   timer, suspended, sleepVars, poweroff, pc>>

\* sys_wake_unlock, by a holder; the first is system_ready.
sys_wake_unlock(t) ==
    /\ HoldersRun /\ ref[t] > 0
    /\ ref' = [ref EXCEPT ![t] = @ - 1]
    /\ idle' = Restarted(t)
    /\ force_standby' = FALSE
    /\ UNCHANGED <<standby_state, timeVars, auto_powerdown,
                   timer, suspended, sleepVars, poweroff, pc>>

-----------------------------------------------------------------------------
(* Time, interrupts and the idle thread.                                   *)

\* Time passes: for every lock that is free, and for the timer.  Its handler
\* sets auto_powerdown; if the processor slept, that ends the sleep.
Tick ==
    LET fires == timer = 1 IN
    /\ fires => asleep \/ "timer_awake" \in Windows
    /\ idle' = [t \in LockTypes |->
                  IF ref[t] = 0 /\ idle[t] < MaxIdle THEN idle[t] + 1 ELSE idle[t]]
    /\ timer' = IF timer > 0 THEN timer - 1 ELSE 0
    /\ auto_powerdown' = (auto_powerdown \/ fires)
    /\ asleep' = (asleep /\ ~fires)
    /\ wakeup_flag' = (wakeup_flag \/ (asleep /\ fires))
    /\ wksrc' = IF asleep /\ fires THEN "other" ELSE wksrc
    /\ UNCHANGED <<ref, standby_state, timeVars, force_standby, suspended,
                   b_enter_sleep, poweroff, pc>>

\* pm_policy_next_state takes the request; pm_system_suspend puts the devices
\* and then the processor to sleep, or gives up when a device refuses (an open
\* audio session makes audio_out_pm_control return -EACCES): then neither the
\* request nor the exit notification is left.
EnterDeepSleep ==
    /\ b_enter_sleep
    /\ b_enter_sleep' = FALSE
    /\ asleep' \in IF "device_refuses" \in Windows THEN BOOLEAN ELSE {TRUE}
    /\ UNCHANGED <<lockVars, standby_state, timeVars, auto_powerdown, wksrc,
                   force_standby, wakeup_flag, timer, suspended, poweroff, pc>>

\* Mutant: the exit notifier is not called.
WakeUp_NoNotifier(src) ==
    /\ asleep
    /\ asleep' = FALSE /\ wakeup_flag' = wakeup_flag /\ wksrc' = src
    /\ UNCHANGED <<lockVars, standby_state, timeVars, auto_powerdown, timer,
                   force_standby, suspended, b_enter_sleep, poweroff, pc>>

\* An interrupt ends the sleep: sys_sleep_check_wksrc, then the exit notifier.
WakeUp(src) ==
    /\ asleep
    /\ asleep' = FALSE /\ wakeup_flag' = TRUE /\ wksrc' = src
    /\ UNCHANGED <<lockVars, standby_state, timeVars, auto_powerdown, timer,
                   force_standby, suspended, b_enter_sleep, poweroff, pc>>

\* system_request_fast_standby, from any thread.
RequestFastStandby ==
    /\ ~asleep
    /\ force_standby' = TRUE
    /\ UNCHANGED <<lockVars, standby_state, timeVars, auto_powerdown, timer,
                   suspended, sleepVars, poweroff, pc>>

-----------------------------------------------------------------------------
(* The standby work of the monitor, in the main thread.                    *)

\* send_async_msg fails when the pool is empty; no caller here tries again.
Sent == IF "pool" \in Windows THEN BOOLEAN ELSE {TRUE}

SendPowerOff == poweroff' \in {IF ok THEN "sent" ELSE poweroff : ok \in Sent}

\* _sys_standby_check_auto_powerdown: idle for longer than the limit.
IdleTooLong ==
    \A t \in LockTypes : sys_wakelocks_get_free_time(t) > auto_powerdown_time

AutoPowerdown ==
    /\ pc = "cycle" /\ ~auto_powerdown /\ IdleTooLong
    /\ auto_powerdown' = TRUE
    /\ SendPowerOff
    /\ UNCHANGED <<lockVars, standby_state, timeVars, force_standby, timer,
                   suspended, sleepVars, pc>>

\* _sys_standby_work_handle goes on to the handler of a state.
Work(state) ==
    /\ pc = "cycle" /\ ~auto_powerdown /\ ~IdleTooLong
    /\ standby_state = state

\* _sys_standby_process_normal
ProcessNormal ==
    /\ Work("NORMAL") /\ ref["FULL"] = 0
    /\ force_standby \/ sys_wakelocks_get_free_time("FULL") > auto_standby_time
    /\ standby_state' = "S1"
    /\ UNCHANGED <<lockVars, timeVars, auto_powerdown, force_standby, timer,
                   suspended, sleepVars, poweroff, pc>>

\* Mutant: only the idle time is looked at, not the wakelock.
ExitS1_IdleOnly ==
    /\ Work("S1")
    /\ sys_wakelocks_get_free_time("FULL") < auto_standby_time /\ ~force_standby
    /\ standby_state' = "NORMAL"
    /\ UNCHANGED <<lockVars, timeVars, auto_powerdown, force_standby, timer,
                   suspended, sleepVars, poweroff, pc>>

\* _sys_standby_process_s1, first two branches: back to normal.
ExitS1 ==
    /\ Work("S1")
    /\ \/ ref["FULL"] > 0
       \/ /\ sys_wakelocks_get_free_time("FULL") < auto_standby_time
          /\ ~force_standby
    /\ standby_state' = "NORMAL"
    /\ UNCHANGED <<lockVars, timeVars, auto_powerdown, force_standby, timer,
                   suspended, sleepVars, poweroff, pc>>

\* _sys_standby_process_s1, the other two: _sys_standby_enter_s2 up to the
\* wait for the application.  Without one app_manager_notify_app(NULL) sends
\* main, which is on the list too, a message that main waits for itself.
EnterS2 ==
    /\ Work("S1") /\ Unlocked
    /\ sys_wakelocks_get_free_time("FULL") >= auto_standby_time
    /\ \/ sys_wakelocks_get_free_time("PARTIAL") > auto_standby_time
       \/ force_standby
    /\ standby_state' = "S2"
    /\ suspended' = suspended \union {"notifier"}
    /\ pc' \in IF "no_app" \in Windows THEN {"sus_app", "stuck"} ELSE {"sus_app"}
    /\ UNCHANGED <<lockVars, timeVars, auto_powerdown, force_standby, timer,
                   sleepVars, poweroff>>

\* A part has answered MSG_SUSPEND_APP (or the message found no pool entry);
\* a wakelock taken meanwhile sets the state back, and nothing else.
SuspendPart(part, next) ==
    /\ suspended' \in {IF ok THEN suspended \union {part} ELSE suspended : ok \in Sent}
    /\ standby_state' = IF Unlocked THEN standby_state ELSE "S1"
    /\ pc' = next
    /\ UNCHANGED <<lockVars, timeVars, auto_powerdown, force_standby, timer,
                   sleepVars, poweroff>>

SuspendApp == pc = "sus_app" /\ SuspendPart("app", "sus_srv")
SuspendServices == pc = "sus_srv" /\ SuspendPart("srv", "cycle")

\* The time process_s2 sets the timer to: an int compared with a uint32_t.
TimeToPowerdown ==
    LET f == auto_powerdown_time - sys_wakelocks_get_free_time("FULL")
        p == auto_powerdown_time - sys_wakelocks_get_free_time("PARTIAL")
    IN  IF U32(f) > U32(p) THEN p ELSE f

\* _sys_standby_process_s2 up to its loop.
ArmTimer ==
    /\ Work("S2")
    /\ force_standby' = FALSE
    /\ timer' = IF auto_powerdown_time # Never /\ TimeToPowerdown > 0
                THEN TimeToPowerdown ELSE timer
    /\ pc' = "s2"
    /\ UNCHANGED <<lockVars, standby_state, timeVars, auto_powerdown,
                   suspended, sleepVars, poweroff>>

\* The loop of process_s2, no wakelock held: _sys_standby_enter_s3.
EnterS3 ==
    /\ pc = "s2" /\ Unlocked
    /\ standby_state' = "S3" /\ wakeup_flag' = FALSE /\ b_enter_sleep' = TRUE
    /\ pc' = "wait"
    /\ UNCHANGED <<lockVars, timeVars, auto_powerdown, force_standby, timer,
                   suspended, asleep, wksrc, poweroff>>

\* Mutant: the state is not set back, and S3 has no handler.
ExitS2_StaysS3 ==
    /\ (pc = "s2" /\ ~Unlocked) \/ (pc = "wait" /\ wakeup_flag)
    /\ standby_state' = standby_state
    /\ suspended' = suspended \ {"srv"}
    /\ pc' = "res_app"
    /\ UNCHANGED <<lockVars, timeVars, auto_powerdown, force_standby, timer,
                   sleepVars, poweroff>>

\* _sys_standby_exit_s2 up to the answer of the services: from the loop when a
\* wakelock is held, or when the wait of enter_s3 is over.
ExitS2 ==
    /\ (pc = "s2" /\ ~Unlocked) \/ (pc = "wait" /\ wakeup_flag)
    /\ standby_state' = "S1"
    /\ suspended' \in {IF ok THEN suspended \ {"srv"} ELSE suspended : ok \in Sent}
    /\ pc' = "res_app"
    /\ UNCHANGED <<lockVars, timeVars, auto_powerdown, force_standby, timer,
                   sleepVars, poweroff>>

\* Mutant: the notifier is not told.
ResumeApp_NoNotifier ==
    /\ pc = "res_app"
    /\ suspended' = suspended \ {"app"}
    /\ pc' = "resumed"
    /\ UNCHANGED <<lockVars, standby_state, timeVars, auto_powerdown,
                   force_standby, timer, sleepVars, poweroff>>

\* ... and from there: the application answers, the notifier is called.
ResumeApp ==
    /\ pc = "res_app"
    /\ suspended' \in {(IF ok THEN suspended \ {"app"} ELSE suspended) \ {"notifier"}
                        : ok \in Sent}
    /\ pc' = "resumed"
    /\ UNCHANGED <<lockVars, standby_state, timeVars, auto_powerdown,
                   force_standby, timer, sleepVars, poweroff>>

\* Mutant: a power-off due during the sleep is forgotten.
CheckPowerdown_Forgotten ==
    /\ pc = "resumed"
    /\ pc' = IF auto_powerdown THEN "cycle" ELSE "stop"
    /\ UNCHANGED <<lockVars, standby_state, timeVars, auto_powerdown, timer,
                   force_standby, suspended, sleepVars, poweroff>>

\* process_s2 after its loop: `if (auto_powerdown)'.
CheckPowerdown ==
    /\ pc = "resumed"
    /\ IF auto_powerdown THEN SendPowerOff /\ pc' = "cycle"
                         ELSE pc' = "stop" /\ poweroff' = poweroff
    /\ UNCHANGED <<lockVars, standby_state, timeVars, auto_powerdown, timer,
                   force_standby, suspended, sleepVars>>

\* hrtimer_stop, then the wake-up source decides whether the screen comes on.
\* The lock and unlock around it restart the idle times.
StopTimer ==
    /\ pc = "stop"
    /\ timer' = 0 /\ pc' = "cycle" /\ force_standby' = FALSE
    /\ IF wksrc # "BT"
       THEN standby_state' = "NORMAL" /\ idle' = Restarted("FULL")
       ELSE standby_state' = standby_state /\ idle' = Restarted("PARTIAL")
    /\ UNCHANGED <<ref, timeVars, auto_powerdown, suspended, sleepVars, poweroff>>

-----------------------------------------------------------------------------
(* The rest of the main thread between two rounds of the standby work.     *)

\* system_app_check_auto_standby: the limits as the system is idle, connected
\* (no power-off), or busy or powering off (neither); bt_manager_get_wake_lock
\* restarts the idle times.
CheckAutoStandby ==
    /\ pc = "cycle"
    /\ \/ /\ poweroff # "handled"
          /\ auto_standby_time' = Limit(StandbyTime)
          /\ auto_powerdown_time' \in {Limit(PowerdownTime), Never}
       \/ auto_standby_time' = Never /\ auto_powerdown_time' = Never
    /\ \/ UNCHANGED <<idle, force_standby>>
       \/ poweroff # "handled" /\ idle' = Restarted("FULL") /\ force_standby' = FALSE
    /\ UNCHANGED <<ref, standby_state, auto_powerdown, timer, suspended,
                   sleepVars, poweroff, pc>>

\* main_msg_proc takes MSG_POWER_OFF: system_app_enter_poweroff.
HandlePowerOff ==
    /\ pc = "cycle" /\ poweroff = "sent"
    /\ poweroff' = "handled"
    /\ UNCHANGED <<lockVars, standby_state, timeVars, auto_powerdown, timer,
                   force_standby, suspended, sleepVars, pc>>

-----------------------------------------------------------------------------
\* sys_standby_init and sys_wakelocks_init, which takes FULL until
\* system_ready; the limits are CONFIG_AUTO_STANDBY_TIME_SEC (0, so never)
\* and CONFIG_AUTO_POWEDOWN_TIME_SEC.
Init ==
    /\ ref = [t \in LockTypes |-> IF t = "FULL" THEN 1 ELSE 0]
    /\ idle = [t \in LockTypes |-> 0]
    /\ standby_state = "NORMAL"
    /\ auto_standby_time = Never /\ auto_powerdown_time = PowerdownTime
    /\ auto_powerdown = FALSE /\ force_standby = FALSE /\ wakeup_flag = FALSE
    /\ timer = 0 /\ suspended = {}
    /\ b_enter_sleep = FALSE /\ asleep = FALSE /\ wksrc = "BT"
    /\ poweroff = "no" /\ pc = "cycle"

\* The steps main takes by itself.
Main ==
    \/ AutoPowerdown \/ ProcessNormal \/ ExitS1 \/ EnterS2
    \/ SuspendApp \/ SuspendServices \/ ArmTimer \/ EnterS3
    \/ ExitS2 \/ ResumeApp \/ CheckPowerdown \/ StopTimer

Holders == \E t \in LockTypes : sys_wake_lock(t) \/ sys_wake_unlock(t)

Hardware == Tick \/ EnterDeepSleep \/ \E src \in {"BT", "other"} : WakeUp(src)

Next == Main \/ CheckAutoStandby \/ HandlePowerOff \/ Holders \/ Hardware
        \/ RequestFastStandby

Spec == Init /\ [][Next]_vars

\* Main runs its monitor timer and its message queue for ever, time passes,
\* the idle thread runs when everybody waits.  No wakelock need be released,
\* no wake-up need come, no limit need change.
Fairness ==
    /\ WF_vars(Main) /\ WF_vars(HandlePowerOff)
    /\ WF_vars(Tick) /\ WF_vars(EnterDeepSleep)

FairSpec == Spec /\ Fairness

-----------------------------------------------------------------------------
(* Properties.                                                             *)

\* Every variable has its type.
TypeOK ==
    /\ ref \in [LockTypes -> 0..MaxRef] /\ idle \in [LockTypes -> 0..MaxIdle]
    /\ standby_state \in {"NORMAL", "S1", "S2", "S3"}
    /\ auto_standby_time \in {StandbyTime, Never}
    /\ auto_powerdown_time \in {PowerdownTime, Never}
    /\ auto_powerdown \in BOOLEAN /\ force_standby \in BOOLEAN
    /\ wakeup_flag \in BOOLEAN
    /\ timer \in 0..PowerdownTime
    /\ suspended \in SUBSET Parts
    /\ b_enter_sleep \in BOOLEAN /\ asleep \in BOOLEAN
    /\ wksrc \in {"BT", "other"}
    /\ poweroff \in {"no", "sent", "handled"}
    /\ pc \in {"cycle", "sus_app", "sus_srv", "s2", "wait", "res_app",
               "resumed", "stop", "stuck"}

\* The processor never sleeps while a wakelock is held: sys_wake_lock, "hold
\* system wake lock Prevent the system entering sleep".  The code does not
\* keep it: process_s2 looks at the locks before it asks for the sleep, the
\* idle thread sleeps without looking again.
SleepsUnlocked == asleep => Unlocked

\* It never sleeps before the notifier, the application and the services have
\* been suspended (enter_s2), and the screen is never on (NORMAL) while one of
\* them still is: each suspend is undone before the system is back.
SuspendedExactlyInStandby ==
    /\ asleep => suspended = Parts
    /\ standby_state = "NORMAL" => suspended = {}

\* enter_s3 waits for a wake-up only if one can still come: a sleep is
\* requested, going on, or over.
WaitsForWakeUp == pc = "wait" => b_enter_sleep \/ asleep \/ wakeup_flag

\* The automatic power-off is decided only when no FULL wakelock is held, and
\* none has been for the configured time, awake or asleep.
PowerdownOnlyIdle ==
    [][ ~auto_powerdown /\ auto_powerdown' =>
          ref["FULL"] = 0 /\ idle'["FULL"] >= PowerdownTime ]_vars

\* Once decided, by the check or by the timer in deep sleep, the power-off is
\* carried out although the standby work does nothing any more.
PowerdownHappens == auto_powerdown ~> poweroff = "handled"

\* A FULL wakelock that stays held brings the system back to normal, from any
\* state and through the resume of every part, unless it is powering off.
FullLockWakes ==
    ref["FULL"] > 0 ~> standby_state = "NORMAL" \/ ref["FULL"] = 0 \/ auto_powerdown

\* Nothing but the end of a sleep restarts an idle time: no wakelock is
\* released, bt_manager_get_wake_lock holds nothing.
OnlyWakeUpsRestart == pc # "stop" => \A t \in LockTypes : idle'[t] >= idle[t]

\* Left alone, with automatic standby configured, the system goes to sleep (or
\* powers off), and it does so again after every wake-up, whether Bluetooth or
\* something that lights the screen caused it: no state of the machine holds
\* it back for ever.
EventuallySleeps ==
    <>[](Unlocked /\ auto_standby_time = StandbyTime) /\ <>[][OnlyWakeUpsRestart]_vars
        => []<>(asleep \/ auto_powerdown)
===============================================================================
