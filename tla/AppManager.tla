----------------------------- MODULE AppManager -----------------------------
(***************************************************************************)
(* framework/base/core/app_manager.c with the message pool and the thread  *)
(* termination table of zephyr/framework/osal/os_wrapper.c: starting,      *)
(* notifying and exiting the foreground application.                       *)
(*                                                                         *)
(* Every foreground application runs on the one share_stack_area, so a     *)
(* switch has to exit the current application, wait until its thread is    *)
(* really gone and only then create the next thread, at the same address   *)
(* and with the same thread id.  The calls come from client threads; what  *)
(* one of them does under app_manager_mutex is one step here, and so is    *)
(* what an exiting thread does at cooperative priority without blocking.   *)
(***************************************************************************)
EXTENDS Integers, Sequences, FiniteSets

CONSTANTS Apps,       \* the foreground applications
          Default,    \* the one with attribute DEFAULT_APP
          CanFail,    \* applications whose own initialisation may fail
          Linger,     \* applications that still work after leaving the list
          Clients, Main,
          Switchers,  \* clients that call app_manager_active_app
          Notifiers,  \* clients that call app_manager_notify_app
          None,
          NTerm,      \* MAX_THREAD_TERMINAL_NUM
          NMsg,       \* CONFIG_NUM_MBOX_ASYNC_MSGS
          PostBound,  \* bound: pending messages the environment posted
          JoinTimeout \* whether a thread may take 5 s to end

ASSUME AppsAssumption ==
    Default \in Apps /\ CanFail \subseteq Apps /\ Linger \subseteq Apps
ASSUME ClientsAssumption ==
    /\ Main \in Clients /\ Switchers \cup Notifiers \subseteq Clients
    /\ None \notin Clients \cup Apps
ASSUME BoundsAssumption == NTerm \in Nat /\ NMsg \in Nat /\ PostBound \in Nat
ASSUME JoinTimeoutAssumption == JoinTimeout \in BOOLEAN

VARIABLES list,            \* global_app_list, and with it the listener list
          actived_app, default_app, exit_to_default,
          apc, reply,      \* the applications' threads; whom an exit answers
          inbox,           \* messages pending at the shared thread id
          start_req,       \* MSG_START_APP messages pending at main
          term,            \* thread_terminal_info: the slots in use
          cpc,             \* each client's place in its call
          target,          \* app_manager_active_app: app_name
          victim, ret,     \* app_manager_exit_app: app_name; where it returns
          slot,            \* os_thread_wait_terminal: terminal_info, or 0
          sem,             \* callback_sem
          result,          \* what app_manager_active_app returns
          fault            \* a null pointer was used

listVars == <<list, actived_app, default_app>>
appVars == <<list, actived_app, default_app, exit_to_default, apc, reply>>
msgVars == <<inbox, start_req>>
callVars == <<cpc, target, victim, ret, slot, sem, result>>
vars == <<appVars, msgVars, term, callVars, fault>>

Slots == 1..NTerm

Init ==
    /\ list = {} /\ actived_app = None /\ default_app = None
    /\ exit_to_default = FALSE
    /\ apc = [a \in Apps |-> "dead"] /\ reply = None
    /\ inbox = <<>> /\ start_req = 0
    /\ term = [s \in Slots |-> FALSE]
    /\ cpc = [c \in Clients |-> "idle"]
    /\ target = [c \in Clients |-> None] /\ victim = [c \in Clients |-> None]
    /\ ret = [c \in Clients |-> "idle"] /\ slot = [c \in Clients |-> 0]
    /\ sem = [c \in Clients |-> FALSE] /\ result = [c \in Clients |-> FALSE]
    /\ fault = FALSE

-----------------------------------------------------------------------------
\* The client, or the application, is at this place and may go on.
At(c, place) == ~fault /\ cpc[c] = place
Runs(a, place) == ~fault /\ apc[a] = place

(* msg_manager_send_async_msg, os_send_async_msg                           *)

Msg(type, from) == [type |-> type, from |-> from]

\* A pool entry is taken until the receiver has copied the message.
PoolFree == Len(inbox) + start_req < NMsg

\* A send to the application finds a listener and a pool entry.
CanSend(a) == a \in list /\ PoolFree

\* Callbacks give the semaphores of these clients.
Given(from) == [c \in Clients |-> sem[c] \/ c \in from]

Senders(msgs) == {msgs[j].from : j \in 1..Len(msgs)}

\* Where the messages without callback are in the queue.
Posted == {j \in 1..Len(inbox) : inbox[j].from = None}

\* Any thread posts a message without callback to the application.
Post ==
    /\ ~fault /\ list # {} /\ PoolFree
    /\ Cardinality(Posted) < PostBound
    /\ inbox' = Append(inbox, Msg("event", None))
    /\ UNCHANGED <<appVars, start_req, term, callVars, fault>>

-----------------------------------------------------------------------------
(* The application's thread.                                               *)

\* Its initialisation succeeds and it enters its message loop ...
AppReady(a) ==
    /\ Runs(a, "init")
    /\ apc' = [apc EXCEPT ![a] = "loop"]
    /\ UNCHANGED <<listVars, exit_to_default, reply, msgVars, term, callVars,
                   fault>>

\* ... or fails and the thread exits by itself.
AppInitFails(a) ==
    /\ Runs(a, "init") /\ a \in CanFail
    /\ apc' = [apc EXCEPT ![a] = "exit"]
    /\ UNCHANGED <<listVars, exit_to_default, reply, msgVars, term, callVars,
                   fault>>

\* A message is received and handled, then its callback is called.
AppHandle(a) ==
    /\ Runs(a, "loop") /\ inbox # <<>> /\ Head(inbox).type # "exit"
    /\ inbox' = Tail(inbox)
    /\ sem' = Given({Head(inbox).from})
    /\ UNCHANGED <<appVars, start_req, term, cpc, target, victim, ret, slot,
                   result, fault>>

\* MSG_EXIT_APP is received; its callback is called after the thread exit.
AppExitMsg(a) ==
    /\ Runs(a, "loop") /\ inbox # <<>> /\ Head(inbox).type = "exit"
    /\ apc' = [apc EXCEPT ![a] = "exit"]
    /\ reply' = Head(inbox).from
    /\ inbox' = Tail(inbox)
    /\ UNCHANGED <<listVars, exit_to_default, start_req, term, callVars,
                   fault>>

\* Mutant: an exiting application stays the active one.
thread_exit_StaysActive(a) ==
    /\ Runs(a, "exit")
    /\ inbox' = <<>> /\ sem' = Given(Senders(inbox) \cup {reply})
    /\ list' = list \ {a}
    /\ apc' = [apc EXCEPT ![a] = IF a \in Linger THEN "linger" ELSE "dead"]
    /\ reply' = None
    /\ UNCHANGED <<actived_app, default_app, exit_to_default, start_req, term,
                   cpc, target, victim, ret, slot, result, fault>>

\* Mutant: pending messages are dropped without their callbacks.
thread_exit_NoCallbacks(a) ==
    /\ Runs(a, "exit")
    /\ inbox' = <<>> /\ sem' = Given({reply})
    /\ list' = list \ {a}
    /\ actived_app' = IF actived_app = a THEN None ELSE actived_app
    /\ apc' = [apc EXCEPT ![a] = IF a \in Linger THEN "linger" ELSE "dead"]
    /\ reply' = None
    /\ UNCHANGED <<default_app, exit_to_default, start_req, term,
                   cpc, target, victim, ret, slot, result, fault>>

\* app_manager_thread_exit: pending messages are dropped and answered, the
\* application leaves both lists and is no longer the active one; main is
\* asked for the default application if the exit was one to default, and
\* that message may get lost.
app_manager_thread_exit(a) ==
    /\ Runs(a, "exit")
    /\ inbox' = <<>> /\ sem' = Given(Senders(inbox) \cup {reply})
    /\ list' = list \ {a}
    /\ actived_app' = IF actived_app = a THEN None ELSE actived_app
    /\ start_req' = IF /\ actived_app = a /\ exit_to_default
                       /\ default_app \notin {None, a} /\ start_req < NMsg
                    THEN start_req + 1 ELSE start_req
    /\ fault' = (actived_app = None)
    /\ apc' = [apc EXCEPT ![a] = IF a \in Linger THEN "linger" ELSE "dead"]
    /\ reply' = None
    /\ UNCHANGED <<default_app, exit_to_default, term, cpc, target, victim, ret,
                   slot, result>>

\* What some applications still do, ota_deinit for one, before they end.
AppEnds(a) ==
    /\ Runs(a, "linger")
    /\ apc' = [apc EXCEPT ![a] = "dead"]
    /\ UNCHANGED <<listVars, exit_to_default, reply, msgVars, term, callVars,
                   fault>>

-----------------------------------------------------------------------------
(* app_manager_active_app                                                  *)

Go(c, place) == cpc' = [cpc EXCEPT ![c] = place]

\* app_manager_check_stack_safe: no listed application uses the stack.
StackSafe == list = {}

\* app_manager_init_app and the end of active_app: the target's thread is
\* created, listed and active ...
StartApp(c, t) ==
    /\ t # None /\ StackSafe
    /\ list' = list \cup {t} /\ actived_app' = t
    /\ default_app' = IF t = Default THEN t ELSE default_app
    /\ apc' = [apc EXCEPT ![t] = "init"]
    /\ result' = [result EXCEPT ![c] = TRUE]

\* ... or nothing is: the stack is taken, mem_malloc finds no memory, or the
\* table has no such entry, where true is returned if no name was given
\* (APP_ID_ILLEGAL) and false for an unknown name.
StartNone(c, t) ==
    /\ \E ok \in BOOLEAN : /\ ok => t = None
                           /\ result' = [result EXCEPT ![c] = ok]
    /\ UNCHANGED <<listVars, apc>>

InitApp(c, t) == StartApp(c, t) \/ StartNone(c, t)

\* The first critical section: the target is active already, or the current
\* application has to exit first, or the target is started at once.
ActiveApp(c, t) ==
    /\ At(c, "idle")
    /\ target' = [target EXCEPT ![c] = t]
    /\ CASE t = actived_app ->
              /\ Go(c, "done") /\ result' = [result EXCEPT ![c] = TRUE]
              /\ UNCHANGED <<listVars, apc>>
         [] t # actived_app /\ actived_app # None ->
              Go(c, "unlocked") /\ UNCHANGED <<listVars, apc, result>>
         [] OTHER -> InitApp(c, t) /\ Go(c, "done")
    /\ UNCHANGED <<exit_to_default, reply, inbox, term, victim, ret, slot, sem,
                   fault>>

\* A client switches; main serves a pending MSG_START_APP first.
Switch(c, t) ==
    /\ c = Main => start_req = 0
    /\ ActiveApp(c, t)
    /\ UNCHANGED start_req

\* main receives MSG_START_APP.
MainStart ==
    /\ start_req > 0
    /\ ActiveApp(Main, default_app)
    /\ start_req' = start_req - 1

\* After the exit the mutex is taken again.
Relock(c) ==
    /\ At(c, "relock")
    /\ InitApp(c, target[c]) /\ Go(c, "done")
    /\ UNCHANGED <<exit_to_default, reply, msgVars, term, target, victim, ret,
                   slot, sem, fault>>

Return(c) ==
    /\ At(c, "done")
    /\ Go(c, "idle")
    /\ target' = [target EXCEPT ![c] = None]
    /\ victim' = [victim EXCEPT ![c] = None]
    /\ result' = [result EXCEPT ![c] = FALSE]
    /\ UNCHANGED <<appVars, msgVars, term, ret, slot, sem, fault>>

-----------------------------------------------------------------------------
(* app_manager_exit_app                                                    *)

\* Mutant: a running application is not found in the list.
ExitApp_NotFound(c, a, to_default, back) ==
    /\ Go(c, back)
    /\ UNCHANGED <<appVars, msgVars, term, target, victim, ret, slot, sem,
                   result>>

\* Up to os_thread_prepare_terminal; an application that is not listed has
\* gone already.
ExitApp(c, a, to_default, back) ==
    /\ victim' = [victim EXCEPT ![c] = a] /\ ret' = [ret EXCEPT ![c] = back]
    /\ Go(c, IF a \in list THEN "prepare" ELSE back)
    /\ exit_to_default' = IF a \in list THEN to_default ELSE exit_to_default
    /\ sem' = [sem EXCEPT ![c] = FALSE]
    /\ UNCHANGED <<listVars, apc, reply, msgVars, term, target, slot, result>>

\* active_app reads actived_app->name after it has released the mutex.
ActiveAppExit(c) ==
    /\ At(c, "unlocked")
    /\ IF actived_app # None
       THEN ExitApp(c, actived_app, FALSE, "relock") /\ UNCHANGED fault
       ELSE /\ fault' = TRUE
            /\ UNCHANGED <<appVars, msgVars, term, callVars>>

\* main receives MSG_EXIT_APP for an application.
MainExit(a) ==
    /\ At(Main, "idle") /\ start_req = 0
    /\ ExitApp(Main, a, TRUE, "done")
    /\ UNCHANGED fault

\* os_thread_prepare_terminal; that the table is full is not noticed.
Prepare(c) ==
    /\ At(c, "prepare")
    /\ term' = LET free == {s \in Slots : ~term[s]}
               IN IF free = {} THEN term
                  ELSE [term EXCEPT ![CHOOSE s \in free : \A r \in free : s <= r] = TRUE]
    /\ Go(c, "send")
    /\ UNCHANGED <<appVars, msgVars, target, victim, ret, slot, sem, result,
                   fault>>

\* The exit message is sent; if that fails, exit_app returns false.
SendExit(c) ==
    /\ At(c, "send")
    /\ IF CanSend(victim[c])
       THEN inbox' = Append(inbox, Msg("exit", c)) /\ Go(c, "wait")
       ELSE UNCHANGED inbox /\ Go(c, ret[c])
    /\ UNCHANGED <<appVars, start_req, term, target, victim, ret, slot, sem,
                   result, fault>>

\* The callback came, or a timeout found the application gone; then
\* os_thread_wait_terminal looks up the last slot with this thread id.
Waited(c) ==
    LET used == {s \in Slots : term[s]} IN
    /\ At(c, "wait")
    /\ sem[c] \/ victim[c] \notin list
    /\ IF used # {}
       THEN /\ \E s \in used : /\ \A r \in used : r <= s
                              /\ slot' = [slot EXCEPT ![c] = s]
            /\ Go(c, "join") /\ UNCHANGED fault
       ELSE fault' = TRUE /\ UNCHANGED <<slot, cpc>>
    /\ UNCHANGED <<appVars, msgVars, term, target, victim, ret, sem, result>>

\* Mutant: the end of the thread is not awaited.
Join_NoWait(c) ==
    /\ At(c, "join")
    /\ term' = [term EXCEPT ![slot[c]] = FALSE]
    /\ slot' = [slot EXCEPT ![c] = 0]
    /\ Go(c, ret[c])
    /\ UNCHANGED <<appVars, msgVars, target, victim, ret, sem, result, fault>>

\* k_thread_join returns when the thread has ended, or after 5 s, and the
\* slot is freed.  Two callers that exit one application look up the same
\* slot: the later one may find its thread pointer cleared.
Join(c) ==
    /\ At(c, "join")
    /\ \/ /\ JoinTimeout \/ \A a \in Apps : apc[a] = "dead"
          /\ term' = [term EXCEPT ![slot[c]] = FALSE]
          /\ slot' = [slot EXCEPT ![c] = 0]
          /\ Go(c, ret[c]) /\ UNCHANGED fault
       \/ /\ ~term[slot[c]]
          /\ fault' = TRUE /\ UNCHANGED <<term, slot, cpc>>
    /\ UNCHANGED <<appVars, msgVars, target, victim, ret, sem, result>>

-----------------------------------------------------------------------------
(* app_manager_notify_app                                                  *)

\* The application is found in the list ...
NotifyApp(c, a) ==
    /\ At(c, "idle") /\ a \in list
    /\ victim' = [victim EXCEPT ![c] = a]
    /\ sem' = [sem EXCEPT ![c] = FALSE]
    /\ Go(c, "notify")
    /\ UNCHANGED <<appVars, msgVars, term, target, ret, slot, result, fault>>

\* ... and sent the message. After a failed send the code also calls
\* os_sched_unlock, although nobody locked: the count is not modelled.
NotifySend(c) ==
    /\ At(c, "notify")
    /\ IF CanSend(victim[c])
       THEN /\ inbox' = Append(inbox, Msg("suspend", c))
            /\ Go(c, "notified")
       ELSE Go(c, "done") /\ UNCHANGED inbox
    /\ UNCHANGED <<appVars, start_req, term, target, victim, ret, slot, sem,
                   result, fault>>

NotifyDone(c) ==
    /\ At(c, "notified") /\ sem[c]
    /\ Go(c, "done")
    /\ UNCHANGED <<appVars, msgVars, term, target, victim, ret, slot, sem,
                   result, fault>>

-----------------------------------------------------------------------------
\* The processor faults: the system stops.
Halted == fault /\ UNCHANGED vars

AppStep(a) ==
    \/ AppReady(a) \/ AppInitFails(a) \/ AppHandle(a) \/ AppExitMsg(a)
    \/ app_manager_thread_exit(a) \/ AppEnds(a)

ClientStep(c) ==
    \/ ActiveAppExit(c) \/ Prepare(c) \/ SendExit(c) \/ Waited(c) \/ Join(c)
    \/ Relock(c) \/ NotifySend(c) \/ NotifyDone(c) \/ Return(c)

Call ==
    \/ \E c \in Switchers, t \in Apps \cup {None} : Switch(c, t)
    \/ \E c \in Notifiers, a \in Apps : NotifyApp(c, a)
    \/ \E a \in Apps : MainExit(a)
    \/ MainStart
    \/ Post

Next ==
    \/ Call
    \/ \E c \in Clients : ClientStep(c)
    \/ \E a \in Apps : AppStep(a)
    \/ Halted

\* Ready threads run; applications handle their messages.
Fairness ==
    /\ \A c \in Clients : WF_vars(ClientStep(c))
    /\ \A a \in Apps : WF_vars(AppStep(a))

Spec == Init /\ [][Next]_vars
FairSpec == Spec /\ Fairness

-----------------------------------------------------------------------------
(* Properties.                                                             *)

\* Every variable has its type.
TypeOK ==
    /\ list \subseteq Apps /\ actived_app \in Apps \cup {None}
    /\ default_app \in {Default, None} /\ exit_to_default \in BOOLEAN
    /\ apc \in [Apps -> {"dead", "init", "loop", "exit", "linger"}]
    /\ reply \in Clients \cup {None}
    /\ inbox \in Seq([type : {"event", "suspend", "exit"}, from : Clients \cup {None}])
    /\ Len(inbox) + start_req <= NMsg /\ start_req \in 0..NMsg
    /\ term \in [Slots -> BOOLEAN]
    /\ cpc \in [Clients -> {"idle", "unlocked", "prepare", "send", "wait", "join",
                            "relock", "notify", "notified", "done"}]
    /\ target \in [Clients -> Apps \cup {None}]
    /\ victim \in [Clients -> Apps \cup {None}]
    /\ ret \in [Clients -> {"idle", "relock", "done"}]
    /\ slot \in [Clients -> Slots \cup {0}]
    /\ sem \in [Clients -> BOOLEAN] /\ result \in [Clients -> BOOLEAN]
    /\ fault \in BOOLEAN

\* share_stack_area never carries two threads: app_manager_init_app creates
\* one only when that of the last application has ended, although an
\* application leaves the list before it ends.
StackExclusive ==
    \A a, b \in Apps : apc[a] # "dead" /\ apc[b] # "dead" => a = b

\* actived_app is the one application that is listed and receives messages,
\* whatever exits, failures and switches interleave.
CurrentIsRunning == list = {actived_app} \ {None}

\* When app_manager_active_app returns true the target is the active
\* application, and for APP_ID_ILLEGAL there is none ("@return true if
\* invoked succsess").
SwitchSucceeded ==
    [][\A c \in Clients : cpc[c] # "done" /\ cpc'[c] = "done" /\ result'[c]
          => actived_app' = target'[c]]_vars

\* Every active_app, exit_app and notify_app call returns: no caller waits
\* for an answer that an exiting application no longer gives.  What ends the
\* waiting otherwise is a fault: active_app reads actived_app->name after it
\* released the mutex, when the application may have given up by itself.
CallsReturn == \A c \in Clients : cpc[c] # "idle" ~> cpc[c] = "idle" \/ fault
=============================================================================
