-------------------------- MODULE AppManagerProofs --------------------------
(***************************************************************************)
(* Proofs about AppManager for any applications, clients, pool size and    *)
(* number of termination slots: first for any callers, then what one       *)
(* switching thread adds.                                                  *)
(***************************************************************************)
EXTENDS AppManager, WellFoundedInduction, FiniteSetTheorems, TLAPS

\* The listed applications are those whose threads have not left the list in
\* app_manager_thread_exit; one that has left and not ended is lingering.
ListMatches ==
    /\ \A a \in Apps : a \in list <=> apc[a] \in {"init", "loop", "exit"}
    /\ \A a \in Apps : apc[a] = "linger" => a \in Linger

\* The inductive invariant: that the active application is the only listed
\* one is preserved only because an exiting thread is still listed.
IInv == TypeOK /\ CurrentIsRunning /\ ListMatches

USE AppsAssumption, ClientsAssumption, BoundsAssumption

\* The invariant holds of the system as app_manager_init leaves it.
LEMMA InitIInv == Init => IInv
<1> SUFFICES ASSUME Init PROVE IInv
  OBVIOUS
<1>1. inbox \in Seq([type : {"event", "suspend", "exit"}, from : Clients \cup {None}])
      /\ Len(inbox) + start_req <= NMsg /\ start_req \in 0..NMsg
  BY DEF Init
<1>2. TypeOK
  BY <1>1 DEF Init, TypeOK
<1>3. CurrentIsRunning /\ ListMatches
  BY DEF Init, CurrentIsRunning, ListMatches
<1> QED BY <1>2, <1>3 DEF IInv

\* Starting an application (app_manager_init_app) keeps both lists right.
LEMMA InitAppKeeps ==
    ASSUME IInv, NEW c \in Clients, NEW t \in Apps \cup {None}, InitApp(c, t)
    PROVE  /\ list' \subseteq Apps /\ actived_app' \in Apps \cup {None}
           /\ default_app' \in {Default, None}
           /\ apc' \in [Apps -> {"dead", "init", "loop", "exit", "linger"}]
           /\ result' \in [Clients -> BOOLEAN]
           /\ CurrentIsRunning' /\ ListMatches'
<1> USE DEF IInv
<1>1. result' \in [Clients -> BOOLEAN]
  BY DEF InitApp, StartApp, StartNone, TypeOK
<1>2. CASE StartApp(c, t)
  <2>1. t \in Apps /\ list = {} /\ list' = {t} /\ actived_app' = t
        /\ apc' = [apc EXCEPT ![t] = "init"]
        /\ default_app' = IF t = Default THEN t ELSE default_app
    BY <1>2 DEF StartApp, StackSafe
  <2>2. CurrentIsRunning'
    BY <1>2, <2>1 DEF CurrentIsRunning
  <2>3. apc' \in [Apps -> {"dead", "init", "loop", "exit", "linger"}]
        /\ apc'[t] = "init" /\ \A a \in Apps : a # t => apc'[a] = apc[a]
    BY <2>1 DEF TypeOK
  <2>4. ListMatches'
    BY <2>1, <2>3 DEF ListMatches
  <2> QED BY <1>1, <2>1, <2>2, <2>3, <2>4 DEF TypeOK
<1>3. CASE StartNone(c, t)
  BY <1>1, <1>3 DEF StartNone, TypeOK, CurrentIsRunning, ListMatches, listVars
<1> QED BY <1>2, <1>3 DEF InitApp

\* Giving semaphores (_app_notify_callback) keeps their type.
LEMMA GivenType ==
    ASSUME NEW from
    PROVE  Given(from) \in [Clients -> BOOLEAN]
BY DEF Given

\* The types of messages.
LEMMA MsgType ==
    ASSUME NEW type \in {"event", "suspend", "exit"}, NEW from \in Clients \cup {None}
    PROVE  Msg(type, from) \in [type : {"event", "suspend", "exit"}, from : Clients \cup {None}]
BY DEF Msg

\* Every step of an application's thread preserves the invariant.
LEMMA AppStepIInv ==
    ASSUME IInv, NEW a \in Apps, AppStep(a)
    PROVE  IInv'
<1> USE DEF IInv, Runs
<1>1. CASE AppReady(a)
  BY <1>1 DEF AppReady, TypeOK, CurrentIsRunning, ListMatches, listVars, msgVars, callVars
<1>2. CASE AppInitFails(a)
  BY <1>2 DEF AppInitFails, TypeOK, CurrentIsRunning, ListMatches, listVars, msgVars, callVars
<1>3. CASE AppHandle(a)
  <2>1. TypeOK'
    <3>1. sem' \in [Clients -> BOOLEAN]
      BY <1>3, GivenType DEF AppHandle
    <3>2. inbox' \in Seq([type : {"event", "suspend", "exit"}, from : Clients \cup {None}])
          /\ Len(inbox') + start_req' <= NMsg
      BY <1>3 DEF AppHandle, TypeOK
    <3> QED BY <1>3, <3>1, <3>2 DEF AppHandle, TypeOK, appVars
  <2>2. CurrentIsRunning' /\ ListMatches'
    BY <1>3 DEF AppHandle, CurrentIsRunning, ListMatches, appVars
  <2> QED BY <2>1, <2>2
<1>4. CASE AppExitMsg(a)
  <2>1. TypeOK'
    <3> DEFINE Messages == [type : {"event", "suspend", "exit"}, from : Clients \cup {None}]
    <3>0. inbox \in Seq(Messages) /\ inbox # <<>> /\ Len(inbox) + start_req <= NMsg
          /\ start_req \in Nat
      BY <1>4 DEF AppExitMsg, TypeOK
    <3>1. Head(inbox) \in Messages /\ Tail(inbox) \in Seq(Messages)
          /\ Len(Tail(inbox)) + start_req <= NMsg
      <4> HIDE DEF Messages
      <4> QED BY <3>0
    <3>2. reply' \in Clients \cup {None}
      BY <1>4, <3>1 DEF AppExitMsg
    <3> QED BY <1>4, <3>1, <3>2 DEF AppExitMsg, TypeOK, listVars, callVars
  <2>2. CurrentIsRunning' /\ ListMatches'
    BY <1>4 DEF AppExitMsg, CurrentIsRunning, ListMatches, TypeOK, listVars
  <2> QED BY <2>1, <2>2
<1>5. CASE app_manager_thread_exit(a)
  <2>1. TypeOK'
    BY <1>5 DEF app_manager_thread_exit, TypeOK, Given
  <2>2. a \in list /\ actived_app = a
    BY <1>5 DEF app_manager_thread_exit, CurrentIsRunning, ListMatches
  <2>3. CurrentIsRunning' /\ ListMatches'
    BY <1>5, <2>2 DEF app_manager_thread_exit, CurrentIsRunning, ListMatches, TypeOK
  <2> QED BY <2>1, <2>3
<1>6. CASE AppEnds(a)
  BY <1>6 DEF AppEnds, TypeOK, CurrentIsRunning, ListMatches, listVars, msgVars, callVars
<1> QED BY <1>1, <1>2, <1>3, <1>4, <1>5, <1>6 DEF AppStep

\* The types of a client's step that sends a message or not.
LEMMA SentType ==
    ASSUME TypeOK, PoolFree, NEW type \in {"event", "suspend", "exit"},
           NEW from \in Clients \cup {None}
    PROVE  /\ Append(inbox, Msg(type, from)) \in
                 Seq([type : {"event", "suspend", "exit"}, from : Clients \cup {None}])
           /\ Len(Append(inbox, Msg(type, from))) + start_req <= NMsg
BY MsgType DEF TypeOK, PoolFree

\* The beginning of exit_app preserves the invariant.
LEMMA ExitAppIInv ==
    ASSUME IInv, NEW c \in Clients, NEW a \in Apps, NEW d \in BOOLEAN,
           NEW back \in {"relock", "done"}, ExitApp(c, a, d, back), fault' = fault
    PROVE  IInv'
<1> USE DEF IInv
<1>1. sem' \in [Clients -> BOOLEAN] /\ exit_to_default' \in BOOLEAN
  BY DEF ExitApp, TypeOK
<1>2. cpc' \in [Clients -> {"idle", "unlocked", "prepare", "send", "wait", "join",
                           "relock", "notify", "notified", "done"}]
  BY DEF ExitApp, Go, TypeOK
<1>3. TypeOK'
  BY <1>1, <1>2 DEF ExitApp, TypeOK, listVars, msgVars
<1> QED BY <1>3 DEF ExitApp, CurrentIsRunning, ListMatches, listVars

\* Every step of a client inside a call preserves the invariant.
LEMMA ClientStepIInv ==
    ASSUME IInv, NEW c \in Clients, ClientStep(c)
    PROVE  IInv'
<1> USE DEF IInv, At, Go
<1>1. CASE ActiveAppExit(c)
  <2>1. CASE actived_app # None
    <3>1. ExitApp(c, actived_app, FALSE, "relock") /\ fault' = fault
      BY <1>1, <2>1 DEF ActiveAppExit
    <3> QED BY <2>1, <3>1, ExitAppIInv DEF TypeOK
  <2>2. CASE actived_app = None
    BY <1>1, <2>2 DEF ActiveAppExit, TypeOK, CurrentIsRunning, ListMatches, appVars, msgVars, callVars
  <2> QED BY <2>1, <2>2
<1>2. CASE Prepare(c)
  <2>1. term' \in [Slots -> BOOLEAN]
    BY <1>2 DEF Prepare, TypeOK
  <2> QED BY <1>2, <2>1 DEF Prepare, TypeOK, CurrentIsRunning, ListMatches, appVars, msgVars
<1>3. CASE SendExit(c)
  <2>1. CASE CanSend(victim[c])
    <3>1. inbox' = Append(inbox, Msg("exit", c)) /\ PoolFree
      BY <1>3, <2>1 DEF SendExit, CanSend
    <3>2. inbox' \in Seq([type : {"event", "suspend", "exit"}, from : Clients \cup {None}])
          /\ Len(inbox') + start_req' <= NMsg
      BY <1>3, <3>1, SentType DEF SendExit
    <3>3. TypeOK'
      BY <1>3, <2>1, <3>2 DEF SendExit, TypeOK, appVars
    <3> QED BY <1>3, <3>3 DEF SendExit, CurrentIsRunning, ListMatches, appVars
  <2>2. CASE ~CanSend(victim[c])
    BY <1>3, <2>2 DEF SendExit, TypeOK, CurrentIsRunning, ListMatches, appVars
  <2> QED BY <2>1, <2>2
<1>4. CASE Waited(c)
  <2>1. CASE slot' = slot
    <3>1. fault' \in BOOLEAN /\ cpc' \in {cpc, [cpc EXCEPT ![c] = "join"]}
      BY <1>4 DEF Waited, TypeOK
    <3> QED BY <1>4, <2>1, <3>1 DEF Waited, TypeOK, CurrentIsRunning, ListMatches, appVars, msgVars
  <2>2. ASSUME NEW s \in Slots, slot' = [slot EXCEPT ![c] = s], fault' = fault,
               cpc' = [cpc EXCEPT ![c] = "join"]
        PROVE  TypeOK' /\ CurrentIsRunning' /\ ListMatches'
    BY <1>4, <2>2 DEF Waited, TypeOK, CurrentIsRunning, ListMatches, appVars, msgVars
  <2> QED BY <1>4, <2>1, <2>2 DEF Waited
<1>5. CASE Join(c)
  <2>1. term' \in [Slots -> BOOLEAN] /\ fault' \in BOOLEAN
    BY <1>5 DEF Join, TypeOK
  <2> QED BY <1>5, <2>1 DEF Join, TypeOK, CurrentIsRunning, ListMatches, appVars, msgVars
<1>6. CASE Relock(c)
  <2>1. target[c] \in Apps \cup {None}
    BY DEF TypeOK
  <2> QED BY <1>6, <2>1, InitAppKeeps DEF Relock, TypeOK, msgVars
<1>7. CASE NotifySend(c)
  <2>1. CASE CanSend(victim[c])
    <3>1. inbox' = Append(inbox, Msg("suspend", c)) /\ PoolFree
      BY <1>7, <2>1 DEF NotifySend, CanSend
    <3>2. inbox' \in Seq([type : {"event", "suspend", "exit"}, from : Clients \cup {None}])
          /\ Len(inbox') + start_req' <= NMsg
      BY <1>7, <3>1, SentType DEF NotifySend
    <3>3. TypeOK'
      BY <1>7, <2>1, <3>2 DEF NotifySend, TypeOK, appVars
    <3> QED BY <1>7, <3>3 DEF NotifySend, CurrentIsRunning, ListMatches, appVars
  <2>2. CASE ~CanSend(victim[c])
    BY <1>7, <2>2 DEF NotifySend, TypeOK, CurrentIsRunning, ListMatches, appVars
  <2> QED BY <2>1, <2>2
<1>8. CASE NotifyDone(c)
  BY <1>8 DEF NotifyDone, TypeOK, CurrentIsRunning, ListMatches, appVars, msgVars
<1>9. CASE Return(c)
  BY <1>9 DEF Return, TypeOK, CurrentIsRunning, ListMatches, appVars, msgVars
<1> QED BY <1>1, <1>2, <1>3, <1>4, <1>5, <1>6, <1>7, <1>8, <1>9 DEF ClientStep

\* The first critical section of active_app preserves the invariant.
LEMMA ActiveAppIInv ==
    ASSUME IInv, NEW c \in Clients, NEW t \in Apps \cup {None}, ActiveApp(c, t),
           start_req' \in 0..start_req
    PROVE  IInv'
<1> USE DEF IInv, At, Go
<1>1. CASE UNCHANGED <<listVars, apc>> /\ result' \in [Clients -> BOOLEAN]
           /\ cpc' \in {[cpc EXCEPT ![c] = "done"], [cpc EXCEPT ![c] = "unlocked"]}
  <2>1. Len(inbox') + start_req' <= NMsg /\ start_req' \in 0..NMsg
    BY DEF ActiveApp, TypeOK
  <2>2. TypeOK'
    BY <1>1, <2>1 DEF ActiveApp, TypeOK, listVars
  <2> QED BY <1>1, <2>2 DEF CurrentIsRunning, ListMatches, listVars
<1>2. CASE InitApp(c, t) /\ cpc' = [cpc EXCEPT ![c] = "done"]
  BY <1>2, InitAppKeeps DEF ActiveApp, TypeOK
<1> QED BY <1>1, <1>2 DEF ActiveApp, TypeOK

\* Every call that begins preserves the invariant.
LEMMA CallIInv ==
    ASSUME IInv, Call
    PROVE  IInv'
<1> USE DEF IInv, At, Go
<1>1. ASSUME NEW c \in Switchers, NEW t \in Apps \cup {None}, Switch(c, t)
      PROVE  IInv'
  <2>1. start_req' \in 0..start_req
    BY <1>1 DEF Switch, TypeOK
  <2> QED BY <1>1, <2>1, ActiveAppIInv DEF Switch
<1>2. ASSUME NEW c \in Notifiers, NEW a \in Apps, NotifyApp(c, a)
      PROVE  IInv'
  BY <1>2 DEF NotifyApp, TypeOK, CurrentIsRunning, ListMatches, appVars, msgVars
<1>3. ASSUME NEW a \in Apps, MainExit(a)
      PROVE  IInv'
  BY <1>3, ExitAppIInv DEF MainExit
<1>4. CASE MainStart
  <2>1. default_app \in Apps \cup {None} /\ start_req' \in 0..start_req
    BY <1>4 DEF MainStart, TypeOK
  <2> QED BY <1>4, <2>1, ActiveAppIInv DEF MainStart
<1>5. CASE Post
  BY <1>5, SentType DEF Post, TypeOK, CurrentIsRunning, ListMatches, appVars, callVars
<1> QED BY <1>1, <1>2, <1>3, <1>4, <1>5 DEF Call

\* The invariant is inductive.
LEMMA StepIInv == IInv /\ [Next]_vars => IInv'
<1> SUFFICES ASSUME IInv, [Next]_vars PROVE IInv'
  OBVIOUS
<1>1. CASE UNCHANGED vars
  BY <1>1 DEF IInv, TypeOK, CurrentIsRunning, ListMatches,
              vars, appVars, msgVars, callVars
<1>2. CASE Next
  BY <1>1, <1>2, CallIInv, ClientStepIInv, AppStepIInv DEF Next, Halted
<1> QED BY <1>1, <1>2

\* The invariant holds in every reachable state.
LEMMA AlwaysIInv == Spec => []IInv
BY InitIInv, StepIInv, PTL DEF Spec

\* Type correctness, of which the bound on the message pool is a part: no
\* more than CONFIG_NUM_MBOX_ASYNC_MSGS messages are ever pending.
THEOREM TypeCorrect == Spec => []TypeOK
BY AlwaysIInv, PTL DEF IInv

\* actived_app is the one application listed, for any number of threads that
\* switch, exit, fail and notify concurrently (app_manager.c).
THEOREM CurrentAlwaysRunning == Spec => []CurrentIsRunning
BY AlwaysIInv, PTL DEF IInv

-----------------------------------------------------------------------------
(* One thread that switches.  If only main calls active_app and exit_app,  *)
(* and no application gives up by itself, an exit is under way exactly     *)
(* while main waits for it.                                                *)

OneSwitcher == Switchers \subseteq {Main} /\ CanFail = {} /\ NTerm >= 1

\* An exit message is pending or an application is about to leave the list.
PendingExit ==
    \/ \E j \in 1..Len(inbox) : inbox[j].type = "exit"
    \/ \E a \in Apps : apc[a] = "exit"

\* The other clients only notify.
OthersInv ==
    \A c \in Clients : c # Main => cpc[c] \in {"idle", "notify", "notified", "done"}

\* A message with a callback belongs to the one call that waits for it, whose
\* semaphore has not been given since the call began.
MsgInv ==
    /\ \A j \in 1..Len(inbox) : inbox[j].type = "exit" => inbox[j].from = Main
    /\ \A j \in 1..Len(inbox) : inbox[j].from # None =>
          /\ ~sem[inbox[j].from]
          /\ cpc[inbox[j].from] = IF inbox[j].type = "exit" THEN "wait" ELSE "notified"
    /\ \A i, j \in 1..Len(inbox) :
          inbox[i].from = inbox[j].from /\ inbox[i].from # None => i = j
    /\ \A c \in Clients : cpc[c] \in {"notify", "prepare", "send"} => ~sem[c]
    /\ reply \in {None, Main}

\* Between two critical sections of main nobody else exits the application it
\* has looked at, and a slot is in use from prepare to join.
ExitInv ==
    /\ ~fault
    /\ cpc[Main] = "unlocked" => actived_app # None
    /\ cpc[Main] \in {"prepare", "send"} => victim[Main] = actived_app /\ actived_app # None
    /\ PendingExit => /\ cpc[Main] = "wait" /\ ~sem[Main]
                      /\ victim[Main] = actived_app /\ actived_app # None
    /\ cpc[Main] \in {"send", "wait", "join"} => \E x \in Slots : term[x]
    /\ cpc[Main] = "join" => slot[Main] \in Slots /\ term[slot[Main]]

SwitchInv == OthersInv /\ MsgInv /\ ExitInv

Message == [type : {"event", "suspend", "exit"}, from : Clients \cup {None}]

\* What a receive does to the queue.
LEMMA TailQueue ==
    ASSUME TypeOK, inbox # <<>>, inbox' = Tail(inbox)
    PROVE  /\ Len(inbox) \in Nat \ {0} /\ Len(inbox') = Len(inbox) - 1
           /\ Head(inbox) = inbox[1]
           /\ \A j \in 1..Len(inbox) : inbox[j] \in Message
           /\ \A j \in 1..Len(inbox') : j + 1 \in 1..Len(inbox) /\ inbox'[j] = inbox[j + 1]
<1>1. inbox \in Seq(Message)
  BY DEF TypeOK, Message
<1> QED BY <1>1

\* What a send does to the queue.
LEMMA AppendQueue ==
    ASSUME TypeOK, NEW m \in Message, inbox' = Append(inbox, m)
    PROVE  /\ Len(inbox) \in Nat /\ Len(inbox') = Len(inbox) + 1
           /\ inbox'[Len(inbox) + 1] = m
           /\ \A j \in 1..Len(inbox) : inbox[j] \in Message /\ inbox'[j] = inbox[j]
<1>1. inbox \in Seq(Message)
  BY DEF TypeOK, Message
<1> QED BY <1>1

\* The messages of the queue, at their places.
LEMMA QueueType ==
    ASSUME TypeOK
    PROVE  Len(inbox) \in Nat /\ \A j \in 1..Len(inbox) : inbox[j] \in Message
<1>1. inbox \in Seq(Message)
  BY DEF TypeOK, Message
<1> QED BY <1>1

\* A client that waits for no answer has no message pending.
LEMMA NoMessage ==
    ASSUME TypeOK, MsgInv, NEW c \in Clients, cpc[c] \notin {"wait", "notified"}
    PROVE  \A j \in 1..Len(inbox) : inbox[j].from # c
BY DEF MsgInv

\* An application about to leave the list is the active one.
LEMMA ExitingIsActive ==
    ASSUME IInv, NEW a \in Apps, apc[a] = "exit"
    PROVE  /\ actived_app = a /\ list = {a}
           /\ \A b \in Apps : b # a => apc[b] \in {"dead", "linger"}
BY DEF IInv, TypeOK, CurrentIsRunning, ListMatches

\* The rules hold initially.
LEMMA InitSwitch == Init => SwitchInv
<1> SUFFICES ASSUME Init PROVE SwitchInv
  OBVIOUS
<1>1. Len(inbox) = 0
  BY DEF Init
<1>2. cpc[Main] = "idle" /\ \A c \in Clients : cpc[c] = "idle"
  BY DEF Init
<1>3. ~PendingExit /\ ~fault
  BY <1>1 DEF Init, PendingExit
<1> QED BY <1>1, <1>2, <1>3 DEF Init, SwitchInv, OthersInv, MsgInv, ExitInv

\* The rules about messages are kept by a step of the client, if any, that
\* changes no message and has none pending.
LEMMA CalmKeeps ==
    ASSUME TypeOK, MsgInv, UNCHANGED <<inbox, reply>>, NEW c \in Clients,
           \A d \in Clients : d # c => cpc'[d] = cpc[d] /\ sem'[d] = sem[d],
           \/ cpc'[c] = cpc[c] /\ sem'[c] = sem[c]
           \/ /\ \A j \in 1..Len(inbox) : inbox[j].from # c
              /\ cpc'[c] \in {"notify", "prepare", "send"} => ~sem'[c]
    PROVE  MsgInv'
<1>1. \A j \in 1..Len(inbox) : inbox[j].from \in Clients \cup {None}
  BY QueueType DEF Message
<1> QED BY <1>1 DEF MsgInv

\* The steps of the applications' threads keep the rules.
LEMMA AppSwitchInv ==
    ASSUME OneSwitcher, IInv, SwitchInv, NEW a \in Apps, AppStep(a)
    PROVE  SwitchInv'
<1> USE DEF SwitchInv, Runs
<1>0. TypeOK /\ Main \in Clients
  BY DEF IInv
<1>1. CASE AppReady(a)
  <2>1. /\ UNCHANGED <<inbox, reply, cpc, sem, fault, actived_app, victim, term, slot>>
        /\ apc' = [apc EXCEPT ![a] = "loop"]
    BY <1>1 DEF AppReady, listVars, msgVars, callVars
  <2>2. MsgInv'
    BY <1>0, <2>1, CalmKeeps
  <2>3. PendingExit' => PendingExit
    BY <1>0, <2>1 DEF PendingExit, TypeOK
  <2> QED BY <2>1, <2>2, <2>3 DEF OthersInv, ExitInv
<1>2. CASE AppInitFails(a)
  BY <1>2 DEF AppInitFails, OneSwitcher
<1>3. CASE AppHandle(a)
  <2>1. /\ inbox # <<>> /\ inbox' = Tail(inbox) /\ Head(inbox).type # "exit"
        /\ sem' = [c \in Clients |-> sem[c] \/ c = Head(inbox).from]
        /\ UNCHANGED <<apc, reply, cpc, fault, actived_app, victim, term, slot>>
    BY <1>3 DEF AppHandle, appVars, Given
  <2>2. /\ Len(inbox) \in Nat \ {0} /\ Len(inbox') = Len(inbox) - 1
        /\ Head(inbox) = inbox[1] /\ \A j \in 1..Len(inbox) : inbox[j] \in Message
        /\ \A j \in 1..Len(inbox') : j + 1 \in 1..Len(inbox) /\ inbox'[j] = inbox[j + 1]
    BY <1>0, <2>1, TailQueue
  <2>3. \A j \in 1..Len(inbox') : inbox'[j].from # None =>
           inbox'[j].from \in Clients /\ inbox'[j].from # Head(inbox).from
    <3>1. \A j \in 1..Len(inbox') : j + 1 # 1 /\ 1 \in 1..Len(inbox)
      BY <2>2
    <3> QED BY <2>2, <3>1 DEF MsgInv, Message
  <2>4. \A c \in Clients : cpc[c] \in {"notify", "prepare", "send"} => c # Head(inbox).from
    <3>1. 1 \in 1..Len(inbox)
      BY <2>2
    <3> QED BY <2>2, <3>1 DEF MsgInv
  <2>5. MsgInv'
    <3>1. \A j \in 1..Len(inbox') : inbox'[j].type = "exit" => inbox'[j].from = Main
      BY <2>2 DEF MsgInv
    <3>2. \A j \in 1..Len(inbox') : inbox'[j].from # None =>
             /\ ~sem'[inbox'[j].from]
             /\ cpc'[inbox'[j].from] = IF inbox'[j].type = "exit" THEN "wait" ELSE "notified"
      <4> TAKE j \in 1..Len(inbox')
      <4> HAVE inbox'[j].from # None
      <4>1. j + 1 \in 1..Len(inbox) /\ inbox'[j] = inbox[j + 1]
        BY <2>2
      <4>2. /\ ~sem[inbox'[j].from]
            /\ cpc[inbox'[j].from] = IF inbox'[j].type = "exit" THEN "wait" ELSE "notified"
        BY <4>1 DEF MsgInv
      <4>3. sem'[inbox'[j].from] = (sem[inbox'[j].from] \/ inbox'[j].from = Head(inbox).from)
        BY <2>1, <2>3
      <4> QED BY <2>1, <2>3, <4>2, <4>3
    <3>3. \A i, j \in 1..Len(inbox') :
             inbox'[i].from = inbox'[j].from /\ inbox'[i].from # None => i = j
      <4>1. \A i, j \in 1..Len(inbox') : i + 1 = j + 1 => i = j
        BY <2>2
      <4> QED BY <2>2, <4>1 DEF MsgInv
    <3>4. \A c \in Clients : cpc'[c] \in {"notify", "prepare", "send"} => ~sem'[c]
      BY <2>1, <2>4 DEF MsgInv
    <3> QED BY <2>1, <3>1, <3>2, <3>3, <3>4 DEF MsgInv
  <2>6. PendingExit' => PendingExit
    BY <2>1, <2>2 DEF PendingExit
  <2>7. PendingExit => Head(inbox).from # Main
    <3>1. 1 \in 1..Len(inbox)
      BY <2>2
    <3> QED BY <2>1, <2>2, <3>1 DEF ExitInv, MsgInv
  <2>8. ExitInv'
    BY <1>0, <2>1, <2>6, <2>7 DEF ExitInv
  <2> QED BY <2>1, <2>5, <2>8 DEF OthersInv
<1>4. CASE AppExitMsg(a)
  <2>1. /\ inbox # <<>> /\ inbox' = Tail(inbox) /\ Head(inbox).type = "exit"
        /\ apc' = [apc EXCEPT ![a] = "exit"] /\ reply' = Head(inbox).from
        /\ UNCHANGED <<sem, cpc, fault, actived_app, victim, term, slot>>
    BY <1>4 DEF AppExitMsg, listVars, callVars
  <2>2. /\ Len(inbox) \in Nat \ {0} /\ Len(inbox') = Len(inbox) - 1
        /\ Head(inbox) = inbox[1]
        /\ \A j \in 1..Len(inbox') : j + 1 \in 1..Len(inbox) /\ inbox'[j] = inbox[j + 1]
        /\ 1 \in 1..Len(inbox)
    BY <1>0, <2>1, TailQueue
  <2>3. MsgInv'
    <3>1. \A i, j \in 1..Len(inbox') : i + 1 = j + 1 => i = j
      BY <2>2
    <3>2. reply' = Main
      BY <2>1, <2>2 DEF MsgInv
    <3> QED BY <2>1, <2>2, <3>1, <3>2 DEF MsgInv
  <2>4. PendingExit
    BY <2>1, <2>2 DEF PendingExit
  <2> QED BY <2>1, <2>3, <2>4 DEF OthersInv, ExitInv
<1>5. CASE app_manager_thread_exit(a)
  <2>1. /\ inbox' = <<>> /\ sem' = Given(Senders(inbox) \cup {reply})
        /\ fault' = (actived_app = None) /\ apc[a] = "exit" /\ reply' = None
        /\ apc' = [apc EXCEPT ![a] = IF a \in Linger THEN "linger" ELSE "dead"]
        /\ UNCHANGED <<cpc, term, slot, victim>>
    BY <1>5 DEF app_manager_thread_exit
  <2>2. Len(inbox') = 0
    BY <2>1
  <2>3. PendingExit
    BY <2>1 DEF PendingExit
  <2>4. cpc[Main] = "wait"
    BY <2>3 DEF ExitInv
  <2>5. \A c \in Clients : cpc[c] \in {"notify", "prepare", "send"} =>
           c \notin Senders(inbox) \cup {reply}
    BY <2>4 DEF MsgInv, Senders
  <2>6. MsgInv'
    <3>1. \A c \in Clients : sem'[c] = (sem[c] \/ c \in Senders(inbox) \cup {reply})
      BY <2>1 DEF Given
    <3>2. \A c \in Clients : cpc'[c] \in {"notify", "prepare", "send"} => ~sem'[c]
      BY <2>1, <2>5, <3>1 DEF MsgInv
    <3>3. 1..Len(inbox') = {} /\ reply' = None
      BY <2>1, <2>2
    <3> QED BY <3>2, <3>3 DEF MsgInv
  <2>7. actived_app = a /\ \A b \in Apps : b # a => apc[b] \in {"dead", "linger"}
    BY <2>1, ExitingIsActive
  <2>8. ~PendingExit' /\ ~fault'
    <3>1. a # None
      OBVIOUS
    <3>2. ~fault'
      BY <2>1, <2>7, <3>1
    <3>3. \A b \in Apps : apc'[b] # "exit"
      BY <1>0, <2>1, <2>7 DEF TypeOK
    <3>4. ~PendingExit'
      BY <2>2, <3>3 DEF PendingExit
    <3> QED BY <3>2, <3>4
  <2> QED BY <2>1, <2>4, <2>6, <2>8 DEF OthersInv, ExitInv
<1>6. CASE AppEnds(a)
  <2>1. /\ UNCHANGED <<inbox, reply, cpc, sem, fault, actived_app, victim, term, slot>>
        /\ apc' = [apc EXCEPT ![a] = "dead"]
    BY <1>6 DEF AppEnds, listVars, msgVars, callVars
  <2>2. MsgInv'
    BY <1>0, <2>1, CalmKeeps
  <2>3. PendingExit' => PendingExit
    BY <1>0, <2>1 DEF PendingExit, TypeOK
  <2> QED BY <2>1, <2>2, <2>3 DEF OthersInv, ExitInv
<1> QED BY <1>1, <1>2, <1>3, <1>4, <1>5, <1>6 DEF AppStep

\* A message that is sent with its callback joins the others.
LEMMA SendKeeps ==
    ASSUME TypeOK, MsgInv, NEW c \in Clients, NEW type \in {"suspend", "exit"},
           cpc[c] \in {"notify", "send"}, inbox' = Append(inbox, Msg(type, c)),
           type = "exit" => c = Main,
           cpc' = [cpc EXCEPT ![c] = IF type = "exit" THEN "wait" ELSE "notified"],
           UNCHANGED <<sem, reply>>
    PROVE  MsgInv'
<1> DEFINE n == Len(inbox)
<1>1. Msg(type, c) \in Message /\ Msg(type, c).from = c /\ Msg(type, c).type = type
  BY DEF Msg, Message
<1>2. /\ n \in Nat /\ Len(inbox') = n + 1 /\ inbox'[n + 1] = Msg(type, c)
      /\ \A j \in 1..n : inbox[j] \in Message /\ inbox'[j] = inbox[j]
  BY <1>1, AppendQueue
<1>3. \A j \in 1..n : inbox[j].from # c /\ inbox[j].from \in Clients \cup {None}
  BY <1>2, NoMessage DEF Message
<1>4. \A j \in 1..Len(inbox') : j \in 1..n \/ j = n + 1
  BY <1>2
<1>5. /\ ~sem[c] /\ cpc'[c] = IF type = "exit" THEN "wait" ELSE "notified"
      /\ \A d \in Clients : d # c => cpc'[d] = cpc[d]
  BY DEF MsgInv, TypeOK
<1>6. \A j \in 1..Len(inbox') : inbox'[j].type = "exit" => inbox'[j].from = Main
  BY <1>1, <1>2, <1>4 DEF MsgInv
<1>7. \A j \in 1..Len(inbox') : inbox'[j].from # None =>
         /\ ~sem'[inbox'[j].from]
         /\ cpc'[inbox'[j].from] = IF inbox'[j].type = "exit" THEN "wait" ELSE "notified"
  <2> TAKE j \in 1..Len(inbox')
  <2> HAVE inbox'[j].from # None
  <2>1. CASE j \in 1..n
    <3>1. inbox'[j] = inbox[j] /\ inbox[j].from \in Clients /\ inbox[j].from # c
      BY <1>2, <1>3, <2>1
    <3> QED BY <1>5, <2>1, <3>1 DEF MsgInv
  <2>2. CASE j = n + 1
    BY <1>1, <1>2, <1>5, <2>2
  <2> QED BY <1>4, <2>1, <2>2
<1>8. \A i, j \in 1..Len(inbox') :
         inbox'[i].from = inbox'[j].from /\ inbox'[i].from # None => i = j
  BY <1>1, <1>2, <1>3, <1>4 DEF MsgInv
<1>9. \A d \in Clients : cpc'[d] \in {"notify", "prepare", "send"} => ~sem'[d]
  BY <1>5 DEF MsgInv
<1> QED BY <1>6, <1>7, <1>8, <1>9 DEF MsgInv

\* The beginning of exit_app, for an application that is listed or not.
LEMMA ExitAppSwitchInv ==
    ASSUME OneSwitcher, IInv, SwitchInv, NEW a \in Apps, NEW d \in BOOLEAN,
           NEW back \in {"relock", "done"}, ExitApp(Main, a, d, back), fault' = fault,
           cpc[Main] \in {"idle", "unlocked"}
    PROVE  SwitchInv'
<1> USE DEF SwitchInv
<1>0. TypeOK /\ Main \in Clients /\ CurrentIsRunning
  BY DEF IInv
<1>1. /\ victim' = [victim EXCEPT ![Main] = a]
      /\ cpc' = [cpc EXCEPT ![Main] = IF a \in list THEN "prepare" ELSE back]
      /\ sem' = [sem EXCEPT ![Main] = FALSE]
      /\ UNCHANGED <<inbox, reply, apc, actived_app, list, term, slot>>
  BY DEF ExitApp, Go, listVars, msgVars
<1>2. /\ cpc'[Main] = IF a \in list THEN "prepare" ELSE back
      /\ ~sem'[Main] /\ victim'[Main] = a
      /\ \A c \in Clients : c # Main => cpc'[c] = cpc[c] /\ sem'[c] = sem[c]
  BY <1>0, <1>1 DEF TypeOK
<1>3. \A j \in 1..Len(inbox) : inbox[j].from # Main
  BY <1>0, NoMessage
<1>4. MsgInv'
  BY <1>0, <1>1, <1>2, <1>3, CalmKeeps
<1>5. OthersInv'
  BY <1>2 DEF OthersInv
<1>6. ~PendingExit /\ PendingExit' = PendingExit
  BY <1>1 DEF PendingExit, ExitInv
<1>7. a \in list => a = actived_app /\ a # None
  BY <1>0 DEF CurrentIsRunning
<1>8. ExitInv'
  BY <1>1, <1>2, <1>6, <1>7 DEF ExitInv
<1> QED BY <1>4, <1>5, <1>8

\* os_thread_prepare_terminal finds the first free slot.
LEMMA FirstFree ==
    ASSUME NEW free \in SUBSET Slots, free # {}
    PROVE  (CHOOSE s \in free : \A r \in free : s <= r) \in free
<1>1. \E s \in free : \A r \in free : s <= r
  <2> DEFINE R == OpToRel(<, Nat)
  <2>1. free \subseteq Nat
    BY DEF Slots
  <2>2. PICK x \in free : \A y \in free : ~(<<y, x>> \in R)
    BY <2>1, NatLessThanWellFounded, WFMin, Zenon DEF R
  <2>3. \A y \in free : ~(y < x)
    BY <2>1, <2>2 DEF OpToRel
  <2> QED BY <2>1, <2>3
<1> QED BY <1>1

\* A step of a client inside its call that no rule about exits looks at.
LEMMA PlainSwitchInv ==
    ASSUME IInv, SwitchInv, NEW c \in Clients, NEW p \in {"notify", "done", "idle", "unlocked"},
           cpc[c] \notin {"wait", "notified"} \/ (cpc[c] = "notified" /\ sem[c]),
           cpc' = [cpc EXCEPT ![c] = p],
           \A d \in Clients : d # c => sem'[d] = sem[d],
           p = "notify" => ~sem'[c],
           p = "unlocked" => c = Main /\ actived_app' # None,
           UNCHANGED <<inbox, reply, term, slot, fault>>,
           ~PendingExit' \/ (apc' = apc /\ actived_app' = actived_app
                              /\ (c = Main \/ victim'[Main] = victim[Main])),
           c # Main => UNCHANGED <<apc, actived_app>> /\ victim'[Main] = victim[Main]
    PROVE  SwitchInv'
<1> USE DEF SwitchInv
<1>0. TypeOK /\ Main \in Clients
  BY DEF IInv
<1>1. cpc'[c] = p /\ \A d \in Clients : d # c => cpc'[d] = cpc[d]
  BY <1>0 DEF TypeOK
<1>2. \A j \in 1..Len(inbox) : inbox[j].from # c
  <2>1. CASE cpc[c] \notin {"wait", "notified"}
    BY <1>0, <2>1, NoMessage
  <2>2. CASE sem[c]
    BY <2>2 DEF MsgInv
  <2> QED BY <2>1, <2>2
<1>3. MsgInv'
  BY <1>0, <1>1, <1>2, CalmKeeps
<1>4. OthersInv'
  BY <1>1 DEF OthersInv
<1>5. PendingExit' => PendingExit
  BY DEF PendingExit
<1>6. ASSUME c = Main PROVE ExitInv'
  <2>1. ~PendingExit'
    BY <1>5, <1>6 DEF ExitInv
  <2>2. cpc'[Main] = p
    BY <1>1, <1>6
  <2>3. ~fault'
    BY DEF ExitInv
  <2> QED BY <2>1, <2>2, <2>3 DEF ExitInv
<1>7. ASSUME c # Main PROVE ExitInv'
  <2>1. cpc'[Main] = cpc[Main] /\ sem'[Main] = sem[Main]
    BY <1>0, <1>1, <1>7
  <2>2. UNCHANGED <<apc, actived_app>> /\ victim'[Main] = victim[Main]
    BY <1>7
  <2> QED BY <1>5, <2>1, <2>2 DEF ExitInv
<1> QED BY <1>3, <1>4, <1>6, <1>7

\* Starting an application begins no exit.
LEMMA InitAppNoExit ==
    ASSUME IInv, ExitInv, NEW c \in Clients, NEW t \in Apps \cup {None}, inbox' = inbox,
           cpc[Main] # "wait", InitApp(c, t) \/ UNCHANGED <<listVars, apc>>
    PROVE  ~PendingExit'
<1>1. ~PendingExit
  BY DEF ExitInv
<1>2. \A a \in Apps : apc'[a] = apc[a] \/ apc'[a] = "init"
  BY DEF InitApp, StartApp, StartNone, IInv, TypeOK
<1> QED BY <1>1, <1>2 DEF PendingExit

\* The calls that begin keep the rules.
LEMMA CallSwitchInv ==
    ASSUME OneSwitcher, IInv, SwitchInv, Call
    PROVE  SwitchInv'
<1> USE DEF At, Go
<1>0. TypeOK /\ Main \in Clients /\ MsgInv /\ ExitInv /\ OthersInv
  BY DEF IInv, SwitchInv
<1>1. ASSUME NEW t \in Apps \cup {None}, ActiveApp(Main, t)
      PROVE  SwitchInv'
  <2>1. /\ cpc[Main] = "idle" /\ UNCHANGED <<reply, inbox, term, victim, slot, sem, fault>>
        /\ InitApp(Main, t) \/ UNCHANGED <<listVars, apc>>
    BY <1>1 DEF ActiveApp
  <2>2. ~PendingExit'
    BY <1>0, <2>1, InitAppNoExit
  <2>3. PICK p \in {"done", "unlocked"} :
           /\ cpc' = [cpc EXCEPT ![Main] = p]
           /\ p = "unlocked" => actived_app' # None
    BY <1>1 DEF ActiveApp, listVars
  <2> QED BY <1>0, <2>1, <2>2, <2>3, PlainSwitchInv
<1>2. ASSUME NEW c \in Switchers, NEW t \in Apps \cup {None}, Switch(c, t)
      PROVE  SwitchInv'
  <2>1. c = Main
    BY DEF OneSwitcher
  <2> QED BY <1>1, <1>2, <2>1 DEF Switch
<1>3. ASSUME NEW c \in Notifiers, NEW a \in Apps, NotifyApp(c, a)
      PROVE  SwitchInv'
  <2>0. c \in Clients
    OBVIOUS
  <2>1. /\ cpc[c] = "idle" /\ cpc' = [cpc EXCEPT ![c] = "notify"]
        /\ sem' = [sem EXCEPT ![c] = FALSE] /\ victim' = [victim EXCEPT ![c] = a]
        /\ UNCHANGED <<inbox, reply, apc, actived_app, term, slot, fault>>
    BY <1>3 DEF NotifyApp, appVars, msgVars
  <2>2. ~sem'[c] /\ \A d \in Clients : d # c => sem'[d] = sem[d] /\ victim'[d] = victim[d]
    BY <1>0, <2>0, <2>1 DEF TypeOK
  <2> QED BY <1>0, <2>0, <2>1, <2>2, PlainSwitchInv
<1>4. ASSUME NEW a \in Apps, MainExit(a)
      PROVE  SwitchInv'
  BY <1>4, ExitAppSwitchInv DEF MainExit
<1>5. CASE MainStart
  <2>1. default_app \in Apps \cup {None}
    BY <1>0 DEF TypeOK
  <2> QED BY <1>1, <1>5, <2>1 DEF MainStart
<1>6. CASE Post
  <2>1. /\ inbox' = Append(inbox, Msg("event", None)) /\ Msg("event", None) \in Message
        /\ Msg("event", None).from = None /\ Msg("event", None).type = "event"
        /\ UNCHANGED <<reply, cpc, sem, apc, actived_app, victim, term, slot, fault>>
    BY <1>6 DEF Post, appVars, callVars, Msg, Message
  <2>2. /\ Len(inbox) \in Nat /\ Len(inbox') = Len(inbox) + 1
        /\ inbox'[Len(inbox) + 1] = Msg("event", None)
        /\ \A j \in 1..Len(inbox) : inbox[j] \in Message /\ inbox'[j] = inbox[j]
    BY <1>0, <2>1, AppendQueue
  <2>3. \A j \in 1..Len(inbox') : j \in 1..Len(inbox)
                                  \/ (inbox'[j].from = None /\ inbox'[j].type = "event")
    BY <2>1, <2>2
  <2>4. MsgInv'
    BY <1>0, <2>1, <2>2, <2>3 DEF MsgInv
  <2>5. PendingExit' => PendingExit
    BY <2>1, <2>2, <2>3 DEF PendingExit
  <2>6. ExitInv'
    BY <1>0, <2>1, <2>5 DEF ExitInv
  <2> QED BY <1>0, <2>1, <2>4, <2>6 DEF SwitchInv, OthersInv
<1> QED BY <1>2, <1>3, <1>4, <1>5, <1>6 DEF Call

\* The steps of clients inside their calls keep the rules.
LEMMA ClientSwitchInv ==
    ASSUME OneSwitcher, IInv, SwitchInv, NEW c \in Clients, ClientStep(c)
    PROVE  SwitchInv'
<1> USE DEF At, Go
<1>0. TypeOK /\ Main \in Clients /\ MsgInv /\ ExitInv /\ OthersInv /\ CurrentIsRunning
  BY DEF IInv, SwitchInv
<1>9. cpc[c] \in {"unlocked", "prepare", "send", "wait", "join", "relock"} => c = Main
  BY <1>0 DEF OthersInv
<1>1. CASE ActiveAppExit(c)
  <2>1. c = Main /\ cpc[Main] = "unlocked" /\ actived_app # None
    BY <1>0, <1>1, <1>9 DEF ActiveAppExit, ExitInv
  <2>2. ExitApp(Main, actived_app, FALSE, "relock") /\ fault' = fault /\ actived_app \in Apps
    BY <1>0, <1>1, <2>1 DEF ActiveAppExit, TypeOK
  <2> QED BY <2>1, <2>2, ExitAppSwitchInv
<1>2. CASE Prepare(c)
  <2>1. /\ c = Main /\ cpc[Main] = "prepare" /\ cpc' = [cpc EXCEPT ![Main] = "send"]
        /\ UNCHANGED <<inbox, reply, apc, actived_app, victim, slot, sem, fault>>
    BY <1>2, <1>9 DEF Prepare, appVars, msgVars
  <2>2. cpc'[Main] = "send" /\ \A d \in Clients : d # Main => cpc'[d] = cpc[d]
    BY <1>0, <2>1 DEF TypeOK
  <2>3. ~sem'[Main] /\ \A j \in 1..Len(inbox) : inbox[j].from # Main
    BY <1>0, <2>1, NoMessage DEF MsgInv
  <2>4. MsgInv'
    BY <1>0, <2>1, <2>2, <2>3, CalmKeeps
  <2>5. ~PendingExit'
    BY <1>0, <2>1 DEF ExitInv, PendingExit
  <2>6. \E x \in Slots : term'[x]
    <3> DEFINE free == {s \in Slots : ~term[s]}
               k == CHOOSE s \in free : \A r \in free : s <= r
    <3>0. 1 \in Slots /\ Slots \subseteq Int /\ term \in [Slots -> BOOLEAN]
      BY <1>0 DEF OneSwitcher, Slots, TypeOK
    <3>1. CASE free = {}
      <4>1. term' = term
        BY <1>2, <3>1 DEF Prepare
      <4> QED BY <3>0, <3>1, <4>1
    <3>2. CASE free # {}
      <4>1. term' = [term EXCEPT ![k] = TRUE]
        BY <1>2, <3>2 DEF Prepare
      <4>2. k \in free
        BY <3>2, FirstFree
      <4> QED BY <3>0, <4>1, <4>2
    <3> QED BY <3>1, <3>2
  <2>7. ExitInv'
    BY <1>0, <2>1, <2>2, <2>5, <2>6 DEF ExitInv
  <2> QED BY <1>0, <2>2, <2>4, <2>7 DEF SwitchInv, OthersInv
<1>3. CASE SendExit(c)
  <2>1. /\ c = Main /\ cpc[Main] = "send"
        /\ UNCHANGED <<reply, apc, actived_app, victim, term, slot, sem, fault>>
    BY <1>3, <1>9 DEF SendExit, appVars
  <2>2. CASE CanSend(victim[c])
    <3>1. inbox' = Append(inbox, Msg("exit", Main)) /\ cpc' = [cpc EXCEPT ![Main] = "wait"]
      BY <1>3, <2>1, <2>2 DEF SendExit
    <3>2. MsgInv'
      BY <1>0, <2>1, <3>1, SendKeeps
    <3>3. cpc'[Main] = "wait" /\ \A d \in Clients : d # Main => cpc'[d] = cpc[d]
      BY <1>0, <3>1 DEF TypeOK
    <3>4. ~sem'[Main] /\ victim'[Main] = actived_app' /\ actived_app' # None
      BY <1>0, <2>1 DEF MsgInv, ExitInv
    <3>5. ExitInv'
      BY <1>0, <2>1, <3>3, <3>4 DEF ExitInv
    <3> QED BY <1>0, <3>2, <3>3, <3>5 DEF SwitchInv, OthersInv
  <2>3. CASE ~CanSend(victim[c])
    <3>1. inbox' = inbox /\ cpc' = [cpc EXCEPT ![Main] = ret[Main]]
      BY <1>3, <2>1, <2>3 DEF SendExit
    <3>2. cpc'[Main] \in {"idle", "relock", "done"} /\ \A d \in Clients : d # Main => cpc'[d] = cpc[d]
      BY <1>0, <3>1 DEF TypeOK
    <3>3. \A j \in 1..Len(inbox) : inbox[j].from # Main
      BY <1>0, <2>1, NoMessage
    <3>4. MsgInv'
      BY <1>0, <2>1, <3>1, <3>2, <3>3, CalmKeeps
    <3>5. ~PendingExit'
      BY <1>0, <2>1, <3>1 DEF ExitInv, PendingExit
    <3>6. ExitInv'
      BY <1>0, <2>1, <3>2, <3>5 DEF ExitInv
    <3> QED BY <1>0, <3>2, <3>4, <3>6 DEF SwitchInv, OthersInv
  <2> QED BY <2>2, <2>3
<1>4. CASE Waited(c)
  <2>1. /\ c = Main /\ cpc[Main] = "wait" /\ (sem[Main] \/ victim[Main] \notin list)
        /\ UNCHANGED <<inbox, reply, apc, actived_app, victim, term, sem>>
    BY <1>4, <1>9 DEF Waited, appVars, msgVars
  <2>2. ~PendingExit
    <3>1. PendingExit => ~sem[Main] /\ victim[Main] = actived_app /\ actived_app # None
      BY <1>0 DEF ExitInv
    <3> QED BY <1>0, <2>1, <3>1 DEF CurrentIsRunning
  <2>3. {s \in Slots : term[s]} # {}
    BY <1>0, <2>1 DEF ExitInv
  <2>4. PICK x \in Slots : term[x] /\ slot' = [slot EXCEPT ![Main] = x]
    BY <1>4, <2>1, <2>3 DEF Waited
  <2>5. cpc' = [cpc EXCEPT ![Main] = "join"] /\ fault' = fault
    BY <1>4, <2>1, <2>3 DEF Waited
  <2>6. cpc'[Main] = "join" /\ \A d \in Clients : d # Main => cpc'[d] = cpc[d]
    BY <1>0, <2>5 DEF TypeOK
  <2>7. \A j \in 1..Len(inbox) : inbox[j].from # Main
    BY <1>0, <2>1, <2>2 DEF MsgInv, PendingExit
  <2>8. MsgInv'
    BY <1>0, <2>1, <2>6, <2>7, CalmKeeps
  <2>9. ~PendingExit'
    BY <2>1, <2>2 DEF PendingExit
  <2>10. slot'[Main] = x
    BY <1>0, <2>4 DEF TypeOK
  <2>11. ExitInv'
    BY <1>0, <2>1, <2>4, <2>5, <2>6, <2>9, <2>10 DEF ExitInv
  <2> QED BY <1>0, <2>6, <2>8, <2>11 DEF SwitchInv, OthersInv
<1>5. CASE Join(c)
  <2>1. /\ c = Main /\ cpc[Main] = "join"
        /\ UNCHANGED <<inbox, reply, apc, actived_app, victim, sem>>
    BY <1>5, <1>9 DEF Join, appVars, msgVars
  <2>2. term[slot[Main]] /\ ~PendingExit
    BY <1>0, <2>1 DEF ExitInv
  <2>3. cpc' = [cpc EXCEPT ![Main] = ret[Main]] /\ fault' = fault
    BY <1>5, <2>1, <2>2 DEF Join
  <2>4. cpc'[Main] \in {"idle", "relock", "done"} /\ \A d \in Clients : d # Main => cpc'[d] = cpc[d]
    BY <1>0, <2>3 DEF TypeOK
  <2>5. \A j \in 1..Len(inbox) : inbox[j].from # Main
    BY <1>0, <2>1, NoMessage
  <2>6. MsgInv'
    BY <1>0, <2>1, <2>4, <2>5, CalmKeeps
  <2>7. ~PendingExit'
    BY <2>1, <2>2 DEF PendingExit
  <2>8. ExitInv'
    BY <1>0, <2>3, <2>4, <2>7 DEF ExitInv
  <2> QED BY <1>0, <2>4, <2>6, <2>8 DEF SwitchInv, OthersInv
<1>6. CASE Relock(c)
  <2>1. /\ c = Main /\ cpc[Main] = "relock" /\ InitApp(Main, target[Main])
        /\ target[Main] \in Apps \cup {None} /\ cpc' = [cpc EXCEPT ![Main] = "done"]
        /\ UNCHANGED <<inbox, reply, victim, term, slot, sem, fault>>
    BY <1>0, <1>6, <1>9 DEF Relock, msgVars, TypeOK
  <2>2. ~PendingExit'
    BY <1>0, <2>1, InitAppNoExit
  <2> QED BY <1>0, <2>1, <2>2, PlainSwitchInv
<1>7. CASE NotifySend(c)
  <2>1. /\ cpc[c] = "notify"
        /\ UNCHANGED <<reply, apc, actived_app, victim, term, slot, sem, fault>>
    BY <1>7 DEF NotifySend, appVars
  <2>2. CASE CanSend(victim[c])
    <3>1. inbox' = Append(inbox, Msg("suspend", c)) /\ cpc' = [cpc EXCEPT ![c] = "notified"]
      BY <1>7, <2>2 DEF NotifySend
    <3>2. MsgInv'
      BY <1>0, <2>1, <3>1, SendKeeps
    <3>3. cpc'[c] = "notified" /\ \A d \in Clients : d # c => cpc'[d] = cpc[d]
      BY <1>0, <3>1 DEF TypeOK
    <3>4. Msg("suspend", c) \in Message /\ Msg("suspend", c).type = "suspend"
      BY DEF Msg, Message
    <3>5. PendingExit' => PendingExit
      <4>1. /\ Len(inbox) \in Nat /\ Len(inbox') = Len(inbox) + 1
            /\ inbox'[Len(inbox) + 1] = Msg("suspend", c)
            /\ \A j \in 1..Len(inbox) : inbox[j] \in Message /\ inbox'[j] = inbox[j]
        BY <1>0, <3>1, <3>4, AppendQueue
      <4>2. \A j \in 1..Len(inbox') : j \in 1..Len(inbox) \/ inbox'[j].type = "suspend"
        BY <3>4, <4>1
      <4> QED BY <2>1, <4>1, <4>2 DEF PendingExit
    <3>6. ExitInv'
      BY <1>0, <2>1, <3>3, <3>5 DEF ExitInv
    <3> QED BY <1>0, <3>2, <3>3, <3>6 DEF SwitchInv, OthersInv
  <2>3. CASE ~CanSend(victim[c])
    <3>1. inbox' = inbox /\ cpc' = [cpc EXCEPT ![c] = "done"]
      BY <1>7, <2>3 DEF NotifySend
    <3> QED BY <1>0, <2>1, <3>1, PlainSwitchInv
  <2> QED BY <2>2, <2>3
<1>8. CASE NotifyDone(c)
  <2>1. /\ cpc[c] = "notified" /\ sem[c] /\ cpc' = [cpc EXCEPT ![c] = "done"]
        /\ UNCHANGED <<inbox, reply, apc, actived_app, victim, term, slot, sem, fault>>
    BY <1>8 DEF NotifyDone, appVars, msgVars
  <2> QED BY <1>0, <2>1, PlainSwitchInv
<1>10. CASE Return(c)
  <2>1. /\ cpc[c] = "done" /\ cpc' = [cpc EXCEPT ![c] = "idle"]
        /\ victim' = [victim EXCEPT ![c] = None]
        /\ UNCHANGED <<inbox, reply, apc, actived_app, term, slot, sem, fault>>
    BY <1>10 DEF Return, appVars, msgVars
  <2>2. c # Main => victim'[Main] = victim[Main]
    BY <1>0, <2>1 DEF TypeOK
  <2> QED BY <1>0, <2>1, <2>2, PlainSwitchInv
<1> QED BY <1>1, <1>2, <1>3, <1>4, <1>5, <1>6, <1>7, <1>8, <1>10 DEF ClientStep

\* The rules are kept by every step.
LEMMA StepSwitchInv ==
    ASSUME OneSwitcher
    PROVE  IInv /\ SwitchInv /\ [Next]_vars => SwitchInv'
<1> SUFFICES ASSUME IInv, SwitchInv, [Next]_vars PROVE SwitchInv'
  OBVIOUS
<1>1. CASE UNCHANGED vars
  BY <1>1 DEF SwitchInv, OthersInv, MsgInv, ExitInv, PendingExit,
              vars, appVars, msgVars, callVars
<1>2. CASE Next
  BY <1>1, <1>2, CallSwitchInv, ClientSwitchInv, AppSwitchInv DEF Next, Halted
<1> QED BY <1>1, <1>2

\* They hold in every reachable state.
LEMMA AlwaysSwitchInv ==
    ASSUME OneSwitcher
    PROVE  Spec => [](IInv /\ SwitchInv)
<1>1. IInv /\ SwitchInv /\ [Next]_vars => SwitchInv'
  BY StepSwitchInv
<1> QED BY <1>1, InitSwitch, AlwaysIInv, PTL DEF Spec

-----------------------------------------------------------------------------
(* The shared stack, when applications work on after they left the list.   *)

\* The exit of a lingering application is one that main still waits for.
LingerInv == \A a \in Apps : apc[a] = "linger" => cpc[Main] \in {"wait", "join"}

\* Main goes on only when k_thread_join has seen the thread end.
LEMMA StepLinger ==
    ASSUME OneSwitcher, JoinTimeout = FALSE
    PROVE  IInv /\ SwitchInv /\ LingerInv /\ [Next]_vars => LingerInv'
<1> SUFFICES ASSUME IInv, SwitchInv, LingerInv, [Next]_vars PROVE LingerInv'
  OBVIOUS
<1> USE DEF At, Go, Runs
<1>0. TypeOK /\ Main \in Clients /\ ExitInv /\ OthersInv
  BY DEF IInv, SwitchInv
<1>1. CASE UNCHANGED <<apc, cpc>>
  BY <1>1 DEF LingerInv
<1>2. ASSUME NEW a \in Apps, AppStep(a)
      PROVE  LingerInv'
  <2>1. CASE app_manager_thread_exit(a)
    <3>1. apc[a] = "exit" /\ cpc' = cpc
      BY <2>1 DEF app_manager_thread_exit
    <3>2. PendingExit
      BY <3>1 DEF PendingExit
    <3> QED BY <1>0, <3>1, <3>2 DEF ExitInv, LingerInv
  <2>2. CASE AppReady(a) \/ AppInitFails(a) \/ AppHandle(a) \/ AppExitMsg(a) \/ AppEnds(a)
    <3>1. cpc' = cpc /\ \A b \in Apps : apc'[b] = "linger" => apc[b] = "linger"
      BY <1>0, <2>2 DEF AppReady, AppInitFails, AppHandle, AppExitMsg, AppEnds, appVars,
                        callVars, TypeOK
    <3> QED BY <3>1 DEF LingerInv
  <2> QED BY <1>2, <2>1, <2>2 DEF AppStep
<1>3. ASSUME apc' = apc, cpc[Main] \notin {"wait", "join"}
      PROVE  LingerInv'
  BY <1>3 DEF LingerInv
<1>4. ASSUME NEW c \in Clients, c # Main, NEW p, cpc' = [cpc EXCEPT ![c] = p], apc' = apc
      PROVE  LingerInv'
  BY <1>0, <1>4 DEF LingerInv, TypeOK
<1>5. ASSUME NEW c \in Clients, NEW t \in Apps \cup {None}, InitApp(c, t),
             cpc[Main] \notin {"wait", "join"}
      PROVE  LingerInv'
  BY <1>0, <1>5 DEF LingerInv, InitApp, StartApp, StartNone, TypeOK
<1>6. CASE Call
  <2>1. ASSUME NEW t \in Apps \cup {None}, ActiveApp(Main, t)
        PROVE  LingerInv'
    BY <1>0, <1>3, <1>5, <2>1 DEF ActiveApp
  <2>2. ASSUME NEW c \in Switchers, NEW t \in Apps \cup {None}, Switch(c, t)
        PROVE  LingerInv'
    <3>1. c = Main
      BY DEF OneSwitcher
    <3> QED BY <2>1, <2>2, <3>1 DEF Switch
  <2>3. ASSUME NEW c \in Notifiers, NEW a \in Apps, NotifyApp(c, a)
        PROVE  LingerInv'
    <3>1. c \in Clients /\ apc' = apc /\ cpc' = [cpc EXCEPT ![c] = "notify"] /\ cpc[c] = "idle"
      BY <2>3 DEF NotifyApp, appVars
    <3> QED BY <1>3, <1>4, <3>1
  <2>4. ASSUME NEW a \in Apps, MainExit(a)
        PROVE  LingerInv'
    BY <1>3, <2>4 DEF MainExit, ExitApp
  <2>5. CASE MainStart
    <3>1. default_app \in Apps \cup {None}
      BY <1>0 DEF TypeOK
    <3> QED BY <2>1, <2>5, <3>1 DEF MainStart
  <2>6. CASE Post
    BY <1>1, <2>6 DEF Post, appVars, callVars
  <2> QED BY <1>6, <2>2, <2>3, <2>4, <2>5, <2>6 DEF Call
<1>7. ASSUME NEW c \in Clients, ClientStep(c)
      PROVE  LingerInv'
  <2>9. cpc[c] \in {"unlocked", "prepare", "send", "wait", "join", "relock"} => c = Main
    BY <1>0 DEF OthersInv
  <2>1. CASE ActiveAppExit(c)
    BY <1>1, <1>3, <2>1, <2>9 DEF ActiveAppExit, ExitApp, appVars, callVars
  <2>2. CASE Prepare(c) \/ SendExit(c)
    BY <1>3, <2>2, <2>9 DEF Prepare, SendExit, appVars
  <2>3. CASE Waited(c)
    <3>1. c = Main /\ apc' = apc /\ (cpc' = cpc \/ cpc' = [cpc EXCEPT ![Main] = "join"])
      BY <2>3, <2>9 DEF Waited, appVars
    <3> QED BY <1>0, <3>1 DEF LingerInv, TypeOK
  <2>4. CASE Join(c)
    <3>1. c = Main /\ term[slot[Main]] /\ apc' = apc
      BY <1>0, <2>4, <2>9 DEF Join, appVars, ExitInv
    <3>2. \A a \in Apps : apc[a] = "dead"
      BY <2>4, <3>1 DEF Join
    <3> QED BY <3>1, <3>2 DEF LingerInv
  <2>5. CASE Relock(c)
    BY <1>0, <1>5, <2>5, <2>9 DEF Relock, TypeOK
  <2>6. CASE NotifySend(c)
    BY <1>3, <1>4, <2>6 DEF NotifySend, appVars
  <2>7. CASE NotifyDone(c) \/ Return(c)
    BY <1>3, <1>4, <2>7 DEF NotifyDone, Return, appVars
  <2> QED BY <1>7, <2>1, <2>2, <2>3, <2>4, <2>5, <2>6, <2>7 DEF ClientStep
<1> QED BY <1>1, <1>2, <1>6, <1>7 DEF Next, Halted, vars, appVars, callVars

\* A thread is created only by main, outside an exit.
LEMMA OnlyMainStarts ==
    ASSUME OneSwitcher, IInv, SwitchInv, [Next]_vars
    PROVE  \/ \A a \in Apps : apc[a] = "dead" => apc'[a] = "dead"
           \/ \E t \in Apps \cup {None} :
                 InitApp(Main, t) /\ cpc[Main] \in {"idle", "relock"}
<1> DEFINE Same == \A a \in Apps : apc[a] = "dead" => apc'[a] = "dead"
           Starts == \E t \in Apps \cup {None} :
                        InitApp(Main, t) /\ cpc[Main] \in {"idle", "relock"}
<1> USE DEF At, Runs
<1>0. TypeOK /\ OthersInv /\ Main \in Clients
  BY DEF IInv, SwitchInv
<1>1. ASSUME apc' = apc PROVE Same
  BY <1>1
<1>2. ASSUME NEW a \in Apps, AppStep(a) PROVE Same
  BY <1>0, <1>2 DEF AppStep, AppReady, AppInitFails, AppHandle, AppExitMsg,
                    app_manager_thread_exit, AppEnds, appVars, TypeOK
<1>3. ASSUME NEW t \in Apps \cup {None}, ActiveApp(Main, t) PROVE Same \/ Starts
  BY <1>1, <1>3 DEF ActiveApp
<1>4. ASSUME Call PROVE Same \/ Starts
  <2>1. ASSUME NEW c \in Switchers, NEW t \in Apps \cup {None}, Switch(c, t)
        PROVE  Same \/ Starts
    <3>1. c = Main
      BY DEF OneSwitcher
    <3> QED BY <1>3, <2>1, <3>1 DEF Switch
  <2>2. CASE MainStart
    <3>1. default_app \in Apps \cup {None}
      BY <1>0 DEF TypeOK
    <3> QED BY <1>3, <2>2, <3>1 DEF MainStart
  <2>3. ASSUME NEW c \in Notifiers, NEW a \in Apps, NotifyApp(c, a)
        PROVE  Same
    BY <1>1, <2>3 DEF NotifyApp, appVars
  <2>4. ASSUME NEW a \in Apps, MainExit(a) PROVE Same
    BY <1>1, <2>4 DEF MainExit, ExitApp
  <2>5. CASE Post
    BY <1>1, <2>5 DEF Post, appVars
  <2> QED BY <1>4, <2>1, <2>2, <2>3, <2>4, <2>5 DEF Call
<1>5. ASSUME NEW c \in Clients, ClientStep(c) PROVE Same \/ Starts
  <2>1. CASE Relock(c)
    <3>1. c = Main /\ target[Main] \in Apps \cup {None}
      BY <1>0, <2>1 DEF Relock, OthersInv, TypeOK
    <3> QED BY <2>1, <3>1 DEF Relock
  <2>2. CASE ~Relock(c)
    <3>1. apc' = apc
      BY <1>5, <2>2 DEF ClientStep, ActiveAppExit, ExitApp, Prepare, SendExit, Waited, Join,
                        NotifySend, NotifyDone, Return, appVars
    <3> QED BY <1>1, <3>1
  <2> QED BY <2>1, <2>2
<1> QED BY <1>1, <1>2, <1>4, <1>5 DEF Next, Halted, vars, appVars

\* share_stack_area carries one thread although applications may work on after
\* they have left the list (ota), as long as one thread switches and no join
\* times out: main does not start anything before the old thread has ended.
THEOREM StackNeverSharedByOne ==
    ASSUME OneSwitcher, JoinTimeout = FALSE
    PROVE  Spec => []StackExclusive
<1> DEFINE Inv == LingerInv /\ StackExclusive
<1>1. Init => Inv
  BY DEF Init, LingerInv, StackExclusive
<1>2. IInv /\ SwitchInv /\ Inv /\ [Next]_vars => Inv'
  <2> SUFFICES ASSUME IInv, SwitchInv, LingerInv, StackExclusive, [Next]_vars PROVE Inv'
    OBVIOUS
  <2>1. LingerInv'
    BY StepLinger
  <2>2. ASSUME \A a \in Apps : apc[a] = "dead" => apc'[a] = "dead"
        PROVE  StackExclusive'
    BY <2>2 DEF StackExclusive
  <2>3. ASSUME NEW t \in Apps \cup {None}, InitApp(Main, t), cpc[Main] \in {"idle", "relock"}
        PROVE  StackExclusive'
    <3>1. CASE StartApp(Main, t)
      <4>1. list = {} /\ t \in Apps /\ apc' = [apc EXCEPT ![t] = "init"]
        BY <3>1 DEF StartApp, StackSafe
      <4>2. \A a \in Apps : apc[a] = "dead"
        BY <2>3, <4>1 DEF IInv, TypeOK, ListMatches, LingerInv
      <4>3. \A a \in Apps : a # t => apc'[a] = "dead"
        BY <4>1, <4>2 DEF IInv, TypeOK
      <4> QED BY <4>3 DEF StackExclusive
    <3>2. CASE StartNone(Main, t)
      BY <3>2 DEF StartNone, StackExclusive
    <3> QED BY <2>3, <3>1, <3>2 DEF InitApp
  <2> QED BY <2>1, <2>2, <2>3, OnlyMainStarts
<1>3. Inv => StackExclusive
  OBVIOUS
<1> QED BY <1>1, <1>2, <1>3, AlwaysSwitchInv, PTL DEF Spec

-----------------------------------------------------------------------------
(* The message pool.  If it has an entry for every client and for every    *)
(* message posted without callback, an exit message is always sent.        *)

PoolSuffices == IsFiniteSet(Clients) /\ PostBound + Cardinality(Clients) <= NMsg

\* At most one MSG_START_APP is pending, none before an exit has been served.
RoomInv ==
    /\ Cardinality(Posted) <= PostBound
    /\ start_req <= 1
    /\ \/ cpc[Main] \in {"unlocked", "prepare", "send"}
       \/ cpc[Main] = "wait" /\ list # {}
       => start_req = 0

\* The messages without callback are finitely many.
LEMMA PostedFinite ==
    ASSUME TypeOK
    PROVE  IsFiniteSet(Posted) /\ Cardinality(Posted) \in Nat
<1>1. IsFiniteSet(1..Len(inbox))
  BY QueueType, FS_Interval
<1>2. Posted \in SUBSET (1..Len(inbox))
  BY DEF Posted
<1>3. IsFiniteSet(Posted)
  BY <1>1, <1>2, FS_Subset
<1> QED BY <1>3, FS_CardinalityType

\* After a step too.
LEMMA PostedNext ==
    ASSUME TypeOK'
    PROVE  Cardinality(Posted') \in Nat
<1>1. inbox' \in Seq(Message)
  BY DEF TypeOK, Message
<1>2. Len(inbox') \in Nat
  BY <1>1
<1>3. IsFiniteSet(1..Len(inbox'))
  BY <1>2, FS_Interval
<1>4. Posted' \in SUBSET (1..Len(inbox'))
  BY DEF Posted
<1>5. IsFiniteSet(Posted')
  BY <1>3, <1>4, FS_Subset
<1> QED BY <1>5, FS_CardinalityType

\* A receive adds none.
LEMMA PostedTail ==
    ASSUME TypeOK, inbox # <<>>, inbox' = Tail(inbox)
    PROVE  Cardinality(Posted') <= Cardinality(Posted)
<1> DEFINE f == [j \in Posted' |-> j + 1]
<1>1. /\ \A j \in 1..Len(inbox') : j + 1 \in 1..Len(inbox) /\ inbox'[j] = inbox[j + 1]
      /\ Len(inbox') \in Nat
  BY TailQueue
<1>2. \A j \in Posted' : j \in 1..Len(inbox') /\ inbox'[j].from = None
  BY DEF Posted
<1>3. \A j \in Posted' : j + 1 \in Posted
  BY <1>1, <1>2 DEF Posted
<1>4. \A i, j \in Posted' : i + 1 = j + 1 => i = j
  BY <1>1, <1>2
<1>5. f \in [Posted' -> Posted] /\ \A i, j \in Posted' : f[i] = f[j] => i = j
  BY <1>3, <1>4
<1>6. f \in Injection(Posted', Posted)
  BY <1>5 DEF Injection, IsInjective
<1>7. IsFiniteSet(Posted)
  BY PostedFinite
<1> HIDE DEF f
<1> QED BY <1>6, <1>7, FS_Injection

\* A send adds the message if it has no callback.
LEMMA PostedAppend ==
    ASSUME TypeOK, NEW m \in Message, inbox' = Append(inbox, m)
    PROVE  /\ m.from # None => Posted' = Posted
           /\ Cardinality(Posted') <= Cardinality(Posted) + 1
<1> DEFINE n == Len(inbox)
<1>1. /\ n \in Nat /\ Len(inbox') = n + 1 /\ inbox'[n + 1] = m
      /\ \A j \in 1..n : inbox'[j] = inbox[j]
  BY AppendQueue
<1>2. 1..Len(inbox') = 1..n \cup {n + 1} /\ n + 1 \notin 1..n
  BY <1>1
<1> HIDE DEF n
<1>3. Posted' = {j \in 1..n : inbox[j].from = None} \cup {j \in {n + 1} : m.from = None}
  BY <1>1, <1>2 DEF Posted
<1>4. Posted' = Posted \/ Posted' = Posted \cup {n + 1}
  BY <1>3 DEF Posted, n
<1>5. m.from # None => Posted' = Posted
  BY <1>3 DEF Posted, n
<1>6. Cardinality(Posted') <= Cardinality(Posted) + 1
  <2>1. IsFiniteSet(Posted) /\ Cardinality(Posted) \in Nat
    BY PostedFinite
  <2>2. Cardinality(Posted \cup {n + 1}) =
           IF n + 1 \in Posted THEN Cardinality(Posted) ELSE Cardinality(Posted) + 1
    BY <2>1, FS_AddElement, Zenon
  <2>3. \/ Cardinality(Posted') = Cardinality(Posted)
        \/ Cardinality(Posted') = Cardinality(Posted \cup {n + 1})
    BY <1>4, Zenon
  <2> QED BY <2>1, <2>2, <2>3
<1> QED BY <1>5, <1>6

\* The positions of the messages with callback are no more than the clients
\* that wait for an answer.
LEMMA AnsweredBound ==
    ASSUME PoolSuffices, TypeOK, MsgInv, cpc[Main] = "send"
    PROVE  Len(inbox) <= Cardinality(Posted) + Cardinality(Clients) - 1
<1> DEFINE Answered == {j \in 1..Len(inbox) : inbox[j].from # None}
           Others == Clients \ {Main}
           f == [j \in Answered |-> inbox[j].from]
<1>1. \A j \in Answered : j \in 1..Len(inbox) /\ inbox[j].from \in Others
  <2>1. \A j \in 1..Len(inbox) : inbox[j].from \in Clients \cup {None} /\ inbox[j].from # Main
    BY QueueType, NoMessage DEF Message
  <2> QED BY <2>1
<1>2. \A i, j \in Answered : inbox[i].from = inbox[j].from => i = j
  BY DEF MsgInv
<1>3. f \in [Answered -> Others] /\ \A i, j \in Answered : f[i] = f[j] => i = j
  BY <1>1, <1>2
<1>4. f \in Injection(Answered, Others)
  BY <1>3 DEF Injection, IsInjective
<1>5. IsFiniteSet(Others) /\ Cardinality(Others) = Cardinality(Clients) - 1
  BY FS_RemoveElement DEF PoolSuffices
<1>6. IsFiniteSet(Answered) /\ Cardinality(Answered) <= Cardinality(Others)
  <2> HIDE DEF f, Answered, Others
  <2> QED BY <1>4, <1>5, FS_Injection
<1>7. 1..Len(inbox) = Posted \cup Answered /\ Posted \cap Answered = {}
  BY DEF Posted
<1>8. Cardinality(1..Len(inbox)) = Len(inbox) /\ Len(inbox) \in Nat
  <2>1. Len(inbox) \in Nat /\ Len(inbox) \in Int /\ 1 \in Int
    BY QueueType
  <2>2. Cardinality(1..Len(inbox)) = IF 1 > Len(inbox) THEN 0 ELSE Len(inbox) - 1 + 1
    BY <2>1, FS_Interval, Zenon
  <2> QED BY <2>1, <2>2
<1>9. Cardinality(Posted \cup Answered) = Cardinality(Posted) + Cardinality(Answered)
  <2> HIDE DEF Answered
  <2>1. Cardinality(Posted \cap Answered) = 0
    BY <1>7, FS_EmptySet
  <2>2. Cardinality(Posted) \in Nat /\ Cardinality(Answered) \in Nat
    BY <1>6, PostedFinite, FS_CardinalityType, Zenon
  <2>3. Cardinality(Posted \cup Answered) =
           Cardinality(Posted) + Cardinality(Answered) - Cardinality(Posted \cap Answered)
    BY <1>6, PostedFinite, FS_Union, Zenon
  <2> QED BY <2>1, <2>2, <2>3
<1>10. /\ Cardinality(Posted) \in Nat /\ Cardinality(Answered) \in Nat
       /\ Cardinality(Clients) \in Nat /\ Cardinality(Others) \in Nat
  BY <1>5, <1>6, PostedFinite, FS_CardinalityType, Zenon DEF PoolSuffices
<1> HIDE DEF Answered, Others
<1>11. Cardinality(1..Len(inbox)) = Cardinality(Posted \cup Answered)
  BY <1>7, Zenon
<1> QED BY <1>5, <1>6, <1>8, <1>9, <1>10, <1>11

\* So the pool has an entry left when main sends an exit.
LEMMA ExitIsSent ==
    ASSUME PoolSuffices, IInv, SwitchInv, RoomInv, cpc[Main] = "send"
    PROVE  CanSend(victim[Main])
<1>1. TypeOK /\ MsgInv /\ ExitInv /\ CurrentIsRunning
  BY DEF IInv, SwitchInv
<1>2. victim[Main] \in list
  BY <1>1 DEF ExitInv, CurrentIsRunning
<1>3. Len(inbox) <= Cardinality(Posted) + Cardinality(Clients) - 1
  BY <1>1, AnsweredBound
<1>4. Cardinality(Posted) <= PostBound /\ start_req = 0
  BY DEF RoomInv
<1>5. Len(inbox) \in Nat /\ Cardinality(Posted) \in Nat /\ Cardinality(Clients) \in Nat
  BY <1>1, QueueType, PostedFinite, FS_CardinalityType DEF PoolSuffices
<1>6. PoolFree
  BY <1>3, <1>4, <1>5 DEF PoolFree, PoolSuffices
<1> QED BY <1>2, <1>6 DEF CanSend

\* A step that adds no message without callback and no MSG_START_APP.
LEMMA RoomKeeps ==
    ASSUME TypeOK, RoomInv, Cardinality(Posted') \in Nat,
           Cardinality(Posted') <= Cardinality(Posted) \/ Cardinality(Posted') <= PostBound,
           start_req' \in {0, start_req},
           \/ start_req' = 0
           \/ cpc'[Main] \notin {"unlocked", "prepare", "send", "wait"}
           \/ cpc[Main] \in {"unlocked", "prepare", "send"}
           \/ cpc[Main] = "wait" /\ cpc'[Main] = "wait" /\ list' = list
           \/ cpc[Main] = "wait" /\ cpc'[Main] = "wait" /\ list' = {}
    PROVE  RoomInv'
<1>1. Cardinality(Posted) \in Nat /\ start_req \in Nat
  BY PostedFinite DEF TypeOK
<1>2. Cardinality(Posted') <= PostBound
  BY <1>1 DEF RoomInv
<1>3. start_req' <= 1
  BY <1>1 DEF RoomInv
<1> QED BY <1>2, <1>3 DEF RoomInv

\* A step that leaves the messages to applications alone.
LEMMA SamePosted ==
    ASSUME TypeOK, inbox' = inbox
    PROVE  Cardinality(Posted') = Cardinality(Posted)
<1>1. Posted' = Posted
  BY DEF Posted
<1> QED BY <1>1, Zenon

\* The bounds on the messages are kept by every step.
LEMMA StepRoom ==
    ASSUME OneSwitcher
    PROVE  IInv /\ SwitchInv /\ RoomInv /\ [Next]_vars => RoomInv'
<1> SUFFICES ASSUME IInv, SwitchInv, RoomInv, [Next]_vars PROVE RoomInv'
  OBVIOUS
<1> USE DEF At, Go, Runs
<1>0. TypeOK /\ Main \in Clients /\ ExitInv /\ OthersInv /\ TypeOK'
  BY StepIInv DEF IInv, SwitchInv
<1>1. Cardinality(Posted) \in Nat /\ Cardinality(Posted') \in Nat
  BY <1>0, PostedFinite, PostedNext
<1>2. inbox' = inbox => Cardinality(Posted') <= Cardinality(Posted)
  BY <1>0, <1>1, SamePosted
<1>3. ASSUME UNCHANGED <<inbox, start_req, list>>, cpc'[Main] = cpc[Main]
      PROVE  RoomInv'
  BY <1>0, <1>1, <1>2, <1>3, RoomKeeps
<1>4. ASSUME NEW a \in Apps, AppStep(a)
      PROVE  RoomInv'
  <2>1. CASE app_manager_thread_exit(a)
    <3>1. /\ apc[a] = "exit" /\ cpc' = cpc /\ inbox' = <<>> /\ list' = list \ {a}
          /\ start_req' \in {start_req, start_req + 1}
      BY <2>1 DEF app_manager_thread_exit
    <3>2. PendingExit /\ list = {a}
      BY <3>1, ExitingIsActive DEF PendingExit
    <3>3. cpc[Main] = "wait" /\ start_req = 0 /\ list' = {}
      BY <1>0, <3>1, <3>2 DEF ExitInv, RoomInv
    <3>4. Len(inbox') = 0
      BY <3>1
    <3>5. Posted' = {}
      BY <3>4 DEF Posted
    <3>6. Cardinality(Posted') <= PostBound
      BY <3>5, FS_EmptySet
    <3> QED BY <3>1, <3>3, <3>6 DEF RoomInv
  <2>2. CASE AppReady(a) \/ AppInitFails(a) \/ AppEnds(a)
    BY <1>3, <2>2 DEF AppReady, AppInitFails, AppEnds, listVars, msgVars, callVars
  <2>3. CASE AppHandle(a) \/ AppExitMsg(a)
    <3>1. inbox # <<>> /\ inbox' = Tail(inbox) /\ UNCHANGED <<cpc, list, start_req>>
      BY <2>3 DEF AppHandle, AppExitMsg, appVars, listVars, callVars
    <3>2. Cardinality(Posted') <= Cardinality(Posted)
      BY <1>0, <3>1, PostedTail
    <3> QED BY <1>0, <1>1, <3>1, <3>2, RoomKeeps
  <2> QED BY <1>4, <2>1, <2>2, <2>3 DEF AppStep
<1>5. ASSUME NEW t \in Apps \cup {None}, ActiveApp(Main, t), start_req' = 0
      PROVE  RoomInv'
  <2>1. inbox' = inbox
    BY <1>5 DEF ActiveApp
  <2> QED BY <1>0, <1>1, <1>2, <1>5, <2>1, RoomKeeps
<1>6. CASE Call
  <2>1. ASSUME NEW c \in Switchers, NEW t \in Apps \cup {None}, Switch(c, t)
        PROVE  RoomInv'
    <3>1. c = Main
      BY DEF OneSwitcher
    <3> QED BY <1>5, <2>1, <3>1 DEF Switch
  <2>2. ASSUME NEW c \in Notifiers, NEW a \in Apps, NotifyApp(c, a)
        PROVE  RoomInv'
    <3>1. /\ c \in Clients /\ cpc' = [cpc EXCEPT ![c] = "notify"]
          /\ cpc[c] = "idle" /\ UNCHANGED <<inbox, start_req, list>>
      BY <2>2 DEF NotifyApp, appVars, msgVars
    <3>2. cpc'[Main] = cpc[Main] \/ cpc'[Main] = "notify"
      BY <1>0, <3>1 DEF TypeOK
    <3> QED BY <1>0, <1>1, <1>2, <1>3, <3>1, <3>2, RoomKeeps
  <2>3. ASSUME NEW a \in Apps, MainExit(a)
        PROVE  RoomInv'
    <3>1. inbox' = inbox /\ start_req' = 0
      BY <2>3 DEF MainExit, ExitApp, msgVars
    <3> QED BY <1>0, <1>1, <1>2, <3>1, RoomKeeps
  <2>4. CASE MainStart
    <3>1. default_app \in Apps \cup {None}
      BY <1>0 DEF TypeOK
    <3>2. start_req' = 0
      BY <1>0, <2>4 DEF MainStart, RoomInv, TypeOK
    <3> QED BY <1>5, <2>4, <3>1, <3>2 DEF MainStart
  <2>5. CASE Post
    <3>1. /\ inbox' = Append(inbox, Msg("event", None)) /\ Cardinality(Posted) < PostBound
          /\ Msg("event", None) \in Message /\ UNCHANGED <<cpc, list, start_req>>
      BY <2>5 DEF Post, appVars, callVars, Msg, Message
    <3>2. Cardinality(Posted') <= Cardinality(Posted) + 1
      BY <1>0, <3>1, PostedAppend
    <3>3. Cardinality(Posted') <= PostBound
      BY <1>1, <3>1, <3>2
    <3> QED BY <3>1, <3>3 DEF RoomInv
  <2> QED BY <1>6, <2>1, <2>2, <2>3, <2>4, <2>5 DEF Call
<1>7. ASSUME NEW c \in Clients, ClientStep(c)
      PROVE  RoomInv'
  <2>9. cpc[c] \in {"unlocked", "prepare", "send", "wait", "join", "relock"} => c = Main
    BY <1>0 DEF OthersInv
  <2>1. CASE ActiveAppExit(c) \/ Prepare(c)
    <3>1. /\ c = Main /\ cpc[Main] \in {"unlocked", "prepare"}
          /\ UNCHANGED <<inbox, start_req>>
      BY <2>1, <2>9 DEF ActiveAppExit, ExitApp, Prepare, msgVars
    <3> QED BY <1>0, <1>1, <1>2, <3>1, RoomKeeps
  <2>2. ASSUME NEW type \in {"suspend", "exit"}, inbox' = Append(inbox, Msg(type, c))
        PROVE  Cardinality(Posted') <= Cardinality(Posted)
    <3>1. Msg(type, c) \in Message /\ Msg(type, c).from # None
      BY DEF Msg, Message
    <3>2. Posted' = Posted
      BY <1>0, <2>2, <3>1, PostedAppend
    <3>3. Cardinality(Posted') = Cardinality(Posted)
      BY <3>2, Zenon
    <3> QED BY <1>1, <3>3
  <2>3. CASE SendExit(c)
    <3>1. c = Main /\ cpc[Main] = "send" /\ start_req' = start_req
      BY <2>3, <2>9 DEF SendExit
    <3>2. Cardinality(Posted') <= Cardinality(Posted)
      BY <1>2, <2>2, <2>3 DEF SendExit
    <3> QED BY <1>0, <1>1, <3>1, <3>2, RoomKeeps
  <2>4. CASE Waited(c)
    <3>1. /\ c = Main /\ UNCHANGED <<inbox, start_req, list>>
          /\ (cpc' = cpc \/ cpc' = [cpc EXCEPT ![Main] = "join"])
      BY <2>4, <2>9 DEF Waited, appVars, msgVars
    <3>2. cpc'[Main] \in {cpc[Main], "join"}
      BY <1>0, <3>1 DEF TypeOK
    <3> QED BY <1>0, <1>1, <1>2, <1>3, <3>1, <3>2, RoomKeeps
  <2>5. CASE Join(c)
    <3>1. /\ c = Main /\ UNCHANGED <<inbox, start_req, list>>
          /\ (cpc' = cpc \/ cpc' = [cpc EXCEPT ![Main] = ret[Main]])
      BY <2>5, <2>9 DEF Join, appVars, msgVars
    <3>2. cpc'[Main] \in {cpc[Main], "idle", "relock", "done"}
      BY <1>0, <3>1 DEF TypeOK
    <3> QED BY <1>0, <1>1, <1>2, <1>3, <3>1, <3>2, RoomKeeps
  <2>6. CASE Relock(c)
    <3>1. /\ c = Main /\ UNCHANGED <<inbox, start_req>>
          /\ cpc' = [cpc EXCEPT ![Main] = "done"]
      BY <2>6, <2>9 DEF Relock, msgVars
    <3>2. cpc'[Main] = "done"
      BY <1>0, <3>1 DEF TypeOK
    <3> QED BY <1>0, <1>1, <1>2, <3>1, <3>2, RoomKeeps
  <2>7. CASE NotifySend(c)
    <3>1. /\ UNCHANGED <<start_req, list>> /\ cpc[c] = "notify"
          /\ (cpc' = [cpc EXCEPT ![c] = "done"] \/ cpc' = [cpc EXCEPT ![c] = "notified"])
      BY <2>7 DEF NotifySend, appVars
    <3>2. Cardinality(Posted') <= Cardinality(Posted)
      BY <1>2, <2>2, <2>7 DEF NotifySend
    <3>3. cpc'[Main] = cpc[Main] \/ cpc'[Main] \in {"done", "notified"}
      BY <1>0, <3>1 DEF TypeOK
    <3> QED BY <1>0, <1>1, <3>1, <3>2, <3>3, RoomKeeps
  <2>8. CASE NotifyDone(c) \/ Return(c)
    <3>1. /\ UNCHANGED <<inbox, start_req, list>>
          /\ (cpc' = [cpc EXCEPT ![c] = "done"] \/ cpc' = [cpc EXCEPT ![c] = "idle"])
      BY <2>8 DEF NotifyDone, Return, appVars, msgVars
    <3>2. cpc'[Main] = cpc[Main] \/ cpc'[Main] \in {"done", "idle"}
      BY <1>0, <3>1 DEF TypeOK
    <3> QED BY <1>0, <1>1, <1>2, <3>1, <3>2, RoomKeeps
  <2> QED BY <1>7, <2>1, <2>3, <2>4, <2>5, <2>6, <2>7, <2>8 DEF ClientStep
<1> QED BY <1>3, <1>4, <1>6, <1>7 DEF Next, Halted, vars, appVars, msgVars, callVars
\* The bounds hold initially.
LEMMA InitRoom == Init => RoomInv
<1> SUFFICES ASSUME Init PROVE RoomInv
  OBVIOUS
<1>1. Len(inbox) = 0 /\ start_req = 0
  BY DEF Init
<1>2. Posted = {}
  BY <1>1 DEF Posted
<1>3. Cardinality(Posted) = 0
  BY <1>2, FS_EmptySet, Zenon
<1> QED BY <1>1, <1>3 DEF RoomInv

-----------------------------------------------------------------------------
(* Every exit that main begins ends with the application gone.             *)

\* After the wait no application is left; true is only returned by active_app.
GoneInv ==
    /\ cpc[Main] \in {"join", "relock"} => list = {}
    /\ cpc[Main] = "wait" => PendingExit \/ list = {}
    /\ \A c \in Clients : result[c] => c = Main /\ cpc[c] = "done"

\* Steps that leave the exit and the results alone.
LEMMA GoneKeeps ==
    ASSUME GoneInv, UNCHANGED <<list, result>>,
           cpc'[Main] = "wait" => cpc[Main] = "wait" /\ (PendingExit => PendingExit'),
           cpc'[Main] \in {"join", "relock"} => cpc'[Main] = cpc[Main],
           \A c \in Clients : cpc[c] = "done" => cpc'[c] = "done"
    PROVE  GoneInv'
BY DEF GoneInv

\* An exit that is pending stays so until the application leaves the list.
LEMMA StaysPending ==
    ASSUME TypeOK, PendingExit,
           \/ UNCHANGED <<inbox, apc>>
           \/ \E a \in Apps : AppReady(a) \/ AppHandle(a) \/ AppExitMsg(a) \/ AppEnds(a)
           \/ apc' = apc /\ \E m \in Message : inbox' = Append(inbox, m)
    PROVE  PendingExit'
<1>1. CASE UNCHANGED <<inbox, apc>>
  BY <1>1 DEF PendingExit
<1>2. ASSUME NEW a \in Apps, AppReady(a) \/ AppEnds(a)
      PROVE  PendingExit'
  <2>1. inbox' = inbox /\ \A b \in Apps : apc[b] = "exit" => apc'[b] = "exit"
    BY <1>2 DEF AppReady, AppEnds, Runs, msgVars, TypeOK
  <2> QED BY <2>1 DEF PendingExit
<1>3. ASSUME NEW a \in Apps, AppHandle(a)
      PROVE  PendingExit'
  <2>1. inbox # <<>> /\ inbox' = Tail(inbox) /\ Head(inbox).type # "exit" /\ apc' = apc
    BY <1>3 DEF AppHandle, appVars
  <2>2. /\ Len(inbox) \in Nat \ {0} /\ Len(inbox') = Len(inbox) - 1
        /\ Head(inbox) = inbox[1]
        /\ \A j \in 1..Len(inbox') : j + 1 \in 1..Len(inbox) /\ inbox'[j] = inbox[j + 1]
    BY <2>1, TailQueue
  <2>3. ASSUME NEW j \in 1..Len(inbox), inbox[j].type = "exit"
        PROVE  PendingExit'
    <3>1. j # 1
      BY <2>1, <2>2, <2>3
    <3>2. j - 1 \in 1..Len(inbox') /\ inbox'[j - 1] = inbox[j]
      BY <2>2, <3>1
    <3> QED BY <2>3, <3>2 DEF PendingExit
  <2> QED BY <2>1, <2>3 DEF PendingExit
<1>4. ASSUME NEW a \in Apps, AppExitMsg(a)
      PROVE  PendingExit'
  <2>1. apc'[a] = "exit"
    BY <1>4 DEF AppExitMsg, TypeOK
  <2> QED BY <2>1 DEF PendingExit
<1>5. ASSUME NEW m \in Message, inbox' = Append(inbox, m), apc' = apc
      PROVE  PendingExit'
  <2>1. /\ Len(inbox) \in Nat /\ Len(inbox') = Len(inbox) + 1
        /\ \A j \in 1..Len(inbox) : inbox'[j] = inbox[j]
    BY <1>5, AppendQueue
  <2>2. \A j \in 1..Len(inbox) : j \in 1..Len(inbox')
    BY <2>1
  <2> QED BY <1>5, <2>1, <2>2 DEF PendingExit
<1> QED BY <1>1, <1>2, <1>3, <1>4, <1>5

\* Main moves from one place to another.
LEMMA MainAt ==
    ASSUME TypeOK, NEW p, cpc' = [cpc EXCEPT ![Main] = p]
    PROVE  cpc'[Main] = p /\ \A c \in Clients : c # Main => cpc'[c] = cpc[c]
BY DEF TypeOK

\* The application that main exits goes, and only main starts another.
LEMMA StepGone ==
    ASSUME OneSwitcher, PoolSuffices
    PROVE  IInv /\ SwitchInv /\ RoomInv /\ GoneInv /\ [Next]_vars => GoneInv'
<1> SUFFICES ASSUME IInv, SwitchInv, RoomInv, GoneInv, [Next]_vars PROVE GoneInv'
  OBVIOUS
<1> USE DEF At, Runs
<1>0. TypeOK /\ Main \in Clients /\ ExitInv /\ OthersInv /\ MsgInv /\ CurrentIsRunning
  BY DEF IInv, SwitchInv
<1>1. CASE UNCHANGED vars
  <2>1. UNCHANGED <<inbox, apc, list, result, cpc>>
    BY <1>1 DEF vars, appVars, msgVars, callVars
  <2> QED BY <1>0, <2>1, GoneKeeps, StaysPending
<1>2. ASSUME NEW a \in Apps, AppStep(a)
      PROVE  GoneInv'
  <2>1. CASE AppReady(a) \/ AppHandle(a) \/ AppExitMsg(a) \/ AppEnds(a)
    <3>1. UNCHANGED <<list, result, cpc>>
      BY <2>1 DEF AppReady, AppHandle, AppExitMsg, AppEnds, appVars, listVars, callVars
    <3>2. PendingExit => PendingExit'
      BY <1>0, <2>1, StaysPending
    <3> QED BY <3>1, <3>2, GoneKeeps
  <2>2. CASE AppInitFails(a)
    BY <2>2 DEF AppInitFails, OneSwitcher
  <2>3. CASE app_manager_thread_exit(a)
    <3>1. apc[a] = "exit" /\ list' = list \ {a} /\ UNCHANGED <<cpc, result>>
      BY <2>3 DEF app_manager_thread_exit
    <3>2. list' = {}
      BY <3>1, ExitingIsActive
    <3> QED BY <3>1, <3>2 DEF GoneInv
  <2> QED BY <1>2, <2>1, <2>2, <2>3 DEF AppStep
<1>3. ASSUME NEW p \in {"idle", "unlocked", "done"}, cpc' = [cpc EXCEPT ![Main] = p],
             \A c \in Clients : c # Main => result'[c] = result[c],
             p = "done" \/ ~result'[Main]
      PROVE  GoneInv'
  <2>1. cpc'[Main] = p /\ \A c \in Clients : c # Main => cpc'[c] = cpc[c]
    BY <1>0, <1>3, MainAt
  <2>2. \A c \in Clients : result'[c] => c = Main /\ cpc'[c] = "done"
    BY <1>3, <2>1 DEF GoneInv
  <2> QED BY <2>1, <2>2 DEF GoneInv
<1>4. ASSUME NEW t \in Apps \cup {None}, InitApp(Main, t)
      PROVE  \A c \in Clients : c # Main => result'[c] = result[c]
  BY <1>0, <1>4 DEF InitApp, StartApp, StartNone, TypeOK
<1>5. ASSUME NEW t \in Apps \cup {None}, ActiveApp(Main, t)
      PROVE  GoneInv'
  <2>1. \A c \in Clients : c # Main => result'[c] = result[c]
    BY <1>0, <1>4, <1>5 DEF ActiveApp, TypeOK
  <2>2. CASE Go(Main, "done")
    BY <1>3, <2>1, <2>2 DEF Go
  <2>3. CASE Go(Main, "unlocked") /\ result' = result
    <3>1. ~result'[Main]
      BY <1>0, <1>5, <2>3 DEF GoneInv, ActiveApp
    <3> QED BY <1>3, <2>1, <2>3, <3>1 DEF Go
  <2> QED BY <1>5, <2>2, <2>3 DEF ActiveApp
<1>6. ASSUME NEW a \in Apps, NEW d, NEW back \in {"relock", "done"}, ExitApp(Main, a, d, back),
             cpc[Main] \in {"idle", "unlocked"}, back = "relock" => a \in list
      PROVE  GoneInv'
  <2>1. /\ cpc' = [cpc EXCEPT ![Main] = IF a \in list THEN "prepare" ELSE back]
        /\ UNCHANGED <<list, result>>
    BY <1>6 DEF ExitApp, Go, listVars
  <2>2. /\ cpc'[Main] \in {"prepare", "done"}
        /\ \A c \in Clients : c # Main => cpc'[c] = cpc[c]
    BY <1>0, <1>6, <2>1, MainAt
  <2> QED BY <1>6, <2>1, <2>2, GoneKeeps
<1>7. ASSUME NEW c \in Clients, NEW p \in {"notify", "notified", "done"},
             cpc' = [cpc EXCEPT ![c] = p], cpc[c] \in {"idle", "notify", "notified"},
             UNCHANGED <<list, result>>, PendingExit => PendingExit'
      PROVE  GoneInv'
  <2>1. cpc'[c] = p /\ \A d \in Clients : d # c => cpc'[d] = cpc[d]
    BY <1>0, <1>7 DEF TypeOK
  <2> QED BY <1>0, <1>7, <2>1, GoneKeeps
<1>8. CASE Call
  <2>1. ASSUME NEW c \in Switchers, NEW t \in Apps \cup {None}, Switch(c, t)
        PROVE  GoneInv'
    <3>1. c = Main
      BY DEF OneSwitcher
    <3> QED BY <1>5, <2>1, <3>1 DEF Switch
  <2>2. ASSUME NEW c \in Notifiers, NEW a \in Apps, NotifyApp(c, a)
        PROVE  GoneInv'
    <3>1. /\ c \in Clients /\ cpc' = [cpc EXCEPT ![c] = "notify"] /\ cpc[c] = "idle"
          /\ UNCHANGED <<inbox, apc, list, result>>
      BY <2>2 DEF NotifyApp, Go, appVars, msgVars
    <3>2. PendingExit => PendingExit'
      BY <1>0, <3>1, StaysPending
    <3> QED BY <1>7, <3>1, <3>2
  <2>3. ASSUME NEW a \in Apps, MainExit(a)
        PROVE  GoneInv'
    BY <1>6, <2>3 DEF MainExit
  <2>4. CASE MainStart
    <3>1. default_app \in Apps \cup {None}
      BY <1>0 DEF TypeOK
    <3> QED BY <1>5, <2>4, <3>1 DEF MainStart
  <2>5. CASE Post
    <3>1. /\ inbox' = Append(inbox, Msg("event", None)) /\ Msg("event", None) \in Message
          /\ UNCHANGED <<apc, cpc, list, result>>
      BY <2>5 DEF Post, appVars, callVars, Msg, Message
    <3>2. PendingExit => PendingExit'
      BY <1>0, <3>1, StaysPending
    <3> QED BY <3>1, <3>2, GoneKeeps
  <2> QED BY <1>8, <2>1, <2>2, <2>3, <2>4, <2>5 DEF Call
<1>9. ASSUME NEW c \in Clients, ClientStep(c)
      PROVE  GoneInv'
  <2>0. cpc[c] \in {"unlocked", "prepare", "send", "wait", "join", "relock"} => c = Main
    BY <1>0 DEF OthersInv
  <2>1. CASE ActiveAppExit(c)
    <3>1. c = Main /\ cpc[Main] = "unlocked" /\ actived_app # None
      BY <1>0, <2>0, <2>1 DEF ActiveAppExit, ExitInv
    <3>2. /\ ExitApp(Main, actived_app, FALSE, "relock") /\ actived_app \in Apps
          /\ actived_app \in list
      BY <1>0, <2>1, <3>1 DEF ActiveAppExit, TypeOK, CurrentIsRunning
    <3> QED BY <1>6, <3>1, <3>2
  <2>2. CASE Prepare(c)
    <3>1. /\ c = Main /\ cpc[Main] = "prepare" /\ cpc' = [cpc EXCEPT ![Main] = "send"]
          /\ UNCHANGED <<list, result>>
      BY <2>0, <2>2 DEF Prepare, Go, appVars
    <3>2. cpc'[Main] = "send" /\ \A d \in Clients : d # Main => cpc'[d] = cpc[d]
      BY <1>0, <3>1, MainAt
    <3> QED BY <3>1, <3>2, GoneKeeps
  <2>3. CASE SendExit(c)
    <3>1. c = Main /\ cpc[Main] = "send" /\ UNCHANGED <<list, result>>
      BY <2>0, <2>3 DEF SendExit, appVars
    <3>2. CanSend(victim[Main])
      BY <3>1, ExitIsSent
    <3>3. inbox' = Append(inbox, Msg("exit", Main)) /\ cpc' = [cpc EXCEPT ![Main] = "wait"]
      BY <2>3, <3>1, <3>2 DEF SendExit, Go
    <3>4. Msg("exit", Main) \in Message /\ Msg("exit", Main).type = "exit"
      BY DEF Msg, Message
    <3>5. PendingExit'
      <4>1. /\ Len(inbox) \in Nat /\ Len(inbox') = Len(inbox) + 1
            /\ inbox'[Len(inbox) + 1] = Msg("exit", Main)
        BY <1>0, <3>3, <3>4, AppendQueue
      <4>2. Len(inbox) + 1 \in 1..Len(inbox')
        BY <4>1
      <4> QED BY <3>4, <4>1, <4>2 DEF PendingExit
    <3>6. cpc'[Main] = "wait" /\ \A d \in Clients : d # Main => cpc'[d] = cpc[d]
      BY <1>0, <3>3, MainAt
    <3> QED BY <3>1, <3>5, <3>6 DEF GoneInv
  <2>4. CASE Waited(c)
    <3>1. /\ c = Main /\ cpc[Main] = "wait" /\ (sem[Main] \/ victim[Main] \notin list)
          /\ UNCHANGED <<list, result, inbox, apc>>
          /\ (cpc' = cpc \/ cpc' = [cpc EXCEPT ![Main] = "join"])
      BY <2>0, <2>4 DEF Waited, Go, appVars, msgVars
    <3>2. ~PendingExit
      BY <1>0, <3>1 DEF ExitInv, CurrentIsRunning
    <3>3. list = {}
      BY <3>1, <3>2 DEF GoneInv
    <3>4. cpc'[Main] \in {"wait", "join"} /\ \A d \in Clients : d # Main => cpc'[d] = cpc[d]
      BY <1>0, <3>1, MainAt
    <3> QED BY <3>1, <3>3, <3>4 DEF GoneInv
  <2>5. CASE Join(c)
    <3>1. /\ c = Main /\ cpc[Main] = "join" /\ UNCHANGED <<list, result>>
          /\ (cpc' = cpc \/ cpc' = [cpc EXCEPT ![Main] = ret[Main]])
      BY <2>0, <2>5 DEF Join, Go, appVars
    <3>2. /\ cpc'[Main] \in {"join", "idle", "relock", "done"}
          /\ \A d \in Clients : d # Main => cpc'[d] = cpc[d]
      BY <1>0, <3>1, MainAt DEF TypeOK
    <3> QED BY <3>1, <3>2 DEF GoneInv
  <2>6. CASE Relock(c)
    <3>1. /\ c = Main /\ InitApp(Main, target[Main]) /\ cpc' = [cpc EXCEPT ![Main] = "done"]
          /\ target[Main] \in Apps \cup {None}
      BY <1>0, <2>0, <2>6 DEF Relock, Go, TypeOK
    <3> QED BY <1>3, <1>4, <3>1
  <2>7. CASE NotifySend(c)
    <3>1. /\ cpc[c] = "notify" /\ UNCHANGED <<list, result, apc>>
          /\ cpc' = [cpc EXCEPT ![c] = "notified"] \/ cpc' = [cpc EXCEPT ![c] = "done"]
          /\ inbox' = Append(inbox, Msg("suspend", c)) \/ inbox' = inbox
      BY <2>7 DEF NotifySend, Go, appVars
    <3>2. Msg("suspend", c) \in Message
      BY DEF Msg, Message
    <3>3. PendingExit => PendingExit'
      BY <1>0, <3>1, <3>2, StaysPending
    <3> QED BY <1>7, <3>1, <3>3
  <2>8. CASE NotifyDone(c)
    <3>1. /\ cpc[c] = "notified" /\ cpc' = [cpc EXCEPT ![c] = "done"]
          /\ UNCHANGED <<inbox, apc, list, result>>
      BY <2>8 DEF NotifyDone, Go, appVars, msgVars
    <3>2. PendingExit => PendingExit'
      BY <1>0, <3>1, StaysPending
    <3> QED BY <1>7, <3>1, <3>2
  <2>9. CASE Return(c)
    <3>1. /\ cpc[c] = "done" /\ cpc' = [cpc EXCEPT ![c] = "idle"]
          /\ result' = [result EXCEPT ![c] = FALSE] /\ UNCHANGED <<inbox, apc, list>>
      BY <2>9 DEF Return, Go, appVars, msgVars
    <3>2. cpc'[c] = "idle" /\ \A d \in Clients : d # c => cpc'[d] = cpc[d]
      BY <1>0, <3>1 DEF TypeOK
    <3>3. ~result'[c] /\ \A d \in Clients : d # c => result'[d] = result[d]
      BY <1>0, <3>1 DEF TypeOK
    <3>4. PendingExit => PendingExit'
      BY <1>0, <3>1, StaysPending
    <3>5. \A d \in Clients : result'[d] => d = Main /\ cpc'[d] = "done"
      BY <3>2, <3>3 DEF GoneInv
    <3>6. cpc'[Main] = cpc[Main] \/ cpc'[Main] = "idle"
      BY <1>0, <3>2
    <3> QED BY <3>1, <3>4, <3>5, <3>6 DEF GoneInv
  <2> QED BY <1>9, <2>1, <2>2, <2>3, <2>4, <2>5, <2>6, <2>7, <2>8, <2>9 DEF ClientStep
<1> QED BY <1>1, <1>2, <1>8, <1>9 DEF Next, Halted

\* The rules about exits hold in every reachable state.
LEMMA AlwaysGone ==
    ASSUME OneSwitcher, PoolSuffices
    PROVE  Spec => [](IInv /\ SwitchInv /\ RoomInv /\ GoneInv)
<1>1. IInv /\ SwitchInv /\ RoomInv /\ [Next]_vars => RoomInv'
  BY StepRoom
<1>2. IInv /\ SwitchInv /\ RoomInv /\ GoneInv /\ [Next]_vars => GoneInv'
  BY StepGone
<1>3. Init => GoneInv
  BY ClientsAssumption DEF Init, GoneInv
<1> QED BY <1>1, <1>2, <1>3, InitRoom, AlwaysSwitchInv, PTL DEF Spec

\* When active_app returns true the target is the active application, or there
\* is none for APP_ID_ILLEGAL.
THEOREM SwitchAlwaysSucceeds ==
    ASSUME OneSwitcher, PoolSuffices
    PROVE  Spec => SwitchSucceeded
<1> DEFINE Inv == IInv /\ SwitchInv /\ RoomInv /\ GoneInv
           Step == \A c \in Clients : cpc[c] # "done" /\ cpc'[c] = "done" /\ result'[c]
                      => actived_app' = target'[c]
<1>1. Inv /\ Inv' /\ [Next]_vars => [Step]_vars
  <2> SUFFICES ASSUME Inv, Inv', [Next]_vars, NEW c \in Clients, cpc[c] # "done",
                      cpc'[c] = "done", result'[c]
               PROVE  actived_app' = target'[c]
    OBVIOUS
  <2> USE DEF At
  <2>0. TypeOK /\ CurrentIsRunning /\ OthersInv /\ Main \in Clients
    BY DEF IInv, SwitchInv
  <2>1. c = Main /\ ~result[Main]
    BY DEF GoneInv
  <2>2. ASSUME NEW t \in Apps \cup {None}, InitApp(Main, t), list = {}
        PROVE  actived_app' = t
    <3>1. actived_app = None
      BY <2>0, <2>2 DEF CurrentIsRunning
    <3>2. CASE StartApp(Main, t)
      BY <3>2 DEF StartApp
    <3>3. CASE StartNone(Main, t)
      <4>1. t = None
        BY <2>0, <2>1, <3>3 DEF StartNone, TypeOK
      <4> QED BY <3>1, <3>3, <4>1 DEF StartNone, listVars
    <3> QED BY <2>2, <3>2, <3>3 DEF InitApp
  <2>3. ASSUME NEW t \in Apps \cup {None}, ActiveApp(Main, t)
        PROVE  actived_app' = target'[Main]
    <3>1. target'[Main] = t
      BY <2>0, <2>3 DEF ActiveApp, TypeOK
    <3>2. CASE t = actived_app
      BY <2>3, <3>1, <3>2 DEF ActiveApp, listVars
    <3>3. CASE t # actived_app /\ actived_app # None
      <4>1. Go(Main, "unlocked")
        BY <2>3, <3>3 DEF ActiveApp
      <4> QED BY <2>0, <2>1, <4>1, MainAt DEF Go
    <3>4. CASE t # actived_app /\ actived_app = None
      <4>1. InitApp(Main, t)
        BY <2>3, <3>4 DEF ActiveApp
      <4>2. list = {}
        BY <2>0, <3>4 DEF CurrentIsRunning
      <4> QED BY <2>2, <3>1, <4>1, <4>2
    <3> QED BY <3>2, <3>3, <3>4
  <2>4. ASSUME Relock(Main)
        PROVE  actived_app' = target'[Main]
    <3>1. InitApp(Main, target[Main]) /\ target' = target /\ list = {}
      BY <2>4 DEF Relock, GoneInv
    <3>2. target[Main] \in Apps \cup {None}
      BY <2>0 DEF TypeOK
    <3> QED BY <2>2, <3>1, <3>2
  <2>5. ASSUME NEW d \in Switchers, NEW t \in Apps \cup {None}, Switch(d, t)
        PROVE  actived_app' = target'[Main]
    <3>1. d = Main
      BY DEF OneSwitcher
    <3> QED BY <2>3, <2>5, <3>1 DEF Switch
  <2>6. CASE MainStart
    <3>1. default_app \in Apps \cup {None}
      BY <2>0 DEF TypeOK
    <3> QED BY <2>1, <2>3, <2>6, <3>1 DEF MainStart
  <2>7. ASSUME NEW d \in Clients, ClientStep(d), ~Relock(d)
        PROVE  ~result'[Main]
    BY <2>0, <2>1, <2>7 DEF ClientStep, ActiveAppExit, ExitApp, Prepare, SendExit, Waited, Join,
             NotifySend, NotifyDone, Return, callVars, TypeOK
  <2>8. ASSUME NEW d \in Clients, Relock(d)
        PROVE  d = Main
    BY <2>0, <2>8 DEF Relock, OthersInv
  <2>9. ASSUME NEW a \in Apps, AppStep(a)
        PROVE  result' = result
    BY <2>9 DEF AppStep, AppReady, AppInitFails, AppHandle, AppExitMsg,
                app_manager_thread_exit, AppEnds, callVars
  <2>10. ASSUME NEW d \in Notifiers, NEW a \in Apps, NotifyApp(d, a)
         PROVE  result' = result
    BY <2>10 DEF NotifyApp
  <2>11. ASSUME (\E a \in Apps : MainExit(a)) \/ Post \/ Halted \/ UNCHANGED vars
         PROVE  result' = result
    BY <2>11 DEF MainExit, ExitApp, Post, Halted, vars, callVars
  <2> QED BY <2>1, <2>4, <2>5, <2>6, <2>7, <2>8, <2>9, <2>10, <2>11 DEF Next, Call
<1>2. Spec => []Inv
  BY AlwaysGone
<1> HIDE DEF Inv
<1> QED BY <1>1, <1>2, PTL DEF Spec, SwitchSucceeded
=============================================================================
