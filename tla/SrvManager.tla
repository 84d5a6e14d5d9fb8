----------------------------- MODULE SrvManager -----------------------------
(***************************************************************************)
(* framework/base/core/srv_manager.c: the service threads (bluetooth,      *)
(* media, ui_service).  Each has a stack of its own at a fixed address,    *)
(* which is also its thread id, a node of global_srv_list and a listener   *)
(* of the message manager.                                                 *)
(*                                                                         *)
(* Clients start, stop and notify services.  active_service and            *)
(* thread_exit hold srv_manager_mutex; exit_service and notify_service     *)
(* walk the list without it.  A thread that leaves the list runs at the    *)
(* highest cooperative priority: its thread_exit is one step.              *)
(***************************************************************************)
EXTENDS Integers, Sequences, FiniteSets, Functions

CONSTANTS Services,
          Leaves,      \* services whose loop calls srv_manager_thread_exit
          Linger,      \* services that still work after they left the list
          Clients,
          Starters,    \* for each service, the clients that start it
          Exiters,     \* ... and that stop it
          Notifiers,   \* clients that notify all services
          None,
          NTerm,       \* MAX_THREAD_TERMINAL_NUM
          NMsg,        \* CONFIG_NUM_MBOX_ASYNC_MSGS
          PostBound,   \* bound: MSG_INIT_APP messages pending at a service
          JoinTimeout, \* whether a thread may take 5 s to end
          ListenerGap  \* whether a notification may find a service that is
                       \* listed and has no listener yet

ASSUME ServicesAssumption ==
    /\ Leaves \subseteq Services /\ Linger \subseteq Services
    /\ Starters \in [Services -> SUBSET Clients]
    /\ Exiters \in [Services -> SUBSET Clients] /\ Notifiers \subseteq Clients
    /\ None \notin Services \cup Clients
ASSUME BoundsAssumption ==
    NTerm \in Nat /\ NMsg \in Nat /\ PostBound \in Nat
ASSUME FlagsAssumption == JoinTimeout \in BOOLEAN /\ ListenerGap \in BOOLEAN

VARIABLES list,       \* global_srv_list, in its order
          listeners,  \* services with a node of global_receiver_list
          mutex,      \* the client that holds srv_manager_mutex
          spc, reply, \* the services' threads; whom an exit answers
          inbox,      \* messages pending at each service's thread id
          term,       \* thread_terminal_info: the thread of each slot
          cpc,        \* each client's place in its call
          srv,        \* srv_name, or the node of notify_service's walk
          tmp, freed, \* the walk's saved next node; it has been freed
          sem, slot,  \* callback_sem; os_thread_wait_terminal: terminal_info
          result,     \* what the call returns
          owed,       \* services listed since the walk began, not told yet
          fault       \* a null pointer or a freed node was used

thrVars == <<list, listeners, spc, reply>>
walkVars == <<tmp, freed, owed>>
vars == <<list, listeners, mutex, spc, reply, inbox, term, cpc, srv, tmp, freed,
          sem, slot, result, owed, fault>>

Slots == 1..NTerm
Listed == Range(list)

Init ==
    /\ list = <<>> /\ listeners = {} /\ mutex = None
    /\ spc = [s \in Services |-> "dead"] /\ reply = [s \in Services |-> None]
    /\ inbox = [s \in Services |-> <<>>]
    /\ term = [x \in Slots |-> None]
    /\ cpc = [c \in Clients |-> "idle"] /\ srv = [c \in Clients |-> None]
    /\ tmp = [c \in Clients |-> None] /\ freed = [c \in Clients |-> FALSE]
    /\ sem = [c \in Clients |-> FALSE] /\ slot = [c \in Clients |-> 0]
    /\ result = [c \in Clients |-> FALSE] /\ owed = [c \in Clients |-> {}]
    /\ fault = FALSE

-----------------------------------------------------------------------------
At(c, place) == ~fault /\ cpc[c] = place
Go(c, place) == cpc' = [cpc EXCEPT ![c] = place]
Set(f, c, v) == [f EXCEPT ![c] = v]

Msg(type, from) == [type |-> type, from |-> from]

\* A pool entry is taken until the receiver has copied the message.
Pending == {p \in Services \X (1..NMsg) : p[2] <= Len(inbox[p[1]])}

\* send_async_msg finds a listener and a pool entry.
CanSend(s) == s \in listeners /\ Cardinality(Pending) < NMsg

Send(s, m) == inbox' = [inbox EXCEPT ![s] = Append(@, m)]

-----------------------------------------------------------------------------
(* The services' threads: bt_service_main_loop, _ui_service_main_loop.     *)

\* Mutant: the callback is forgotten.
Handle_NoCallback(s) ==
    /\ ~fault /\ spc[s] = "loop" /\ inbox[s] # <<>>
    /\ Head(inbox[s]).type # "exit"
    /\ inbox' = [inbox EXCEPT ![s] = Tail(@)]
    /\ UNCHANGED <<thrVars, mutex, term, cpc, srv, walkVars, sem, slot, result, fault>>

\* A message is received and handled, then its callback gives the semaphore.
Handle(s) ==
    /\ ~fault /\ spc[s] = "loop" /\ inbox[s] # <<>>
    /\ Head(inbox[s]).type # "exit"
    /\ inbox' = [inbox EXCEPT ![s] = Tail(@)]
    /\ sem' = [c \in Clients |-> sem[c] \/ Head(inbox[s]).from = c]
    /\ UNCHANGED <<thrVars, mutex, term, cpc, srv, walkVars, slot, result, fault>>

\* MSG_EXIT_APP: the service stops what it does (btsrv_adapter_stop).
ReceiveExit(s) ==
    /\ ~fault /\ spc[s] = "loop" /\ inbox[s] # <<>>
    /\ Head(inbox[s]).type = "exit"
    /\ inbox' = [inbox EXCEPT ![s] = Tail(@)]
    /\ spc' = Set(spc, s, "exit") /\ reply' = Set(reply, s, Head(inbox[s]).from)
    /\ UNCHANGED <<list, listeners, mutex, term, cpc, srv, walkVars, sem, slot,
                   result, fault>>

\* sys_slist_find_and_remove of the node at this place.
Without(i) == [j \in 1..(Len(list) - 1) |-> IF j < i THEN list[j] ELSE list[j + 1]]

Unlisted(s) == list' \in {Without(i) : i \in {k \in 1..Len(list) : list[k] = s}}

\* Mutant: the service stays in the list.
srv_manager_thread_exit_StaysListed(s) ==
    /\ mutex = None
    /\ inbox' = Set(inbox, s, <<>>)
    /\ listeners' = listeners \ {s}
    /\ UNCHANGED <<list, freed, owed>>

\* srv_manager_thread_exit: pending messages are dropped, their callbacks are
\* not called; the node is freed.
srv_manager_thread_exit(s) ==
    /\ mutex = None
    /\ IF s \in Listed
       THEN /\ inbox' = Set(inbox, s, <<>>)
            /\ Unlisted(s) /\ listeners' = listeners \ {s}
            /\ freed' = [c \in Clients |-> freed[c] \/ tmp[c] = s]
            /\ owed' = [c \in Clients |-> owed[c] \ {s}]
       ELSE UNCHANGED <<inbox, list, listeners, freed, owed>>

\* The rest of the loop: the exit message's callback, expired timers, the end.
Exit(s) ==
    /\ ~fault /\ spc[s] = "exit"
    /\ IF s \in Leaves THEN srv_manager_thread_exit(s)
                       ELSE UNCHANGED <<inbox, list, listeners, freed, owed>>
    /\ sem' = [c \in Clients |-> sem[c] \/ reply[s] = c]
    /\ spc' = Set(spc, s, IF s \in Linger THEN "linger" ELSE "dead")
    /\ reply' = Set(reply, s, None)
    /\ UNCHANGED <<mutex, term, cpc, srv, tmp, slot, result, fault>>

End(s) ==
    /\ ~fault /\ spc[s] = "linger"
    /\ spc' = Set(spc, s, "dead")
    /\ UNCHANGED <<list, listeners, mutex, reply, inbox, term, cpc, srv, walkVars,
                   sem, slot, result, fault>>

-----------------------------------------------------------------------------
(* A client starts a service: _ui_service_start, btif_start.               *)

\* srv_manager_check_service_is_actived, under the mutex.
Start(c, s) ==
    /\ At(c, "idle") /\ mutex = None
    /\ Len(SelectSeq(inbox[s], LAMBDA m : m.type = "init")) < PostBound
    /\ srv' = Set(srv, c, s)
    /\ Go(c, IF s \in Listed THEN "init" ELSE "create")
    /\ UNCHANGED <<thrVars, mutex, inbox, term, walkVars, sem, slot, result, fault>>

\* Mutant: the stack is not checked.
Create_NoCheck(c) ==
    /\ At(c, "create") /\ mutex = None
    /\ mutex' = c /\ Go(c, "append")
    /\ spc' = Set(spc, srv[c], IF spc[srv[c]] = "dead" THEN "loop" ELSE "clobbered")
    /\ UNCHANGED <<list, listeners, reply, inbox, term, srv, walkVars, sem, slot,
                   result, fault>>

\* srv_manager_active_service, srv_manager_init_service: a listed service uses
\* the stack, or there is no memory for the node.
CreateFails(c) ==
    /\ At(c, "create") /\ mutex = None
    /\ Go(c, "done")
    /\ UNCHANGED <<thrVars, mutex, inbox, term, srv, walkVars, sem, slot, result, fault>>

\* The thread is created and, os_yield, runs to its first wait.  A thread that
\* is still there is overwritten.
CreateThread(c) ==
    /\ At(c, "create") /\ mutex = None /\ srv[c] \notin Listed
    /\ mutex' = c /\ Go(c, "append")
    /\ spc' = Set(spc, srv[c], IF spc[srv[c]] = "dead" THEN "loop" ELSE "clobbered")
    /\ UNCHANGED <<list, listeners, reply, inbox, term, srv, walkVars, sem, slot,
                   result, fault>>

Create(c) == CreateFails(c) \/ CreateThread(c)

\* sys_slist_append
AppendNode(c) ==
    /\ At(c, "append")
    /\ list' = Append(list, srv[c])
    /\ Go(c, "listen")
    /\ UNCHANGED <<listeners, mutex, spc, reply, inbox, term, srv, walkVars, sem,
                   slot, result, fault>>

\* msg_manager_add_listener; the mutex is released.
Listen(c) ==
    /\ At(c, "listen")
    /\ listeners' = listeners \cup {srv[c]}
    /\ mutex' = None /\ Go(c, "init")
    /\ UNCHANGED <<list, spc, reply, inbox, term, srv, walkVars, sem, slot,
                   result, fault>>

\* The caller sends the service MSG_INIT_APP, without a callback.
SendInit(c) ==
    /\ At(c, "init")
    /\ IF CanSend(srv[c]) THEN Send(srv[c], Msg("init", None)) ELSE UNCHANGED inbox
    /\ result' = Set(result, c, CanSend(srv[c]))
    /\ Go(c, "done")
    /\ UNCHANGED <<thrVars, mutex, term, srv, walkVars, sem, slot, fault>>

-----------------------------------------------------------------------------
(* A client stops a service: _ui_service_stop, btif_stop.                  *)

\* srv_manager_check_service_is_actived
Stop(c, s) ==
    /\ At(c, "idle") /\ mutex = None
    /\ srv' = Set(srv, c, s)
    /\ Go(c, IF s \in Listed THEN "exit" ELSE "done")
    /\ UNCHANGED <<thrVars, mutex, inbox, term, walkVars, sem, slot, result, fault>>

\* srv_manager_exit_service up to os_thread_prepare_terminal, which takes the
\* first free slot; that there is none is not noticed.
ExitService(c) ==
    LET free == {x \in Slots : term[x] = None} IN
    /\ At(c, "exit")
    /\ IF srv[c] \in Listed
       THEN /\ IF free = {} THEN UNCHANGED term
               ELSE \E x \in free : /\ \A y \in free : x <= y
                                    /\ term' = Set(term, x, srv[c])
            /\ Go(c, "send")
       ELSE UNCHANGED term /\ Go(c, "done")
    /\ sem' = Set(sem, c, FALSE)
    /\ UNCHANGED <<thrVars, mutex, inbox, srv, walkVars, slot, result, fault>>

\* If the exit message cannot be sent the call fails, and keeps its slot.
SendExit(c) ==
    /\ At(c, "send")
    /\ IF CanSend(srv[c]) THEN Send(srv[c], Msg("exit", c)) /\ Go(c, "wait")
                          ELSE UNCHANGED inbox /\ Go(c, "done")
    /\ UNCHANGED <<thrVars, mutex, term, srv, walkVars, sem, slot, result, fault>>

\* The callback came, or 6 s passed and the service is not listed any more;
\* then os_thread_wait_terminal takes the last slot with this thread.
Waited(c) ==
    LET used == {x \in Slots : term[x] = srv[c]} IN
    /\ At(c, "wait") /\ (sem[c] \/ srv[c] \notin Listed)
    /\ IF used = {}
       THEN fault' = TRUE /\ UNCHANGED <<slot, cpc>>
       ELSE /\ \E x \in used : /\ \A y \in used : y <= x
                              /\ slot' = Set(slot, c, x)
            /\ Go(c, "join") /\ UNCHANGED fault
    /\ UNCHANGED <<thrVars, mutex, inbox, term, srv, walkVars, sem, result>>

\* Mutant: the end of the thread is not awaited.
Join_NoWait(c) ==
    /\ At(c, "join")
    /\ result' = Set(result, c, TRUE) /\ Go(c, "exited")
    /\ term' = Set(term, slot[c], None) /\ slot' = Set(slot, c, 0)
    /\ UNCHANGED <<thrVars, mutex, inbox, srv, walkVars, sem, fault>>

\* k_thread_join on the slot's thread, or its timeout, which nobody notices.
Join(c) ==
    /\ At(c, "join")
    /\ IF term[slot[c]] = None
       THEN fault' = TRUE /\ UNCHANGED <<term, slot, result, cpc>>
       ELSE /\ spc[term[slot[c]]] = "dead" \/ JoinTimeout
            /\ term' = Set(term, slot[c], None) /\ slot' = Set(slot, c, 0)
            /\ result' = Set(result, c, TRUE) /\ Go(c, "exited")
            /\ UNCHANGED fault
    /\ UNCHANGED <<thrVars, mutex, inbox, srv, walkVars, sem>>

-----------------------------------------------------------------------------
(* srv_manager_notify_service(NULL, ...)                                   *)

\* The node after s, None after the last one.
NextNode(s) ==
    IF \E i \in 1..(Len(list) - 1) : list[i] = s
    THEN list[1 + CHOOSE i \in 1..(Len(list) - 1) : list[i] = s] ELSE None

Notify(c) ==
    /\ At(c, "idle") /\ list # <<>>
    /\ srv' = Set(srv, c, list[1]) /\ tmp' = Set(tmp, c, NextNode(list[1]))
    /\ freed' = Set(freed, c, FALSE) /\ owed' = Set(owed, c, Listed)
    /\ Go(c, "tell")
    /\ UNCHANGED <<thrVars, mutex, inbox, term, sem, slot, result, fault>>

\* A failed send ends the walk: the services behind are not told.
Tell(c) ==
    /\ At(c, "tell")
    /\ ListenerGap \/ \A d \in Clients : cpc[d] # "listen"
    /\ IF CanSend(srv[c]) THEN Send(srv[c], Msg("notify", c)) /\ Go(c, "told")
                          ELSE UNCHANGED inbox /\ Go(c, "notified")
    /\ sem' = Set(sem, c, FALSE)
    /\ UNCHANGED <<thrVars, mutex, term, srv, walkVars, slot, result, fault>>

\* Mutant: the walk ends after one service.
Told_OnlyOne(c) ==
    /\ At(c, "told") /\ sem[c]
    /\ owed' = Set(owed, c, owed[c] \ {srv[c]})
    /\ Go(c, "notified")
    /\ UNCHANGED <<thrVars, mutex, inbox, term, srv, tmp, freed, sem, slot, result, fault>>

\* The callback came; the walk goes on with the node it saved.
Told(c) ==
    /\ At(c, "told") /\ sem[c]
    /\ owed' = Set(owed, c, owed[c] \ {srv[c]})
    /\ CASE freed[c] -> fault' = TRUE /\ UNCHANGED <<srv, tmp, cpc>>
         [] ~freed[c] /\ tmp[c] = None ->
              Go(c, "notified") /\ UNCHANGED <<srv, tmp, fault>>
         [] OTHER -> /\ srv' = Set(srv, c, tmp[c])
                     /\ tmp' = Set(tmp, c, NextNode(tmp[c]))
                     /\ Go(c, "tell") /\ UNCHANGED fault
    /\ UNCHANGED <<thrVars, mutex, inbox, term, freed, sem, slot, result>>

\* A call returns.
Return(c) ==
    /\ ~fault /\ cpc[c] \in {"done", "exited", "notified"}
    /\ Go(c, "idle")
    /\ srv' = Set(srv, c, None) /\ tmp' = Set(tmp, c, None)
    /\ freed' = Set(freed, c, FALSE) /\ owed' = Set(owed, c, {})
    /\ result' = Set(result, c, FALSE)
    /\ UNCHANGED <<thrVars, mutex, inbox, term, sem, slot, fault>>

-----------------------------------------------------------------------------
Thread(s) == Handle(s) \/ ReceiveExit(s) \/ Exit(s) \/ End(s)

Call(c) ==
    \/ \E s \in Services : c \in Starters[s] /\ Start(c, s)
    \/ \E s \in Services : c \in Exiters[s] /\ Stop(c, s)
    \/ c \in Notifiers /\ Notify(c)

Continue(c) ==
    \/ Create(c) \/ AppendNode(c) \/ Listen(c) \/ SendInit(c)
    \/ ExitService(c) \/ SendExit(c) \/ Waited(c) \/ Join(c)
    \/ Tell(c) \/ Told(c) \/ Return(c)

Next ==
    \/ \E s \in Services : Thread(s)
    \/ \E c \in Clients : Call(c) \/ Continue(c)

Spec == Init /\ [][Next]_vars

\* Threads run when they can, and k_mutex_unlock hands the mutex to a thread
\* that waits for it, the only thing a step waits for that may come and go.
\* Nobody need call anything.
Fairness ==
    /\ \A s \in Services : SF_vars(Thread(s))
    /\ \A c \in Clients : SF_vars(Continue(c))

FairSpec == Spec /\ Fairness

-----------------------------------------------------------------------------
(* Properties.                                                             *)

\* Every variable has its type; a call under way is about a service.
TypeOK ==
    /\ list \in Seq(Services) /\ listeners \subseteq Services
    /\ mutex \in Clients \cup {None}
    /\ spc \in [Services -> {"dead", "loop", "exit", "linger", "clobbered"}]
    /\ reply \in [Services -> Clients \cup {None}]
    /\ inbox \in [Services -> Seq([type : {"init", "exit", "notify"},
                                   from : Clients \cup {None}])]
    /\ term \in [Slots -> Services \cup {None}]
    /\ cpc \in [Clients -> {"idle", "create", "append", "listen", "init", "exit",
                            "send", "wait", "join", "tell", "told", "done",
                            "exited", "notified"}]
    /\ srv \in [Clients -> Services \cup {None}]
    /\ \A c \in Clients : cpc[c] # "idle" => srv[c] \in Services
    /\ tmp \in [Clients -> Services \cup {None}] /\ freed \in [Clients -> BOOLEAN]
    /\ sem \in [Clients -> BOOLEAN] /\ slot \in [Clients -> 0..NTerm]
    /\ result \in [Clients -> BOOLEAN] /\ owed \in [Clients -> SUBSET Services]
    /\ fault \in BOOLEAN

\* os_thread_create never runs on the stack of a thread that is still there:
\* neither when the service has left the list but works on, nor when two
\* clients start it.
StackExclusive == \A s \in Services : spc[s] # "clobbered"

\* A listed service has a thread that receives what is sent to it: the node,
\* the listener and the thread go together (a sender finds the one and waits
\* for the other).
ListedRuns ==
    \A s \in Services :
        s \in Listed \cup listeners => s \in Listed /\ spc[s] \in {"loop", "exit"}

\* When srv_manager_exit_service returns true the service is gone: its thread
\* has ended and it is in neither list, so it can be started again.
ExitedIsGone ==
    \A c \in Clients : cpc[c] = "exited" =>
        /\ spc[srv[c]] = "dead"
        /\ srv[c] \notin Listed /\ srv[c] \notin listeners

\* srv_manager_notify_service(NULL) returns only when every service that was
\* there all the time has handled the message.
NotifiesAll == \A c \in Clients : cpc[c] = "notified" => owed[c] = {}

\* Every call returns, although exit messages and notifications are answered
\* by threads that may be about to end.
CallsReturn == \A c \in Clients : (cpc[c] # "idle") ~> (cpc[c] = "idle")
=============================================================================
