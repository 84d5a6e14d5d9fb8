-------------------------- MODULE SrvManagerProofs --------------------------
(***************************************************************************)
(* Proofs about SrvManager for any services and clients, any pool and      *)
(* termination table: first for any callers of each operation, then for    *)
(* services that one client owns, last for an owner that also notifies.    *)
(***************************************************************************)
EXTENDS SrvManager, TLAPS

USE ServicesAssumption, BoundsAssumption

Messages == [type : {"init", "exit", "notify"}, from : Clients \cup {None}]
Places == {"idle", "create", "append", "listen", "init", "exit", "send", "wait",
           "join", "tell", "told", "done", "exited", "notified"}

-----------------------------------------------------------------------------
(* Type correctness.                                                       *)

\* The messages the manager sends are messages.
LEMMA MsgType ==
    ASSUME NEW type \in {"init", "exit", "notify"}, NEW from \in Clients \cup {None}
    PROVE  Msg(type, from) \in Messages
BY DEF Msg, Messages

\* A send (send_async_msg) keeps the type of the inboxes.
LEMMA SendType ==
    ASSUME TypeOK, NEW s \in Services, NEW m \in Messages, Send(s, m)
    PROVE  inbox' \in [Services -> Seq(Messages)]
<1>1. inbox \in [Services -> Seq(Messages)]
  BY DEF TypeOK, Messages
<1>2. Append(inbox[s], m) \in Seq(Messages)
  BY <1>1
<1> QED BY <1>1, <1>2 DEF Send

\* Taking a message off an inbox (receive_msg) yields a message.
LEMMA ReceiveType ==
    ASSUME TypeOK, NEW s \in Services, inbox[s] # <<>>,
           inbox' = [inbox EXCEPT ![s] = Tail(@)]
    PROVE  /\ inbox' \in [Services -> Seq(Messages)]
           /\ Head(inbox[s]).from \in Clients \cup {None}
<1>1. inbox \in [Services -> Seq(Messages)]
  BY DEF TypeOK, Messages
<1>2. Head(inbox[s]) \in Messages /\ Tail(inbox[s]) \in Seq(Messages)
  BY <1>1
<1>3. inbox' \in [Services -> Seq(Messages)]
  BY <1>1, <1>2
<1>4. Head(inbox[s]).from \in Clients \cup {None}
  BY <1>2 DEF Messages
<1> QED BY <1>3, <1>4

\* Removing a node (sys_slist_find_and_remove) leaves a list of services, with
\* all the others in it.
LEMMA WithoutType ==
    ASSUME TypeOK, NEW i \in 1..Len(list)
    PROVE  /\ Without(i) \in Seq(Services)
           /\ Len(Without(i)) = Len(list) - 1
           /\ \A j \in 1..(Len(list) - 1) :
                 Without(i)[j] = IF j < i THEN list[j] ELSE list[j + 1]
<1>1. list \in Seq(Services) /\ Len(list) \in Nat /\ Len(list) >= 1
  BY DEF TypeOK
<1>2. \A j \in 1..(Len(list) - 1) :
         (IF j < i THEN list[j] ELSE list[j + 1]) \in Services
  BY <1>1
<1>3. Without(i) \in [1..(Len(list) - 1) -> Services]
  BY <1>2 DEF Without
<1>4. Len(list) - 1 \in Nat
  BY <1>1
<1>5. Without(i) \in Seq(Services) /\ Len(Without(i)) = Len(list) - 1
  BY <1>3, <1>4
<1> QED BY <1>5 DEF Without

\* The saved next node of the walk is a service or the end of the list.
LEMMA NextNodeType ==
    ASSUME TypeOK, NEW s
    PROVE  NextNode(s) \in Services \cup {None}
<1>1. list \in Seq(Services) /\ Len(list) \in Nat
  BY DEF TypeOK
<1>2. CASE \E i \in 1..(Len(list) - 1) : list[i] = s
  <2> DEFINE k == CHOOSE i \in 1..(Len(list) - 1) : list[i] = s
  <2>1. k \in 1..(Len(list) - 1)
    BY <1>2
  <2>2. 1 + k \in 1..Len(list)
    BY <1>1, <2>1
  <2>3. list[1 + k] \in Services
    BY <1>1, <2>2
  <2> QED BY <1>2, <2>3 DEF NextNode
<1>3. CASE ~\E i \in 1..(Len(list) - 1) : list[i] = s
  BY <1>3 DEF NextNode
<1> QED BY <1>2, <1>3

\* The types hold initially.
LEMMA InitType == Init => TypeOK
<1> SUFFICES ASSUME Init PROVE TypeOK
  OBVIOUS
<1>1. list \in Seq(Services) /\ inbox \in [Services -> Seq(Messages)]
  BY DEF Init
<1>2. \A c \in Clients : cpc[c] = "idle"
  BY DEF Init
<1>3. /\ term \in [Slots -> Services \cup {None}] /\ slot \in [Clients -> 0..NTerm]
      /\ owed \in [Clients -> SUBSET Services]
  BY DEF Init
<1> QED BY <1>1, <1>2, <1>3 DEF Init, TypeOK, Messages

\* The steps of the services' threads keep the types.
LEMMA ThreadType ==
    ASSUME TypeOK, NEW s \in Services, Thread(s)
    PROVE  TypeOK'
<1>1. CASE Handle(s)
  <2>1. inbox' \in [Services -> Seq(Messages)]
    BY <1>1, ReceiveType DEF Handle
  <2>2. sem' \in [Clients -> BOOLEAN]
    BY <1>1 DEF Handle
  <2> QED BY <1>1, <2>1, <2>2 DEF Handle, TypeOK, Messages, thrVars, walkVars
<1>2. CASE ReceiveExit(s)
  <2>1. inbox' \in [Services -> Seq(Messages)] /\ Head(inbox[s]).from \in Clients \cup {None}
    BY <1>2, ReceiveType DEF ReceiveExit
  <2>2. reply' \in [Services -> Clients \cup {None}]
    BY <1>2, <2>1 DEF ReceiveExit, Set, TypeOK
  <2>3. spc' \in [Services -> {"dead", "loop", "exit", "linger", "clobbered"}]
    BY <1>2 DEF ReceiveExit, Set, TypeOK
  <2> QED BY <1>2, <2>1, <2>2, <2>3 DEF ReceiveExit, TypeOK, Messages, walkVars
<1>3. CASE Exit(s)
  <2>1. /\ list' \in Seq(Services) /\ listeners' \subseteq Services
        /\ inbox' \in [Services -> Seq(Messages)]
        /\ freed' \in [Clients -> BOOLEAN] /\ owed' \in [Clients -> SUBSET Services]
    <3>1. CASE UNCHANGED <<inbox, list, listeners, freed, owed>>
      BY <3>1 DEF TypeOK, Messages
    <3>2. CASE s \in Leaves /\ s \in Listed
      <4>1. PICK i \in 1..Len(list) : list' = Without(i)
        BY <1>3, <3>2 DEF Exit, srv_manager_thread_exit, Unlisted
      <4>2. list' \in Seq(Services)
        BY <4>1, WithoutType
      <4>3. inbox' \in [Services -> Seq(Messages)]
        <5>0. \A S : <<>> \in Seq(S)
          OBVIOUS
        <5>1. inbox \in [Services -> Seq(Messages)] /\ <<>> \in Seq(Messages)
          BY <5>0 DEF TypeOK, Messages
        <5>2. inbox' = [inbox EXCEPT ![s] = <<>>]
          BY <1>3, <3>2 DEF Exit, srv_manager_thread_exit, Set
        <5>3. \A S : inbox \in [Services -> S] /\ <<>> \in S => inbox' \in [Services -> S]
          BY <5>2
        <5> QED BY <5>1, <5>3
      <4>4. listeners' \subseteq Services
        <5>1. listeners' = listeners \ {s}
          BY <1>3, <3>2 DEF Exit, srv_manager_thread_exit
        <5> QED BY <5>1 DEF TypeOK
      <4>5. freed' \in [Clients -> BOOLEAN]
        BY <1>3, <3>2 DEF Exit, srv_manager_thread_exit
      <4>6. owed' \in [Clients -> SUBSET Services]
        <5>1. owed' = [c \in Clients |-> owed[c] \ {s}]
          BY <1>3, <3>2 DEF Exit, srv_manager_thread_exit
        <5> QED BY <5>1 DEF TypeOK
      <4> QED BY <4>2, <4>3, <4>4, <4>5, <4>6
    <3>3. CASE s \notin Leaves \/ s \notin Listed
      <4>1. UNCHANGED <<inbox, list, listeners, freed, owed>>
        BY <1>3, <3>3 DEF Exit, srv_manager_thread_exit
      <4> QED BY <3>1, <4>1
    <3> QED BY <3>2, <3>3
  <2>2. /\ sem' \in [Clients -> BOOLEAN]
        /\ spc' \in [Services -> {"dead", "loop", "exit", "linger", "clobbered"}]
        /\ reply' \in [Services -> Clients \cup {None}]
    BY <1>3 DEF Exit, Set, TypeOK
  <2>3. UNCHANGED <<mutex, term, cpc, srv, tmp, slot, result, fault>>
    BY <1>3 DEF Exit
  <2> QED BY <2>1, <2>2, <2>3 DEF TypeOK, Messages
<1>4. CASE End(s)
  <2>1. spc' \in [Services -> {"dead", "loop", "exit", "linger", "clobbered"}]
    BY <1>4 DEF End, Set, TypeOK
  <2> QED BY <1>4, <2>1 DEF End, TypeOK, walkVars
<1> QED BY <1>1, <1>2, <1>3, <1>4 DEF Thread

\* A client that goes to another place of its call, about the same service.
LEMMA GoType ==
    ASSUME TypeOK, NEW c \in Clients, NEW p \in Places, Go(c, p), srv' = srv,
           cpc[c] # "idle"
    PROVE  /\ cpc' \in [Clients -> Places]
           /\ \A d \in Clients : cpc'[d] # "idle" => srv'[d] \in Services
BY DEF Go, TypeOK, Places

\* A client that begins a call about a service, or goes on to another one.
LEMMA GoSrvType ==
    ASSUME TypeOK, NEW c \in Clients, NEW p \in Places, NEW s \in Services,
           Go(c, p), srv' = Set(srv, c, s)
    PROVE  /\ cpc' \in [Clients -> Places] /\ srv' \in [Clients -> Services \cup {None}]
           /\ \A d \in Clients : cpc'[d] # "idle" => srv'[d] \in Services
BY DEF Go, Set, TypeOK, Places

\* The steps of a start (srv_manager_active_service) keep the types.
LEMMA StartType ==
    ASSUME TypeOK, NEW c \in Clients,
           Create(c) \/ AppendNode(c) \/ Listen(c) \/ SendInit(c)
    PROVE  TypeOK'
<1> USE DEF At, Messages, Places
<1>0. ASSUME cpc[c] # "idle" PROVE srv[c] \in Services
  BY <1>0 DEF TypeOK
<1>1. CASE Create(c)
  <2>1. srv[c] \in Services /\ srv' = srv /\ cpc[c] # "idle"
    BY <1>0, <1>1 DEF Create, CreateFails, CreateThread
  <2>2. cpc' \in [Clients -> Places] /\ \A d \in Clients : cpc'[d] # "idle" => srv'[d] \in Services
    BY <1>1, <2>1, GoType DEF Create, CreateFails, CreateThread
  <2>3. /\ spc' \in [Services -> {"dead", "loop", "exit", "linger", "clobbered"}]
        /\ mutex' \in Clients \cup {None}
    BY <1>1, <2>1 DEF Create, CreateFails, CreateThread, thrVars, Set, TypeOK
  <2> QED BY <1>1, <2>1, <2>2, <2>3 DEF Create, CreateFails, CreateThread, TypeOK, thrVars, walkVars
<1>2. CASE AppendNode(c)
  <2>1. srv[c] \in Services /\ srv' = srv /\ cpc[c] # "idle"
    BY <1>0, <1>2 DEF AppendNode
  <2>2. cpc' \in [Clients -> Places] /\ \A d \in Clients : cpc'[d] # "idle" => srv'[d] \in Services
    BY <1>2, <2>1, GoType DEF AppendNode
  <2>3. list' \in Seq(Services)
    BY <1>2, <2>1 DEF AppendNode, TypeOK
  <2> QED BY <1>2, <2>1, <2>2, <2>3 DEF AppendNode, TypeOK, walkVars
<1>3. CASE Listen(c)
  <2>1. srv[c] \in Services /\ srv' = srv /\ cpc[c] # "idle"
    BY <1>0, <1>3 DEF Listen
  <2>2. cpc' \in [Clients -> Places] /\ \A d \in Clients : cpc'[d] # "idle" => srv'[d] \in Services
    BY <1>3, <2>1, GoType DEF Listen
  <2>3. listeners' \subseteq Services
    BY <1>3, <2>1 DEF Listen, TypeOK
  <2> QED BY <1>3, <2>1, <2>2, <2>3 DEF Listen, TypeOK, walkVars
<1>4. CASE SendInit(c)
  <2>1. srv[c] \in Services /\ srv' = srv /\ cpc[c] # "idle"
    BY <1>0, <1>4 DEF SendInit
  <2>2. cpc' \in [Clients -> Places] /\ \A d \in Clients : cpc'[d] # "idle" => srv'[d] \in Services
    BY <1>4, <2>1, GoType DEF SendInit
  <2>3. inbox' \in [Services -> Seq(Messages)]
    BY <1>4, <2>1, MsgType, SendType DEF SendInit, TypeOK
  <2>4. result' \in [Clients -> BOOLEAN]
    BY <1>4 DEF SendInit, Set, TypeOK, CanSend
  <2> QED BY <1>4, <2>1, <2>2, <2>3, <2>4 DEF SendInit, TypeOK, thrVars, walkVars
<1> QED BY <1>1, <1>2, <1>3, <1>4

\* A slot that is found, or 0, keeps the type of the slots looked up.
LEMMA SlotType ==
    ASSUME slot \in [Clients -> 0..NTerm], NEW c \in Clients
    PROVE  /\ \A x \in 1..NTerm : [slot EXCEPT ![c] = x] \in [Clients -> 0..NTerm]
           /\ [slot EXCEPT ![c] = 0] \in [Clients -> 0..NTerm]
<1>1. 0 \in 0..NTerm /\ \A x \in 1..NTerm : x \in 0..NTerm
  OBVIOUS
<1> QED BY <1>1

\* The steps of a stop (srv_manager_exit_service) keep the types.
LEMMA StopType ==
    ASSUME TypeOK, NEW c \in Clients,
           ExitService(c) \/ SendExit(c) \/ Waited(c) \/ Join(c)
    PROVE  TypeOK'
<1> USE DEF At, Messages, Places
<1>0. ASSUME cpc[c] # "idle" PROVE srv[c] \in Services
  BY <1>0 DEF TypeOK
<1>9. slot \in [Clients -> 0..NTerm]
  BY DEF TypeOK
<1>1. CASE ExitService(c)
  <2>1. srv[c] \in Services /\ srv' = srv /\ cpc[c] # "idle"
    BY <1>0, <1>1 DEF ExitService
  <2>2. cpc' \in [Clients -> Places] /\ \A d \in Clients : cpc'[d] # "idle" => srv'[d] \in Services
    BY <1>1, <2>1, GoType DEF ExitService
  <2>3. term' \in [Slots -> Services \cup {None}]
    BY <1>1, <2>1 DEF ExitService, Set, TypeOK
  <2>4. sem' \in [Clients -> BOOLEAN]
    BY <1>1 DEF ExitService, Set, TypeOK
  <2> QED BY <1>1, <2>1, <2>2, <2>3, <2>4 DEF ExitService, TypeOK, thrVars, walkVars
<1>2. CASE SendExit(c)
  <2>1. srv[c] \in Services /\ srv' = srv /\ cpc[c] # "idle"
    BY <1>0, <1>2 DEF SendExit
  <2>2. cpc' \in [Clients -> Places] /\ \A d \in Clients : cpc'[d] # "idle" => srv'[d] \in Services
    BY <1>2, <2>1, GoType DEF SendExit
  <2>3. inbox' \in [Services -> Seq(Messages)]
    BY <1>2, <2>1, MsgType, SendType DEF SendExit, TypeOK
  <2> QED BY <1>2, <2>1, <2>2, <2>3 DEF SendExit, TypeOK, thrVars, walkVars
<1>3. CASE Waited(c)
  <2>1. srv[c] \in Services /\ srv' = srv /\ cpc[c] # "idle"
    BY <1>0, <1>3 DEF Waited
  <2>2. cpc' \in [Clients -> Places] /\ \A d \in Clients : cpc'[d] # "idle" => srv'[d] \in Services
    BY <1>3, <2>1, GoType DEF Waited, TypeOK
  <2>3. fault' \in BOOLEAN
    BY <1>3 DEF Waited, TypeOK
  <2>4. slot' = slot \/ \E x \in 1..NTerm : slot' = [slot EXCEPT ![c] = x]
    BY <1>3 DEF Waited, Set, Slots
  <2>5. slot' \in [Clients -> 0..NTerm]
    BY <1>9, <2>4, SlotType
  <2> QED BY <1>3, <2>1, <2>2, <2>3, <2>5 DEF Waited, TypeOK, thrVars, walkVars
<1>4. CASE Join(c)
  <2>1. srv[c] \in Services /\ srv' = srv /\ cpc[c] # "idle"
    BY <1>0, <1>4 DEF Join
  <2>2. cpc' \in [Clients -> Places] /\ \A d \in Clients : cpc'[d] # "idle" => srv'[d] \in Services
    BY <1>4, <2>1, GoType DEF Join, TypeOK
  <2>3. term' \in [Slots -> Services \cup {None}]
    BY <1>4 DEF Join, Set, TypeOK
  <2>4. slot' = slot \/ slot' = [slot EXCEPT ![c] = 0]
    BY <1>4 DEF Join, Set
  <2>5. slot' \in [Clients -> 0..NTerm]
    BY <1>9, <2>4, SlotType
  <2>6. result' \in [Clients -> BOOLEAN]
    BY <1>4 DEF Join, Set, TypeOK
  <2>7. fault' \in BOOLEAN
    BY <1>4 DEF Join, TypeOK
  <2> QED BY <1>4, <2>1, <2>2, <2>3, <2>5, <2>6, <2>7 DEF Join, TypeOK, thrVars, walkVars
<1> QED BY <1>1, <1>2, <1>3, <1>4

\* The steps of a notification (srv_manager_notify_service) keep the types.
LEMMA NotifyType ==
    ASSUME TypeOK, NEW c \in Clients, Tell(c) \/ Told(c) \/ Return(c)
    PROVE  TypeOK'
<1> USE DEF At, Messages, Places
<1>0. ASSUME cpc[c] # "idle" PROVE srv[c] \in Services
  BY <1>0 DEF TypeOK
<1>1. CASE Tell(c)
  <2>1. srv[c] \in Services /\ srv' = srv /\ cpc[c] # "idle"
    BY <1>0, <1>1 DEF Tell
  <2>2. cpc' \in [Clients -> Places] /\ \A d \in Clients : cpc'[d] # "idle" => srv'[d] \in Services
    BY <1>1, <2>1, GoType DEF Tell
  <2>3. inbox' \in [Services -> Seq(Messages)]
    BY <1>1, <2>1, MsgType, SendType DEF Tell, TypeOK
  <2>4. sem' \in [Clients -> BOOLEAN]
    BY <1>1 DEF Tell, Set, TypeOK
  <2> QED BY <1>1, <2>1, <2>2, <2>3, <2>4 DEF Tell, TypeOK, thrVars, walkVars
<1>2. CASE Told(c)
  <2>0. srv[c] \in Services /\ cpc[c] # "idle" /\ tmp[c] \in Services \cup {None}
    BY <1>0, <1>2 DEF Told, TypeOK
  <2>1. owed' \in [Clients -> SUBSET Services]
    BY <1>2 DEF Told, Set, TypeOK
  <2>2. CASE UNCHANGED <<srv, tmp>>
    <3>1. cpc' \in [Clients -> Places] /\ \A d \in Clients : cpc'[d] # "idle" => srv'[d] \in Services
      BY <1>2, <2>0, <2>2, GoType DEF Told, TypeOK
    <3>2. fault' \in BOOLEAN
      BY <1>2 DEF Told, TypeOK
    <3> QED BY <1>2, <2>1, <2>2, <3>1, <3>2 DEF Told, TypeOK, thrVars
  <2>3. CASE ~freed[c] /\ tmp[c] # None
    <3>1. /\ srv' = Set(srv, c, tmp[c]) /\ tmp' = Set(tmp, c, NextNode(tmp[c]))
          /\ Go(c, "tell") /\ fault' = fault
      BY <1>2, <2>3 DEF Told
    <3>2. /\ cpc' \in [Clients -> Places] /\ srv' \in [Clients -> Services \cup {None}]
          /\ \A d \in Clients : cpc'[d] # "idle" => srv'[d] \in Services
      BY <2>0, <2>3, <3>1, GoSrvType
    <3>3. tmp' \in [Clients -> Services \cup {None}]
      BY <3>1, NextNodeType DEF Set, TypeOK
    <3> QED BY <1>2, <2>1, <3>1, <3>2, <3>3 DEF Told, TypeOK, thrVars
  <2> QED BY <1>2, <2>2, <2>3 DEF Told, TypeOK
<1>3. CASE Return(c)
  <2>1. /\ cpc' \in [Clients -> Places] /\ srv' \in [Clients -> Services \cup {None}]
        /\ \A d \in Clients : cpc'[d] # "idle" => srv'[d] \in Services
    BY <1>3 DEF Return, Go, Set, TypeOK
  <2>2. /\ tmp' \in [Clients -> Services \cup {None}] /\ freed' \in [Clients -> BOOLEAN]
        /\ owed' \in [Clients -> SUBSET Services] /\ result' \in [Clients -> BOOLEAN]
    BY <1>3 DEF Return, Set, TypeOK
  <2> QED BY <1>3, <2>1, <2>2 DEF Return, TypeOK, thrVars
<1> QED BY <1>1, <1>2, <1>3

\* A call that begins keeps the types.
LEMMA CallType ==
    ASSUME TypeOK, NEW c \in Clients, Call(c)
    PROVE  TypeOK'
<1> USE DEF At, Messages, Places
<1>1. ASSUME NEW s \in Services, Start(c, s) \/ Stop(c, s)
      PROVE  TypeOK'
  <2>1. /\ cpc' \in [Clients -> Places] /\ srv' \in [Clients -> Services \cup {None}]
        /\ \A d \in Clients : cpc'[d] # "idle" => srv'[d] \in Services
    BY <1>1, GoSrvType DEF Start, Stop
  <2> QED BY <1>1, <2>1 DEF Start, Stop, TypeOK, thrVars, walkVars
<1>2. CASE Notify(c)
  <2>1. list \in Seq(Services) /\ list # <<>>
    BY <1>2 DEF Notify, TypeOK
  <2>2. list[1] \in Services
    BY <2>1
  <2>3. /\ cpc' \in [Clients -> Places] /\ srv' \in [Clients -> Services \cup {None}]
        /\ \A d \in Clients : cpc'[d] # "idle" => srv'[d] \in Services
    BY <1>2, <2>2, GoSrvType DEF Notify
  <2>4. Listed \subseteq Services
    BY <2>1 DEF Listed, Range
  <2>5. owed' \in [Clients -> SUBSET Services]
    BY <1>2, <2>4 DEF Notify, Set, TypeOK
  <2>6. tmp' \in [Clients -> Services \cup {None}]
    BY <1>2, NextNodeType DEF Notify, Set, TypeOK
  <2>7. freed' \in [Clients -> BOOLEAN]
    BY <1>2 DEF Notify, Set, TypeOK
  <2> QED BY <1>2, <2>3, <2>5, <2>6, <2>7 DEF Notify, TypeOK, thrVars
<1> QED BY <1>1, <1>2 DEF Call

\* The types are inductive.
LEMMA StepType == TypeOK /\ [Next]_vars => TypeOK'
<1> SUFFICES ASSUME TypeOK, [Next]_vars PROVE TypeOK'
  OBVIOUS
<1>1. CASE UNCHANGED vars
  BY <1>1 DEF TypeOK, vars
<1>2. CASE Next
  BY <1>2, ThreadType, CallType, StartType, StopType, NotifyType DEF Next, Continue
<1> QED BY <1>1, <1>2

\* Every variable always has its type, and a call under way is always about a
\* service: the unlocked walks of exit_service and notify_service included.
THEOREM TypeCorrect == Spec => []TypeOK
BY InitType, StepType, PTL DEF Spec

-----------------------------------------------------------------------------
(* The lists and the threads.                                              *)

Locking == {"append", "listen"}

\* No service is listed twice, listeners are listed, and between os_thread_create
\* and the release of srv_manager_mutex the starting client holds it: first with
\* the service in no list, then with it in the service list only.
ListInv ==
    /\ \A i, j \in 1..Len(list) : list[i] = list[j] => i = j
    /\ listeners \subseteq Listed
    /\ \A c \in Clients : cpc[c] \in Locking <=> mutex = c
    /\ \A c \in Clients : cpc[c] = "append" => srv[c] \notin Listed
    /\ \A c \in Clients : cpc[c] = "listen" => srv[c] \in Listed

\* The states of a thread that has not left the list.
Alive == {"loop", "exit"}

\* A thread that has not left the list is in it, or is just being listed by the
\* client that created it.
AliveInv ==
    \A s \in Services :
        /\ spc[s] # "clobbered"
        /\ spc[s] \in Alive => \/ s \in Listed
                               \/ \E c \in Clients : cpc[c] = "append" /\ srv[c] = s

\* A listed service, or one that is just being listed, has a thread.
NodeInv ==
    /\ \A s \in Listed : spc[s] \in Alive
    /\ \A c \in Clients : cpc[c] = "append" => spc[srv[c]] \in Alive

\* No new thread is about to be created while the old one works on.
StackFree ==
    \A c \in Clients : cpc[c] = "create" /\ srv[c] \notin Listed => spc[srv[c]] # "linger"

\* Listed holds services.
LEMMA ListedServices == TypeOK => Listed \subseteq Services
BY DEF TypeOK, Listed, Range

\* sys_slist_find_and_remove takes exactly one service off a list that has no
\* service twice.
LEMMA WithoutListed ==
    ASSUME TypeOK, ListInv, NEW i \in 1..Len(list), list' = Without(i)
    PROVE  /\ Listed' = Listed \ {list[i]}
           /\ \A k, l \in 1..Len(list') : list'[k] = list'[l] => k = l
<1> DEFINE n == Len(list)
<1>1. n \in Nat /\ list \in [1..n -> Services]
  BY DEF TypeOK
<1>2. Len(list') = n - 1 /\ list' \in Seq(Services)
      /\ \A j \in 1..(n - 1) : list'[j] = IF j < i THEN list[j] ELSE list[j + 1]
  BY WithoutType
<1>3. \A k, l \in 1..n : list[k] = list[l] => k = l
  BY DEF ListInv
<1>4. DOMAIN list = 1..n /\ DOMAIN list' = 1..(n - 1)
  BY <1>1, <1>2
<1>5. \A k, l \in 1..Len(list') : list'[k] = list'[l] => k = l
  BY <1>1, <1>2, <1>3
<1>6. ASSUME NEW x \in Listed \ {list[i]} PROVE x \in Listed'
  <2>1. PICK k \in 1..n : list[k] = x
    BY <1>4, <1>6 DEF Listed, Range
  <2>2. CASE k < i
    <3>1. k \in 1..(n - 1) /\ list'[k] = x
      BY <1>1, <1>2, <2>1, <2>2
    <3> QED BY <1>4, <3>1 DEF Listed, Range
  <2>3. CASE k > i
    <3>1. k - 1 \in 1..(n - 1) /\ list'[k - 1] = x
      BY <1>1, <1>2, <2>1, <2>3
    <3> QED BY <1>4, <3>1 DEF Listed, Range
  <2>4. k # i
    BY <1>6, <2>1
  <2> QED BY <2>1, <2>2, <2>3, <2>4
<1>7. ASSUME NEW x \in Listed' PROVE x \in Listed \ {list[i]}
  <2>1. PICK j \in 1..(n - 1) : list'[j] = x
    BY <1>4, <1>7 DEF Listed, Range
  <2>2. PICK k \in 1..n : list[k] = x /\ k # i
    BY <1>1, <1>2, <2>1
  <2>3. x \in Listed
    BY <1>4, <2>2 DEF Listed, Range
  <2>4. x # list[i]
    BY <1>3, <2>2
  <2> QED BY <2>3, <2>4
<1> QED BY <1>5, <1>6, <1>7

\* A step that leaves the lists, the mutex and the clients that hold it alone;
\* no thread begins, or leaves the list.
Quiet ==
    /\ UNCHANGED <<list, listeners, mutex>>
    /\ \A d \in Clients : cpc[d] \in Locking \/ cpc'[d] \in Locking =>
                             cpc'[d] = cpc[d] /\ srv'[d] = srv[d]
    /\ \A s \in Services : (spc'[s] \in Alive <=> spc[s] \in Alive)
    /\ \A s \in Services : spc'[s] = spc[s] \/ spc'[s] # "clobbered"

\* Such a step keeps the rules.
LEMMA QuietKeeps ==
    ASSUME TypeOK, Quiet, TypeOK'
    PROVE  /\ ListInv => ListInv'
           /\ AliveInv => AliveInv'
           /\ NodeInv => NodeInv'
<1>1. Listed' = Listed /\ Listed \subseteq Services
  BY ListedServices DEF Quiet, Listed
<1>2. ListInv => ListInv'
  BY <1>1 DEF Quiet, ListInv, Locking
<1>3. AliveInv => AliveInv'
  BY <1>1 DEF Quiet, AliveInv, Locking
<1>4. NodeInv => NodeInv'
  <2>1. \A c \in Clients : cpc[c] = "append" => srv[c] \in Services
    BY DEF TypeOK
  <2> QED BY <1>1, <2>1 DEF Quiet, NodeInv, Locking
<1> QED BY <1>2, <1>3, <1>4

\* Everything but the creation and listing of a thread and its end is such a
\* step.
LEMMA MostQuiet ==
    ASSUME TypeOK, TypeOK',
           \/ UNCHANGED vars
           \/ \E s \in Services : Handle(s) \/ ReceiveExit(s) \/ End(s)
           \/ \E c \in Clients :
                 \/ Call(c) \/ SendInit(c) \/ ExitService(c) \/ SendExit(c)
                 \/ Waited(c) \/ Join(c) \/ Tell(c) \/ Told(c) \/ Return(c)
                 \/ CreateFails(c)
    PROVE  Quiet
<1> USE DEF At, Go, Set, thrVars
<1>1. CASE UNCHANGED vars
  BY <1>1 DEF Quiet, vars
<1>2. ASSUME NEW s \in Services, Handle(s)
      PROVE  Quiet
  BY <1>2 DEF Handle, Quiet
<1>3. ASSUME NEW s \in Services, ReceiveExit(s)
      PROVE  Quiet
  BY <1>3 DEF ReceiveExit, Quiet, TypeOK, Alive
<1>4. ASSUME NEW s \in Services, End(s)
      PROVE  Quiet
  BY <1>4 DEF End, Quiet, TypeOK, Alive
<1>5. ASSUME NEW c \in Clients, Call(c)
      PROVE  Quiet
  <2>1. PICK p \in {"init", "create", "exit", "done", "tell"} : cpc' = [cpc EXCEPT ![c] = p]
    BY <1>5 DEF Call, Start, Stop, Notify
  <2>2. PICK v : srv' = [srv EXCEPT ![c] = v]
    BY <1>5 DEF Call, Start, Stop, Notify
  <2>3. UNCHANGED <<list, listeners, spc, mutex>> /\ cpc[c] = "idle"
    BY <1>5 DEF Call, Start, Stop, Notify
  <2> QED BY <2>1, <2>2, <2>3 DEF Quiet, Locking, TypeOK
<1>6. ASSUME NEW c \in Clients, SendInit(c) \/ ExitService(c) \/ SendExit(c)
      PROVE  Quiet
  BY <1>6 DEF SendInit, ExitService, SendExit, Quiet, Locking, TypeOK
<1>7. ASSUME NEW c \in Clients, Waited(c) \/ Join(c)
      PROVE  Quiet
  BY <1>7 DEF Waited, Join, Quiet, Locking, TypeOK
<1>8. ASSUME NEW c \in Clients, Tell(c) \/ Told(c)
      PROVE  Quiet
  BY <1>8 DEF Tell, Told, Quiet, Locking, TypeOK
<1>9. ASSUME NEW c \in Clients, Return(c)
      PROVE  Quiet
  BY <1>9 DEF Return, Quiet, Locking, TypeOK
<1>10. ASSUME NEW c \in Clients, CreateFails(c)
      PROVE  Quiet
  BY <1>10 DEF CreateFails, Quiet, Locking, TypeOK
<1> QED BY <1>1, <1>2, <1>3, <1>4, <1>5, <1>6, <1>7, <1>8, <1>9, <1>10

\* A new thread: nobody else holds the mutex, the service is not listed, so its
\* old thread has ended.
LEMMA CreateKeeps ==
    ASSUME TypeOK, ListInv, AliveInv, StackFree, NEW c \in Clients, CreateThread(c)
    PROVE  ListInv' /\ AliveInv' /\ (NodeInv => NodeInv')
<1> USE DEF At, Go, Set
<1>1. /\ mutex = None /\ srv[c] \notin Listed /\ mutex' = c /\ srv[c] \in Services
      /\ cpc' = [cpc EXCEPT ![c] = "append"] /\ cpc[c] = "create"
      /\ UNCHANGED <<list, listeners, srv>>
  BY DEF CreateThread, TypeOK
<1>2. \A d \in Clients : cpc[d] \notin Locking
  BY <1>1 DEF ListInv
<1>3. spc[srv[c]] = "dead"
  BY <1>1, <1>2 DEF AliveInv, Locking, Alive, StackFree, TypeOK
<1>4. spc' = [spc EXCEPT ![srv[c]] = "loop"]
  BY <1>3 DEF CreateThread
<1>5. Listed' = Listed /\ Listed \subseteq Services
  BY <1>1, ListedServices DEF Listed
<1>6. cpc'[c] = "append" /\ \A d \in Clients : d # c => cpc'[d] = cpc[d]
  BY <1>1 DEF TypeOK
<1>7. ListInv'
  BY <1>1, <1>2, <1>5, <1>6 DEF ListInv, Locking
<1>8. spc'[srv[c]] = "loop" /\ \A s \in Services : s # srv[c] => spc'[s] = spc[s]
  BY <1>1, <1>4 DEF TypeOK
<1>9. AliveInv'
  BY <1>1, <1>2, <1>5, <1>6, <1>8 DEF AliveInv, Locking
<1>10. NodeInv => NodeInv'
  BY <1>1, <1>2, <1>5, <1>6, <1>8 DEF NodeInv, Locking, Alive
<1> QED BY <1>7, <1>9, <1>10

\* The node is appended (sys_slist_append), under the mutex.
LEMMA AppendKeeps ==
    ASSUME TypeOK, ListInv, AliveInv, NEW c \in Clients, AppendNode(c)
    PROVE  ListInv' /\ AliveInv' /\ (NodeInv => NodeInv')
<1> USE DEF At, Go
<1>1. /\ cpc[c] = "append" /\ cpc' = [cpc EXCEPT ![c] = "listen"]
      /\ srv[c] \in Services /\ srv[c] \notin Listed
      /\ list' = Append(list, srv[c])
      /\ UNCHANGED <<listeners, mutex, spc, srv>>
  BY DEF AppendNode, TypeOK, ListInv
<1>2. mutex = c /\ \A d \in Clients : d # c => cpc[d] \notin Locking
  BY <1>1 DEF ListInv, Locking
<1>3. cpc'[c] = "listen" /\ \A d \in Clients : d # c => cpc'[d] = cpc[d]
  BY <1>1 DEF TypeOK
<1> DEFINE n == Len(list)
<1>4. n \in Nat /\ list \in [1..n -> Services]
  BY DEF TypeOK
<1>5. /\ Len(list') = n + 1 /\ list'[n + 1] = srv[c]
      /\ DOMAIN list = 1..n /\ DOMAIN list' = 1..(n + 1)
      /\ \A j \in 1..n : list'[j] = list[j]
  BY <1>1, <1>4 DEF TypeOK
<1>6. Listed' = Listed \cup {srv[c]}
  BY <1>4, <1>5 DEF Listed, Range
<1>7. \A j \in 1..n : list[j] # srv[c]
  BY <1>1, <1>5 DEF Listed, Range
<1>8. \A i, j \in 1..Len(list') : list'[i] = list'[j] => i = j
  <2>1. \A i, j \in 1..n : list[i] = list[j] => i = j
    BY DEF ListInv
  <2> QED BY <1>4, <1>5, <1>7, <2>1
<1>9. ListInv'
  BY <1>1, <1>2, <1>3, <1>6, <1>8 DEF ListInv, Locking
<1>10. AliveInv'
  BY <1>1, <1>2, <1>3, <1>6 DEF AliveInv, Locking
<1>11. NodeInv => NodeInv'
  BY <1>1, <1>2, <1>3, <1>6 DEF NodeInv, Locking
<1> QED BY <1>9, <1>10, <1>11

\* The listener is added and the mutex released.
LEMMA ListenKeeps ==
    ASSUME TypeOK, ListInv, AliveInv, NEW c \in Clients, Listen(c)
    PROVE  ListInv' /\ AliveInv' /\ (NodeInv => NodeInv')
<1> USE DEF At, Go
<1>1. /\ cpc[c] = "listen" /\ cpc' = [cpc EXCEPT ![c] = "init"] /\ mutex' = None
      /\ listeners' = listeners \cup {srv[c]} /\ UNCHANGED <<list, spc, srv>>
  BY DEF Listen
<1>2. mutex = c /\ \A d \in Clients : d # c => cpc[d] \notin Locking
  BY <1>1 DEF ListInv, Locking
<1>3. cpc'[c] = "init" /\ \A d \in Clients : d # c => cpc'[d] = cpc[d]
  BY <1>1 DEF TypeOK
<1>4. Listed' = Listed /\ srv[c] \in Listed
  BY <1>1 DEF Listed, ListInv
<1>5. ListInv'
  BY <1>1, <1>2, <1>3, <1>4 DEF ListInv, Locking
<1>6. AliveInv'
  BY <1>1, <1>2, <1>3, <1>4 DEF AliveInv, Locking
<1>7. NodeInv => NodeInv'
  BY <1>1, <1>2, <1>3, <1>4 DEF NodeInv, Locking
<1> QED BY <1>5, <1>6, <1>7

\* A thread leaves the lists and ends; if it is one that calls
\* srv_manager_thread_exit no node is left behind.
LEMMA ExitKeeps ==
    ASSUME TypeOK, ListInv, AliveInv, NEW s \in Services, Exit(s)
    PROVE  ListInv' /\ AliveInv' /\ (NodeInv /\ s \in Leaves => NodeInv')
<1> USE DEF Alive
<1>1. /\ UNCHANGED <<mutex, cpc, srv>> /\ spc[s] = "exit"
      /\ spc' = [spc EXCEPT ![s] = IF s \in Linger THEN "linger" ELSE "dead"]
  BY DEF Exit, Set
<1>2. spc'[s] \in {"linger", "dead"} /\ \A r \in Services : r # s => spc'[r] = spc[r]
  BY <1>1 DEF TypeOK
<1>3. Listed \subseteq Services
  BY ListedServices
<1>4. CASE s \in Leaves /\ s \in Listed
  <2>1. PICK i \in 1..Len(list) : list[i] = s /\ list' = Without(i)
    BY <1>4 DEF Exit, srv_manager_thread_exit, Unlisted
  <2>2. Listed' = Listed \ {s} /\ \A k, l \in 1..Len(list') : list'[k] = list'[l] => k = l
    BY <2>1, WithoutListed
  <2>3. mutex = None /\ listeners' = listeners \ {s}
    BY <1>4 DEF Exit, srv_manager_thread_exit
  <2>4. \A d \in Clients : cpc[d] \notin Locking
    BY <2>3 DEF ListInv
  <2>5. ListInv'
    BY <1>1, <2>2, <2>3, <2>4 DEF ListInv, Locking
  <2>6. AliveInv'
    BY <1>1, <1>2, <2>2, <2>4 DEF AliveInv, Locking
  <2>7. NodeInv => NodeInv'
    BY <1>1, <1>2, <1>3, <2>2, <2>4 DEF NodeInv, Locking
  <2> QED BY <2>5, <2>6, <2>7
<1>5. CASE s \notin Leaves \/ s \notin Listed
  <2>1. UNCHANGED <<list, listeners>>
    BY <1>5 DEF Exit, srv_manager_thread_exit
  <2>2. Listed' = Listed
    BY <2>1 DEF Listed
  <2>3. ListInv'
    BY <1>1, <2>1, <2>2 DEF ListInv, Locking
  <2>4. AliveInv'
    BY <1>1, <1>2, <2>2 DEF AliveInv
  <2>5. ASSUME NodeInv, s \in Leaves PROVE NodeInv'
    <3>1. mutex = None /\ s \notin Listed
      BY <1>5, <2>5 DEF Exit, srv_manager_thread_exit
    <3>2. \A d \in Clients : cpc[d] \notin Locking
      BY <3>1 DEF ListInv
    <3> QED BY <1>1, <1>2, <1>3, <2>2, <2>5, <3>1, <3>2 DEF NodeInv, Locking
  <2> QED BY <2>3, <2>4, <2>5
<1> QED BY <1>4, <1>5

\* The lists and the threads keep to these rules in every step.
LEMMA StepRuns ==
    ASSUME TypeOK, ListInv, AliveInv, StackFree, [Next]_vars
    PROVE  /\ ListInv' /\ AliveInv'
           /\ NodeInv /\ (\A s \in Services : spc[s] = "exit" => s \in Leaves) => NodeInv'
<1>0. TypeOK'
  BY StepType
<1>1. CASE Quiet
  BY <1>0, <1>1, QuietKeeps
<1>2. CASE \E s \in Services : Exit(s)
  BY <1>2, ExitKeeps DEF Exit
<1>3. CASE \E c \in Clients : CreateThread(c) \/ AppendNode(c) \/ Listen(c)
  BY <1>3, CreateKeeps, AppendKeeps, ListenKeeps
<1>4. Quiet \/ (\E s \in Services : Exit(s))
      \/ (\E c \in Clients : CreateThread(c) \/ AppendNode(c) \/ Listen(c))
  BY <1>0, MostQuiet DEF Next, Thread, Continue, Create
<1> QED BY <1>1, <1>2, <1>3, <1>4

\* They hold initially.
LEMMA InitRuns == Init => ListInv /\ AliveInv /\ NodeInv
<1> SUFFICES ASSUME Init PROVE ListInv /\ AliveInv /\ NodeInv
  OBVIOUS
<1>1. Listed = {} /\ Len(list) = 0
  BY DEF Init, Listed, Range
<1> QED BY <1>1 DEF Init, ListInv, AliveInv, NodeInv, Locking, Alive

-----------------------------------------------------------------------------
(* Threads that end as soon as they have left the list.                    *)

NoneLingers == \A s \in Services : spc[s] # "linger"

\* Without services that work on, no thread does.
LEMMA StepNoneLingers ==
    ASSUME Linger = {}, TypeOK, NoneLingers, [Next]_vars
    PROVE  NoneLingers'
<1> USE DEF NoneLingers, Set
<1>1. ASSUME NEW s \in Services, Thread(s) PROVE NoneLingers'
  BY <1>1 DEF Thread, Handle, ReceiveExit, Exit, End, thrVars, TypeOK
<1>2. ASSUME NEW c \in Clients, Call(c) PROVE NoneLingers'
  BY <1>2 DEF Call, Start, Stop, Notify, thrVars
<1>3. ASSUME NEW c \in Clients, Continue(c) PROVE NoneLingers'
  <2>1. CASE Create(c)
    BY <2>1 DEF Create, CreateFails, CreateThread, thrVars, TypeOK
  <2>2. CASE ~Create(c)
    BY <1>3, <2>2 DEF Continue, AppendNode, Listen, SendInit, ExitService, SendExit, Waited,
             Join, Tell, Told, Return, thrVars
  <2> QED BY <2>1, <2>2
<1> QED BY <1>1, <1>2, <1>3 DEF Next, vars

\* A thread that ends as soon as it has left the list is never overwritten:
\* however many clients start, stop and notify the service, os_thread_create
\* runs on its stack only after the old thread has ended
\* (srv_manager_check_stack_safe looks at the list alone).
THEOREM StackAlwaysExclusive ==
    ASSUME Linger = {}
    PROVE  Spec => []StackExclusive
<1> DEFINE Inv == ListInv /\ AliveInv /\ NoneLingers
<1>1. TypeOK /\ Inv => StackFree
  BY DEF NoneLingers, StackFree, TypeOK
<1>2. TypeOK /\ Inv /\ [Next]_vars => Inv'
  BY <1>1, StepRuns, StepNoneLingers
<1>3. Inv => StackExclusive
  BY DEF AliveInv, StackExclusive
<1>4. Init => Inv
  BY InitRuns DEF Init, NoneLingers
<1> QED BY <1>2, <1>3, <1>4, TypeCorrect, PTL DEF Spec

\* If, besides, every service calls srv_manager_thread_exit when it is told to
\* exit, a service that is listed, or has a listener, always has a thread that
\* receives its messages.
THEOREM ListedAlwaysRuns ==
    ASSUME Linger = {}, Leaves = Services
    PROVE  Spec => []ListedRuns
<1> DEFINE Inv == ListInv /\ AliveInv /\ NodeInv /\ NoneLingers
<1>1. TypeOK /\ Inv => StackFree
  BY DEF NoneLingers, StackFree, TypeOK
<1>2. TypeOK /\ Inv /\ [Next]_vars => Inv'
  BY <1>1, StepRuns, StepNoneLingers
<1>3. TypeOK /\ Inv => ListedRuns
  BY DEF ListInv, NodeInv, ListedRuns, Alive
<1>4. Init => Inv
  BY InitRuns DEF Init, NoneLingers
<1> QED BY <1>2, <1>3, <1>4, TypeCorrect, PTL DEF Spec
-----------------------------------------------------------------------------
(* Services that one client owns.  A service that is ever stopped calls    *)
(* srv_manager_thread_exit, and the client that stops it is the only one   *)
(* that stops services and the only one that starts this one; k_thread_join *)
(* does not time out.                                                      *)

Owned(m) ==
    /\ JoinTimeout = FALSE
    /\ \A s \in Services : Exiters[s] \subseteq {m}
    /\ \A s \in Services : Exiters[s] # {} => Starters[s] \subseteq {m} /\ s \in Leaves

Starting == {"create", "append", "listen", "init"}
Stopping == {"exit", "send", "wait", "join", "exited"}

\* A service is started by its starters and stopped by its exiters.
RoleInv ==
    \A c \in Clients :
        /\ cpc[c] \in Starting => c \in Starters[srv[c]]
        /\ cpc[c] \in Stopping => c \in Exiters[srv[c]]

\* An exit message is pending at the service or has been received.
Pend(s) ==
    \/ spc[s] = "exit"
    \/ \E j \in 1..Len(inbox[s]) : inbox[s][j].type = "exit"

\* The owner has at most one message pending, which it waits for.
MailInv(m) ==
    /\ \A s \in Services : \A j \in 1..Len(inbox[s]) :
          inbox[s][j].type = "exit" => inbox[s][j].from = m
    /\ \A s \in Services : \A j \in 1..Len(inbox[s]) :
          inbox[s][j].from = m =>
             /\ ~sem[m]
             /\ inbox[s][j].type = "exit" => cpc[m] = "wait" /\ srv[m] = s
             /\ inbox[s][j].type # "exit" => cpc[m] = "told"
    /\ \A s, r \in Services : \A i \in 1..Len(inbox[s]), j \in 1..Len(inbox[r]) :
          inbox[s][i].from = m /\ inbox[r][j].from = m => s = r /\ i = j
    /\ cpc[m] = "send" => ~sem[m]

\* From the exit message to the end of the thread the owner waits, and it joins
\* the thread of the service it stops.
StopInv(m) ==
    /\ \A s \in Services : Pend(s) =>
          cpc[m] = "wait" /\ srv[m] = s /\ ~sem[m] /\ s \in Listed
    /\ \A s \in Services : spc[s] = "linger" => cpc[m] \in {"wait", "join"} /\ srv[m] = s
    /\ cpc[m] = "join" => slot[m] \in Slots /\ term[slot[m]] = srv[m]
    /\ cpc[m] = "exited" => spc[srv[m]] = "dead"

OwnInv(m) == RoleInv /\ MailInv(m) /\ StopInv(m)

\* The messages at a service.
LEMMA InboxType ==
    ASSUME TypeOK, NEW s \in Services
    PROVE  /\ inbox[s] \in Seq(Messages) /\ Len(inbox[s]) \in Nat
           /\ \A j \in 1..Len(inbox[s]) : inbox[s][j] \in Messages
<1>1. inbox[s] \in Seq(Messages)
  BY DEF TypeOK, Messages
<1> QED BY <1>1

\* What a send does to the inboxes.
LEMMA SendQueue ==
    ASSUME TypeOK, NEW s \in Services, NEW x \in Messages, Send(s, x)
    PROVE  /\ \A r \in Services : r # s => inbox'[r] = inbox[r]
           /\ Len(inbox[s]) \in Nat /\ Len(inbox'[s]) = Len(inbox[s]) + 1
           /\ inbox'[s][Len(inbox[s]) + 1] = x
           /\ \A j \in 1..Len(inbox[s]) : inbox'[s][j] = inbox[s][j]
<1>1. inbox[s] \in Seq(Messages)
  BY InboxType
<1>2. inbox'[s] = Append(inbox[s], x) /\ \A r \in Services : r # s => inbox'[r] = inbox[r]
  BY DEF Send, TypeOK
<1> QED BY <1>1, <1>2

\* The tail of a sequence.
LEMMA TailFacts ==
    ASSUME NEW T, NEW q \in Seq(T), q # <<>>
    PROVE  /\ Len(q) \in Nat \ {0} /\ Len(Tail(q)) = Len(q) - 1
           /\ Head(q) = q[1] /\ 1 \in 1..Len(q)
           /\ \A j \in 1..Len(Tail(q)) : j + 1 \in 1..Len(q) /\ Tail(q)[j] = q[j + 1]
<1>1. Len(q) \in Nat \ {0} /\ Head(q) = q[1] /\ Len(Tail(q)) = Len(q) - 1
  OBVIOUS
<1>2. \A j \in 1..(Len(q) - 1) : j + 1 \in 1..Len(q) /\ Tail(q)[j] = q[j + 1]
  BY <1>1
<1> QED BY <1>1, <1>2

\* What a receive does to them.
LEMMA TakeQueue ==
    ASSUME TypeOK, NEW s \in Services, inbox[s] # <<>>,
           inbox' = [inbox EXCEPT ![s] = Tail(@)]
    PROVE  /\ \A r \in Services : r # s => inbox'[r] = inbox[r]
           /\ Len(inbox[s]) \in Nat \ {0} /\ Len(inbox'[s]) = Len(inbox[s]) - 1
           /\ Head(inbox[s]) = inbox[s][1] /\ 1 \in 1..Len(inbox[s])
           /\ \A j \in 1..Len(inbox'[s]) :
                 j + 1 \in 1..Len(inbox[s]) /\ inbox'[s][j] = inbox[s][j + 1]
<1>1. inbox[s] \in Seq(Messages)
  BY InboxType
<1>2. inbox'[s] = Tail(inbox[s]) /\ \A r \in Services : r # s => inbox'[r] = inbox[r]
  BY DEF TypeOK
<1>3. /\ Len(inbox[s]) \in Nat \ {0} /\ Len(Tail(inbox[s])) = Len(inbox[s]) - 1
      /\ Head(inbox[s]) = inbox[s][1] /\ 1 \in 1..Len(inbox[s])
      /\ \A j \in 1..Len(Tail(inbox[s])) :
            j + 1 \in 1..Len(inbox[s]) /\ Tail(inbox[s])[j] = inbox[s][j + 1]
  BY <1>1, TailFacts, Zenon
<1>4. \A j \in 1..Len(inbox'[s]) :
            j + 1 \in 1..Len(inbox[s]) /\ inbox'[s][j] = inbox[s][j + 1]
  BY <1>2, <1>3, Zenon
<1> QED BY <1>2, <1>3, <1>4, Zenon

\* Every call keeps to its role.
LEMMA StepRole ==
    ASSUME TypeOK, RoleInv, [Next]_vars
    PROVE  RoleInv'
<1> USE DEF Go, Set, At
<1>1. ASSUME UNCHANGED <<cpc, srv>> PROVE RoleInv'
  BY <1>1 DEF RoleInv
<1>2. ASSUME NEW c \in Clients, NEW p, cpc' = [cpc EXCEPT ![c] = p],
             \A d \in Clients : d # c => srv'[d] = srv[d],
             p \in Starting => c \in Starters[srv'[c]],
             p \in Stopping => c \in Exiters[srv'[c]]
      PROVE  RoleInv'
  BY <1>2 DEF RoleInv, TypeOK
<1>3. ASSUME NEW s \in Services, Thread(s) PROVE RoleInv'
  BY <1>1, <1>3 DEF Thread, Handle, ReceiveExit, Exit, End
<1>4. ASSUME NEW c \in Clients, Call(c) PROVE RoleInv'
  <2>1. ASSUME NEW s \in Services, c \in Starters[s], Start(c, s) PROVE RoleInv'
    <3>1. srv'[c] = s /\ \A d \in Clients : d # c => srv'[d] = srv[d]
      BY <2>1 DEF Start, TypeOK
    <3>2. cpc' = [cpc EXCEPT ![c] = IF s \in Listed THEN "init" ELSE "create"]
      BY <2>1 DEF Start
    <3>3. "init" \notin Stopping /\ "create" \notin Stopping
      BY DEF Stopping
    <3> QED BY <1>2, <2>1, <3>1, <3>2, <3>3
  <2>2. ASSUME NEW s \in Services, c \in Exiters[s], Stop(c, s) PROVE RoleInv'
    <3>1. srv'[c] = s /\ \A d \in Clients : d # c => srv'[d] = srv[d]
      BY <2>2 DEF Stop, TypeOK
    <3>2. cpc' = [cpc EXCEPT ![c] = IF s \in Listed THEN "exit" ELSE "done"]
      BY <2>2 DEF Stop
    <3>3. "exit" \notin Starting /\ "done" \notin Starting
      BY DEF Starting
    <3> QED BY <1>2, <2>2, <3>1, <3>2, <3>3
  <2>3. ASSUME Notify(c) PROVE RoleInv'
    <3>1. cpc' = [cpc EXCEPT ![c] = "tell"] /\ \A d \in Clients : d # c => srv'[d] = srv[d]
      BY <2>3 DEF Notify, TypeOK
    <3> QED BY <1>2, <3>1 DEF Starting, Stopping
  <2> QED BY <1>4, <2>1, <2>2, <2>3 DEF Call
<1>5. ASSUME NEW c \in Clients, Continue(c) PROVE RoleInv'
  <2>1. ASSUME srv' = srv,
               \/ UNCHANGED cpc
               \/ cpc' = [cpc EXCEPT ![c] = "done"]
               \/ cpc[c] \in Starting /\ \E p \in Starting : cpc' = [cpc EXCEPT ![c] = p]
               \/ cpc[c] \in Stopping /\ \E p \in Stopping : cpc' = [cpc EXCEPT ![c] = p]
        PROVE  RoleInv'
    <3>1. cpc[c] \in Starting => c \in Starters[srv[c]]
      BY DEF RoleInv
    <3>2. cpc[c] \in Stopping => c \in Exiters[srv[c]]
      BY DEF RoleInv
    <3>3. Starting \cap Stopping = {} /\ "done" \notin Starting \cup Stopping
      BY DEF Starting, Stopping
    <3> QED BY <1>1, <1>2, <2>1, <3>1, <3>2, <3>3
  <2>2. CASE Create(c) \/ AppendNode(c) \/ Listen(c) \/ SendInit(c)
    BY <2>1, <2>2 DEF Create, CreateFails, CreateThread, AppendNode, Listen, SendInit, Starting
  <2>3. CASE ExitService(c) \/ SendExit(c) \/ Waited(c) \/ Join(c)
    BY <2>1, <2>3 DEF ExitService, SendExit, Waited, Join, Stopping
  <2>4. CASE Tell(c)
    BY <1>2, <2>4 DEF Tell, Starting, Stopping
  <2>5. CASE Told(c) \/ Return(c)
    <3>1. /\ \A d \in Clients : d # c => srv'[d] = srv[d]
          /\ \/ UNCHANGED <<cpc, srv>>
             \/ \E p \in {"notified", "tell", "idle"} : cpc' = [cpc EXCEPT ![c] = p]
      BY <2>5 DEF Told, Return, TypeOK
    <3> QED BY <1>1, <1>2, <3>1 DEF Starting, Stopping
  <2> QED BY <1>5, <2>2, <2>3, <2>4, <2>5 DEF Continue
<1> QED BY <1>1, <1>3, <1>4, <1>5 DEF Next, vars

\* The owner of a service that is being stopped.
LEMMA OwnerStops ==
    ASSUME TypeOK, NEW m \in Clients, Owned(m), RoleInv, NEW c \in Clients, cpc[c] \in Stopping
    PROVE  /\ c = m /\ srv[c] \in Services /\ srv[c] \in Leaves
           /\ \A d \in Clients : cpc[d] \in Starting => srv[d] # srv[c]
<1>1. cpc[c] # "idle" /\ c \in Exiters[srv[c]]
  BY DEF Stopping, RoleInv
<1>2. srv[c] \in Services
  BY <1>1 DEF TypeOK
<1>3. c = m /\ Starters[srv[c]] \subseteq {m} /\ srv[c] \in Leaves
  BY <1>1, <1>2 DEF Owned
<1>4. cpc[m] \notin Starting
  BY <1>3 DEF Starting, Stopping
<1> QED BY <1>2, <1>3, <1>4 DEF RoleInv

-----------------------------------------------------------------------------
(* The owner's messages.                                                   *)

\* No message waits for an answer to the owner, and none ends a thread.
NoMail(m) ==
    \A s \in Services : \A j \in 1..Len(inbox[s]) :
        inbox[s][j].type # "exit" /\ inbox[s][j].from # m

\* Every inbox stays as it is, or gets a message that is not the owner's.
InboxCalm(m) ==
    \A s \in Services :
        \/ inbox'[s] = inbox[s]
        \/ /\ Len(inbox'[s]) = Len(inbox[s]) + 1
           /\ \A j \in 1..Len(inbox[s]) : inbox'[s][j] = inbox[s][j]
           /\ inbox'[s][Len(inbox[s]) + 1].type # "exit"
           /\ inbox'[s][Len(inbox[s]) + 1].from # m

\* Which messages of the owner's there are.
LEMMA CalmInbox ==
    ASSUME TypeOK, NEW m \in Clients, InboxCalm(m), NEW s \in Services,
           NEW j \in 1..Len(inbox'[s]),
           inbox'[s][j].type = "exit" \/ inbox'[s][j].from = m
    PROVE  j \in 1..Len(inbox[s]) /\ inbox'[s][j] = inbox[s][j]
<1>1. Len(inbox[s]) \in Nat
  BY InboxType
<1> QED BY <1>1 DEF InboxCalm

\* Away from its two waits the owner has no message pending.
LEMMA FreeMail ==
    ASSUME NEW m \in Clients, MailInv(m), cpc[m] \notin {"wait", "told"} \/ sem[m]
    PROVE  NoMail(m)
BY DEF MailInv, NoMail

\* A step in which nothing happens to the owner or its messages.
LEMMA MailCalm ==
    ASSUME TypeOK, NEW m \in Clients, MailInv(m), InboxCalm(m),
           cpc'[m] = cpc[m], srv'[m] = srv[m], sem'[m] = sem[m]
    PROVE  MailInv(m)'
<1>1. ASSUME NEW s \in Services, NEW j \in 1..Len(inbox'[s]),
             inbox'[s][j].type = "exit" \/ inbox'[s][j].from = m
      PROVE  j \in 1..Len(inbox[s]) /\ inbox'[s][j] = inbox[s][j]
  BY <1>1, CalmInbox
<1>2. \A s \in Services : \A j \in 1..Len(inbox'[s]) :
         inbox'[s][j].type = "exit" => inbox'[s][j].from = m
  BY <1>1 DEF MailInv
<1>3. ASSUME NEW s \in Services, NEW j \in 1..Len(inbox'[s]), inbox'[s][j].from = m
      PROVE  /\ ~sem'[m]
             /\ inbox'[s][j].type = "exit" => cpc'[m] = "wait" /\ srv'[m] = s
             /\ inbox'[s][j].type # "exit" => cpc'[m] = "told"
  BY <1>1, <1>3 DEF MailInv
<1>4. ASSUME NEW s \in Services, NEW r \in Services,
             NEW i \in 1..Len(inbox'[s]), NEW j \in 1..Len(inbox'[r]),
             inbox'[s][i].from = m, inbox'[r][j].from = m
      PROVE  s = r /\ i = j
  BY <1>1, <1>4 DEF MailInv
<1>5. cpc'[m] = "send" => ~sem'[m]
  BY DEF MailInv
<1> QED BY <1>2, <1>3, <1>4, <1>5 DEF MailInv

\* A step of the owner without messages.
LEMMA MailNone ==
    ASSUME TypeOK, NEW m \in Clients, NoMail(m), InboxCalm(m), cpc'[m] = "send" => ~sem'[m]
    PROVE  MailInv(m)'
<1>1. ASSUME NEW s \in Services, NEW j \in 1..Len(inbox'[s])
      PROVE  inbox'[s][j].type # "exit" /\ inbox'[s][j].from # m
  BY <1>1, CalmInbox DEF NoMail
<1> QED BY <1>1 DEF MailInv

\* The owner sends a message and waits for its answer.
LEMMA MailSent ==
    ASSUME TypeOK, NEW m \in Clients, NoMail(m), NEW r \in Services, NEW x \in Messages,
           Send(r, x), x.from = m, ~sem'[m],
           x.type = "exit" => cpc'[m] = "wait" /\ srv'[m] = r,
           x.type # "exit" => cpc'[m] = "told"
    PROVE  MailInv(m)'
<1> DEFINE n == Len(inbox[r]) + 1
<1>1. ASSUME NEW s \in Services, NEW j \in 1..Len(inbox'[s]),
             inbox'[s][j].type = "exit" \/ inbox'[s][j].from = m
      PROVE  s = r /\ j = n /\ inbox'[s][j] = x
  <2>1. s = r /\ j \notin 1..Len(inbox[r])
    BY <1>1, SendQueue DEF NoMail
  <2> QED BY <1>1, <2>1, SendQueue
<1> HIDE DEF n
<1> QED BY <1>1 DEF MailInv

\* A message is taken off an inbox.
LEMMA MailTaken ==
    ASSUME TypeOK, NEW m \in Clients, MailInv(m), NEW r \in Services, inbox[r] # <<>>,
           inbox' = [inbox EXCEPT ![r] = Tail(@)], cpc' = cpc, srv' = srv,
           Head(inbox[r]).from # m => sem'[m] = sem[m],
           cpc[m] = "send" => Head(inbox[r]).from # m
    PROVE  MailInv(m)'
<1> DEFINE k(s, j) == IF s = r THEN j + 1 ELSE j
<1>1. ASSUME NEW s \in Services, NEW j \in 1..Len(inbox'[s])
      PROVE  k(s, j) \in 1..Len(inbox[s]) /\ inbox'[s][j] = inbox[s][k(s, j)]
  <2>0. /\ \A j0 \in 1..Len(inbox'[r]) :
              j0 + 1 \in 1..Len(inbox[r]) /\ inbox'[r][j0] = inbox[r][j0 + 1]
        /\ \A s0 \in Services : s0 # r => inbox'[s0] = inbox[s0]
    BY TakeQueue, Zenon
  <2>1. CASE s = r
    BY <1>1, <2>0, <2>1
  <2>2. CASE s # r
    BY <1>1, <2>0, <2>2
  <2> QED BY <2>1, <2>2
<1>2. ASSUME NEW s \in Services, NEW j \in 1..Len(inbox'[s]) PROVE j \in Int
  BY <1>2
<1>3. CASE Head(inbox[r]).from = m
  <2>1. 1 \in 1..Len(inbox[r]) /\ inbox[r][1].from = m
    BY <1>3, TakeQueue
  <2>2. ASSUME NEW s \in Services, NEW j \in 1..Len(inbox'[s])
        PROVE  inbox'[s][j].from # m /\ inbox'[s][j].type # "exit"
    <3>1. inbox'[s][j].from # m
      <4>1. SUFFICES ASSUME inbox'[s][j].from = m PROVE FALSE
        OBVIOUS
      <4>2. s = r /\ k(s, j) = 1
        BY <1>1, <2>1, <4>1 DEF MailInv
      <4> QED BY <4>2
    <3> QED BY <1>1, <3>1 DEF MailInv
  <2> QED BY <1>3, <2>2 DEF MailInv
<1>4. CASE Head(inbox[r]).from # m
  <2>1. sem'[m] = sem[m]
    BY <1>4
  <2>2. \A s, t \in Services : \A i \in 1..Len(inbox[s]), j \in 1..Len(inbox[t]) :
           inbox[s][i].from = m /\ inbox[t][j].from = m => s = t /\ i = j
    BY DEF MailInv
  <2> HIDE DEF k
  <2>3. ASSUME NEW s \in Services, NEW t \in Services,
               NEW i \in 1..Len(inbox'[s]), NEW j \in 1..Len(inbox'[t]),
               inbox'[s][i].from = m, inbox'[t][j].from = m
        PROVE  s = t /\ i = j
    <3>0. /\ k(s, i) \in 1..Len(inbox[s]) /\ inbox[s][k(s, i)].from = m
          /\ k(t, j) \in 1..Len(inbox[t]) /\ inbox[t][k(t, j)].from = m
      BY <1>1, <2>3
    <3>1. s = t /\ k(s, i) = k(t, j)
      BY <2>2, <3>0
    <3>2. i \in Int /\ j \in Int
      BY <1>2
    <3> QED BY <3>1, <3>2 DEF k
  <2>4. \A s \in Services : \A j \in 1..Len(inbox'[s]) :
           inbox'[s][j].type = "exit" => inbox'[s][j].from = m
    BY <1>1 DEF MailInv
  <2>5. ASSUME NEW s \in Services, NEW j \in 1..Len(inbox'[s]), inbox'[s][j].from = m
        PROVE  /\ ~sem'[m]
               /\ inbox'[s][j].type = "exit" => cpc'[m] = "wait" /\ srv'[m] = s
               /\ inbox'[s][j].type # "exit" => cpc'[m] = "told"
    BY <1>1, <2>1, <2>5 DEF MailInv
  <2>6. cpc'[m] = "send" => ~sem'[m]
    BY <2>1 DEF MailInv
  <2> QED BY <2>3, <2>4, <2>5, <2>6 DEF MailInv
<1> QED BY <1>3, <1>4
-----------------------------------------------------------------------------
(* The owner's stops.                                                      *)

\* A client's step makes no thread exit or work on.
ThreadsCalm == \A s \in Services : spc'[s] \in {"exit", "linger"} => spc'[s] = spc[s]

\* A step that sends no exit message and makes no thread exit.
LEMMA CalmPend ==
    ASSUME TypeOK, NEW m \in Clients, InboxCalm(m), NEW s \in Services,
           spc'[s] = "exit" => spc[s] = "exit", Pend(s)'
    PROVE  Pend(s)
BY CalmInbox DEF Pend

\* Away from its wait the owner has asked no thread to end.
LEMMA FreeStop ==
    ASSUME TypeOK, NEW m \in Clients, StopInv(m), cpc[m] # "wait" \/ sem[m]
    PROVE  \A s \in Services : ~Pend(s)
BY DEF StopInv

\* A step in which nothing happens to the owner or the thread it stops.
LEMMA StopCalm ==
    ASSUME TypeOK, NEW m \in Clients, StopInv(m), InboxCalm(m), ThreadsCalm,
           cpc'[m] = cpc[m], srv'[m] = srv[m], sem'[m] = sem[m], slot'[m] = slot[m],
           term' = term, Listed \subseteq Listed',
           cpc[m] = "exited" => spc'[srv[m]] = spc[srv[m]]
    PROVE  StopInv(m)'
<1>1. ASSUME NEW s \in Services, Pend(s)'
      PROVE  cpc'[m] = "wait" /\ srv'[m] = s /\ ~sem'[m] /\ s \in Listed'
  <2>1. Pend(s)
    BY <1>1, CalmPend DEF ThreadsCalm
  <2> QED BY <2>1 DEF StopInv
<1>2. ASSUME NEW s \in Services, spc'[s] = "linger"
      PROVE  cpc'[m] \in {"wait", "join"} /\ srv'[m] = s
  BY <1>2 DEF StopInv, ThreadsCalm
<1>3. cpc'[m] = "join" => slot'[m] \in Slots /\ term'[slot'[m]] = srv'[m]
  BY DEF StopInv
<1>4. cpc'[m] = "exited" => spc'[srv'[m]] = "dead"
  BY DEF StopInv
<1> QED BY <1>1, <1>2, <1>3, <1>4 DEF StopInv

\* A step of the owner while no thread ends.
LEMMA StopNone ==
    ASSUME TypeOK, NEW m \in Clients, \A s \in Services : ~Pend(s) /\ spc[s] # "linger",
           InboxCalm(m), ThreadsCalm, cpc'[m] \notin {"join", "exited"}
    PROVE  StopInv(m)'
<1>1. ASSUME NEW s \in Services PROVE ~Pend(s)'
  BY <1>1, CalmPend DEF ThreadsCalm
<1>2. \A s \in Services : spc'[s] # "linger"
  BY DEF ThreadsCalm
<1> QED BY <1>1, <1>2 DEF StopInv

\* A message without a callback, or another client's.
LEMMA SendCalm ==
    ASSUME TypeOK, NEW m \in Clients, NEW s \in Services,
           NEW x \in Messages, x.type # "exit", x.from # m,
           Send(s, x) \/ UNCHANGED inbox
    PROVE  InboxCalm(m)
<1>1. CASE Send(s, x)
  BY <1>1, SendQueue DEF InboxCalm
<1>2. CASE UNCHANGED inbox
  BY <1>2 DEF InboxCalm
<1> QED BY <1>1, <1>2

\* A step of a client that is not stopping a service.
Beside(m, c) ==
    /\ InboxCalm(m) /\ ThreadsCalm /\ term' = term /\ Listed \subseteq Listed'
    /\ cpc'[c] \notin {"join", "exited", "send", "wait"}
    /\ \A d \in Clients : d # c =>
          cpc'[d] = cpc[d] /\ srv'[d] = srv[d] /\ sem'[d] = sem[d] /\ slot'[d] = slot[d]
    /\ \A s \in Services : spc'[s] = spc[s] \/ (cpc[c] = "create" /\ srv[c] = s)

\* Most steps of other clients are beside the owner's calls.
LEMMA MostBeside ==
    ASSUME TypeOK, NEW m \in Clients, NEW c \in Clients, Call(c) \/ Continue(c),
           cpc[c] \notin {"exit", "send", "wait", "join"}, c # m \/ cpc[c] # "tell"
    PROVE  Beside(m, c)
<1> USE DEF At, Go, Set
<1>0. ASSUME UNCHANGED list PROVE Listed \subseteq Listed'
  BY <1>0 DEF Listed
<1>1. ASSUME UNCHANGED <<inbox, list, spc, term>>,
             cpc'[c] \notin {"join", "exited", "send", "wait"},
             \A d \in Clients : d # c =>
               cpc'[d] = cpc[d] /\ srv'[d] = srv[d] /\ sem'[d] = sem[d] /\ slot'[d] = slot[d]
      PROVE  Beside(m, c)
  BY <1>0, <1>1 DEF Beside, InboxCalm, ThreadsCalm
<1>2. ASSUME NEW s \in Services, Start(c, s) \/ Stop(c, s) PROVE Beside(m, c)
  <2>1. UNCHANGED <<inbox, list, spc, term, sem, slot>>
    BY <1>2 DEF Start, Stop, thrVars
  <2>2. cpc'[c] \notin {"join", "exited", "send", "wait"}
        /\ \A d \in Clients : d # c => cpc'[d] = cpc[d] /\ srv'[d] = srv[d]
    BY <1>2 DEF Start, Stop, TypeOK
  <2> QED BY <1>1, <2>1, <2>2
<1>3. CASE Notify(c) \/ Told(c) \/ Return(c)
  <2>1. UNCHANGED <<inbox, list, spc, term, sem, slot>>
    BY <1>3 DEF Notify, Told, Return, thrVars
  <2>2. cpc'[c] \notin {"join", "exited", "send", "wait"}
        /\ \A d \in Clients : d # c => cpc'[d] = cpc[d] /\ srv'[d] = srv[d]
    BY <1>3 DEF Notify, Told, Return, TypeOK
  <2> QED BY <1>1, <2>1, <2>2
<1>4. CASE Create(c)
  <2>1. UNCHANGED <<inbox, list, term, sem, slot, srv>>
    BY <1>4 DEF Create, CreateFails, CreateThread, thrVars
  <2>2. cpc'[c] \in {"done", "append"} /\ \A d \in Clients : d # c => cpc'[d] = cpc[d]
    BY <1>4 DEF Create, CreateFails, CreateThread, TypeOK
  <2>3. cpc[c] = "create" /\ srv[c] \in Services
    BY <1>4 DEF Create, CreateFails, CreateThread, TypeOK
  <2>4. spc' = spc \/ \E p \in {"loop", "clobbered"} : spc' = [spc EXCEPT ![srv[c]] = p]
    BY <1>4 DEF Create, CreateFails, CreateThread, thrVars
  <2>5. \A s \in Services : \/ spc'[s] = spc[s]
                            \/ srv[c] = s /\ spc'[s] \in {"loop", "clobbered"}
    BY <2>3, <2>4 DEF TypeOK
  <2> QED BY <1>0, <2>1, <2>2, <2>3, <2>5 DEF Beside, InboxCalm, ThreadsCalm
<1>5. CASE AppendNode(c)
  <2>1. UNCHANGED <<inbox, term, sem, slot, srv, spc>>
    BY <1>5 DEF AppendNode
  <2>2. cpc'[c] = "listen" /\ \A d \in Clients : d # c => cpc'[d] = cpc[d]
    BY <1>5 DEF AppendNode, TypeOK
  <2>3. Listed \subseteq Listed'
    <3>1. list' = Append(list, srv[c]) /\ list \in Seq(Services) /\ srv[c] \in Services
      BY <1>5 DEF AppendNode, TypeOK
    <3>2. Len(list') = Len(list) + 1 /\ \A j \in 1..Len(list) : list'[j] = list[j]
      BY <3>1
    <3>3. DOMAIN list = 1..Len(list) /\ DOMAIN list' = 1..(Len(list) + 1) /\ Len(list) \in Nat
      BY <3>1
    <3> QED BY <3>2, <3>3 DEF Listed, Range
  <2> QED BY <2>1, <2>2, <2>3 DEF Beside, InboxCalm, ThreadsCalm
<1>6. CASE Listen(c)
  <2>1. UNCHANGED <<inbox, list, spc, term, sem, slot, srv>>
    BY <1>6 DEF Listen
  <2>2. cpc'[c] = "init" /\ \A d \in Clients : d # c => cpc'[d] = cpc[d]
    BY <1>6 DEF Listen, TypeOK
  <2> QED BY <1>1, <2>1, <2>2
<1>7. CASE SendInit(c)
  <2>1. UNCHANGED <<list, spc, term, sem, slot, srv>> /\ srv[c] \in Services
    BY <1>7 DEF SendInit, thrVars, TypeOK
  <2>2. cpc'[c] = "done" /\ \A d \in Clients : d # c => cpc'[d] = cpc[d]
    BY <1>7 DEF SendInit, TypeOK
  <2>3. /\ Msg("init", None) \in Messages
        /\ Msg("init", None).type # "exit" /\ Msg("init", None).from # m
    BY DEF Msg, Messages
  <2>4. InboxCalm(m)
    BY <1>7, <2>1, <2>3, SendCalm DEF SendInit
  <2> QED BY <1>0, <2>1, <2>2, <2>4 DEF Beside, ThreadsCalm
<1>8. CASE Tell(c)
  <2>1. UNCHANGED <<list, spc, term, slot, srv>> /\ srv[c] \in Services /\ c # m
    BY <1>8 DEF Tell, thrVars, TypeOK
  <2>2. cpc'[c] \in {"told", "notified"}
        /\ \A d \in Clients : d # c => cpc'[d] = cpc[d] /\ sem'[d] = sem[d]
    BY <1>8 DEF Tell, TypeOK
  <2>3. /\ Msg("notify", c) \in Messages
        /\ Msg("notify", c).type # "exit" /\ Msg("notify", c).from # m
    BY <2>1 DEF Msg, Messages
  <2>4. InboxCalm(m)
    BY <1>8, <2>1, <2>3, SendCalm DEF Tell
  <2> QED BY <1>0, <2>1, <2>2, <2>4 DEF Beside, ThreadsCalm
<1>9. ~(ExitService(c) \/ SendExit(c) \/ Waited(c) \/ Join(c))
  BY DEF ExitService, SendExit, Waited, Join
<1> QED BY <1>2, <1>3, <1>4, <1>5, <1>6, <1>7, <1>8, <1>9 DEF Call, Continue
\* While the owner stops a service, it alone starts or stops it.
LEMMA OthersKeep ==
    ASSUME TypeOK, NEW m \in Clients, Owned(m), OwnInv(m),
           NEW c \in Clients, c # m, Call(c) \/ Continue(c)
    PROVE  MailInv(m)' /\ StopInv(m)'
<1>1. cpc[c] \notin Stopping
  BY OwnerStops DEF OwnInv
<1>2. Beside(m, c)
  BY <1>1, MostBeside DEF Stopping
<1>3. cpc[m] = "exited" => spc'[srv[m]] = spc[srv[m]]
  <2>1. SUFFICES ASSUME cpc[m] = "exited" PROVE spc'[srv[m]] = spc[srv[m]]
    OBVIOUS
  <2>2. srv[m] \in Services /\ ~(cpc[c] = "create" /\ srv[c] = srv[m])
    BY <2>1, OwnerStops DEF OwnInv, Starting, Stopping
  <2> QED BY <1>2, <2>2 DEF Beside
<1> QED BY <1>2, <1>3, MailCalm, StopCalm DEF OwnInv, Beside

\* Steps of the owner that neither send nor end a wait.
LEMMA OwnerKeeps ==
    ASSUME TypeOK, NEW m \in Clients, OwnInv(m), Call(m) \/ Continue(m),
           cpc[m] \notin {"exit", "send", "wait", "join", "tell"}
    PROVE  MailInv(m)' /\ StopInv(m)'
<1>1. Beside(m, m)
  BY MostBeside
<1>2. NoMail(m)
  <2>1. cpc[m] = "told" => sem[m]
    BY DEF Call, Continue, Start, Stop, Notify, Create, CreateFails, CreateThread, AppendNode, Listen, SendInit,
           ExitService, SendExit, Waited, Join, Tell, Told, Return, At
  <2> QED BY <2>1, FreeMail DEF OwnInv
<1>3. \A s \in Services : ~Pend(s) /\ spc[s] # "linger"
  BY DEF OwnInv, StopInv
<1> QED BY <1>1, <1>2, <1>3, MailNone, StopNone DEF Beside

\* The owner's exit_service, up to the exit message.
LEMMA ExitServiceKeeps ==
    ASSUME TypeOK, NEW m \in Clients, OwnInv(m), ExitService(m)
    PROVE  MailInv(m)' /\ StopInv(m)'
<1>1. cpc[m] = "exit" /\ UNCHANGED <<inbox, spc>> /\ ~sem'[m] /\ cpc'[m] \in {"send", "done"}
  BY DEF ExitService, At, Go, Set, thrVars, TypeOK
<1>2. InboxCalm(m) /\ ThreadsCalm
  BY <1>1 DEF InboxCalm, ThreadsCalm
<1>3. NoMail(m)
  BY <1>1, FreeMail DEF OwnInv
<1>4. \A s \in Services : ~Pend(s) /\ spc[s] # "linger"
  BY <1>1 DEF OwnInv, StopInv
<1> QED BY <1>1, <1>2, <1>3, <1>4, MailNone, StopNone

\* The exit message.
LEMMA SendExitKeeps ==
    ASSUME TypeOK, ListInv, NEW m \in Clients, OwnInv(m), SendExit(m)
    PROVE  MailInv(m)' /\ StopInv(m)'
<1>1. cpc[m] = "send" /\ UNCHANGED <<spc, srv, sem, list>> /\ srv[m] \in Services
  BY DEF SendExit, At, thrVars, TypeOK
<1>2. NoMail(m) /\ ~sem[m]
  BY <1>1, FreeMail DEF OwnInv, MailInv
<1>3. \A s \in Services : ~Pend(s) /\ spc[s] # "linger"
  BY <1>1 DEF OwnInv, StopInv
<1>4. CASE CanSend(srv[m])
  <2> DEFINE x == Msg("exit", m)
  <2>1. x \in Messages /\ x.type = "exit" /\ x.from = m
    BY DEF Msg, Messages
  <2>2. Send(srv[m], x) /\ cpc'[m] = "wait"
    BY <1>4 DEF SendExit, Go, TypeOK
  <2> HIDE DEF x
  <2>3. MailInv(m)'
    BY <1>1, <1>2, <2>1, <2>2, MailSent
  <2>4. srv[m] \in Listed'
    BY <1>1, <1>4 DEF CanSend, ListInv, Listed
  <2>5. ASSUME NEW s \in Services, Pend(s)' PROVE s = srv[m]
    <3>1. SUFFICES ASSUME s # srv[m] PROVE FALSE
      OBVIOUS
    <3>2. inbox'[s] = inbox[s]
      BY <1>1, <2>1, <2>2, <3>1, SendQueue
    <3> QED BY <1>1, <1>3, <2>5, <3>2 DEF Pend
  <2> QED BY <1>1, <1>2, <1>3, <2>2, <2>3, <2>4, <2>5 DEF StopInv
<1>5. CASE ~CanSend(srv[m])
  <2>1. UNCHANGED inbox /\ cpc'[m] = "done"
    BY <1>5 DEF SendExit, Go, TypeOK
  <2>2. InboxCalm(m) /\ ThreadsCalm
    BY <1>1, <2>1 DEF InboxCalm, ThreadsCalm
  <2> QED BY <1>2, <1>3, <2>1, <2>2, MailNone, StopNone
<1> QED BY <1>4, <1>5

\* The owner notifies a service.
LEMMA TellKeeps ==
    ASSUME TypeOK, NEW m \in Clients, OwnInv(m), Tell(m)
    PROVE  MailInv(m)' /\ StopInv(m)'
<1>1. cpc[m] = "tell" /\ UNCHANGED <<spc, srv, list>> /\ srv[m] \in Services /\ ~sem'[m]
  BY DEF Tell, At, Set, thrVars, TypeOK
<1>2. NoMail(m)
  BY <1>1, FreeMail DEF OwnInv
<1>3. \A s \in Services : ~Pend(s) /\ spc[s] # "linger"
  BY <1>1 DEF OwnInv, StopInv
<1>4. CASE CanSend(srv[m])
  <2> DEFINE x == Msg("notify", m)
  <2>1. x \in Messages /\ x.type = "notify" /\ x.from = m
    BY DEF Msg, Messages
  <2>2. Send(srv[m], x) /\ cpc'[m] = "told"
    BY <1>4 DEF Tell, Go, TypeOK
  <2> HIDE DEF x
  <2>3. MailInv(m)'
    BY <1>1, <1>2, <2>1, <2>2, MailSent
  <2>4. ASSUME NEW s \in Services PROVE ~Pend(s)'
    <3>1. ASSUME NEW j \in 1..Len(inbox'[s]) PROVE inbox'[s][j].type # "exit"
      BY <1>1, <1>2, <2>1, <2>2, <3>1, SendQueue DEF NoMail
    <3> QED BY <1>1, <1>3, <3>1 DEF Pend
  <2> QED BY <1>1, <1>3, <2>2, <2>3, <2>4 DEF StopInv
<1>5. CASE ~CanSend(srv[m])
  <2>1. UNCHANGED inbox /\ cpc'[m] = "notified"
    BY <1>5 DEF Tell, Go, TypeOK
  <2>2. InboxCalm(m) /\ ThreadsCalm
    BY <1>1, <2>1 DEF InboxCalm, ThreadsCalm
  <2> QED BY <1>2, <1>3, <2>1, <2>2, MailNone, StopNone
<1> QED BY <1>4, <1>5

\* The callback came, or the service is not listed any more.
LEMMA WaitedKeeps ==
    ASSUME TypeOK, NEW m \in Clients, OwnInv(m), Waited(m)
    PROVE  MailInv(m)' /\ StopInv(m)'
<1> DEFINE used == {x \in Slots : term[x] = srv[m]}
<1>1. /\ cpc[m] = "wait" /\ (sem[m] \/ srv[m] \notin Listed)
      /\ UNCHANGED <<spc, srv, sem, list, inbox, term>>
  BY DEF Waited, At, thrVars
<1>2. InboxCalm(m) /\ ThreadsCalm /\ Listed' = Listed
  BY <1>1 DEF InboxCalm, ThreadsCalm, Listed
<1>3. CASE used = {}
  <2>1. UNCHANGED <<slot, cpc>>
    BY <1>3 DEF Waited
  <2> QED BY <1>1, <1>2, <2>1, MailCalm, StopCalm DEF OwnInv
<1>4. CASE used # {}
  <2>1. \A s \in Services : ~Pend(s)
    BY <1>1 DEF OwnInv, StopInv
  <2>2. NoMail(m)
    <3>1. ASSUME NEW s \in Services, NEW j \in 1..Len(inbox[s])
          PROVE  inbox[s][j].type # "exit" /\ inbox[s][j].from # m
      BY <1>1, <2>1 DEF Pend, OwnInv, MailInv
    <3> QED BY <3>1 DEF NoMail
  <2>3. cpc'[m] = "join" /\ slot'[m] \in used
    BY <1>4 DEF Waited, Go, Set, TypeOK
  <2>4. MailInv(m)'
    BY <1>2, <2>2, <2>3, MailNone
  <2>5. ASSUME NEW s \in Services PROVE ~Pend(s)'
    BY <1>1, <2>1 DEF Pend
  <2>6. \A s \in Services : spc'[s] = "linger" => srv'[m] = s
    BY <1>1 DEF OwnInv, StopInv
  <2>7. slot'[m] \in Slots /\ term'[slot'[m]] = srv'[m]
    BY <1>1, <2>3
  <2> QED BY <2>3, <2>4, <2>5, <2>6, <2>7 DEF StopInv
<1> QED BY <1>3, <1>4

\* k_thread_join: the thread has ended.
LEMMA JoinKeeps ==
    ASSUME TypeOK, NEW m \in Clients, Owned(m), OwnInv(m), Join(m)
    PROVE  MailInv(m)' /\ StopInv(m)'
<1>1. /\ cpc[m] = "join" /\ UNCHANGED <<spc, srv, list, inbox>>
      /\ slot[m] \in Slots /\ term[slot[m]] = srv[m] /\ srv[m] \in Services
  BY DEF Join, At, thrVars, OwnInv, StopInv, TypeOK
<1>2. cpc'[m] = "exited" /\ spc[srv[m]] = "dead"
  <2>1. term[slot[m]] # None /\ ~JoinTimeout
    BY <1>1 DEF Owned
  <2>2. spc[term[slot[m]]] = "dead" /\ cpc' = [cpc EXCEPT ![m] = "exited"]
    BY <2>1 DEF Join, Go
  <2> QED BY <1>1, <2>2 DEF TypeOK
<1>3. InboxCalm(m)
  BY <1>1 DEF InboxCalm
<1>4. NoMail(m)
  BY <1>1, FreeMail DEF OwnInv
<1>5. \A s \in Services : ~Pend(s) /\ spc[s] # "linger"
  BY <1>1, <1>2 DEF OwnInv, StopInv
<1>6. ASSUME NEW s \in Services PROVE ~Pend(s)'
  BY <1>1, <1>5 DEF Pend
<1> QED BY <1>1, <1>2, <1>3, <1>4, <1>5, <1>6, MailNone DEF StopInv

\* A message is handled.
LEMMA HandleKeeps ==
    ASSUME TypeOK, NEW m \in Clients, OwnInv(m), NEW r \in Services, Handle(r)
    PROVE  MailInv(m)' /\ StopInv(m)'
<1>1. /\ inbox[r] # <<>> /\ inbox' = [inbox EXCEPT ![r] = Tail(@)]
      /\ Head(inbox[r]).type # "exit" /\ sem' = [c \in Clients |-> sem[c] \/ Head(inbox[r]).from = c]
      /\ UNCHANGED <<spc, cpc, srv, list, term, slot>>
  BY DEF Handle, thrVars
<1>2. Head(inbox[r]) = inbox[r][1] /\ 1 \in 1..Len(inbox[r])
  BY <1>1, TakeQueue
<1>3. Head(inbox[r]).from = m => cpc[m] = "told"
  BY <1>1, <1>2 DEF OwnInv, MailInv
<1>4. Head(inbox[r]).from # m => sem'[m] = sem[m]
  BY <1>1 DEF TypeOK
<1>5. MailInv(m)'
  BY <1>1, <1>3, <1>4, MailTaken DEF OwnInv
<1>6. ASSUME NEW s \in Services, Pend(s)' PROVE Pend(s)
  <2>1. ASSUME NEW j \in 1..Len(inbox'[s]) PROVE \E i \in 1..Len(inbox[s]) : inbox'[s][j] = inbox[s][i]
    <3>1. CASE s = r
      BY <1>1, <2>1, <3>1, TakeQueue
    <3>2. CASE s # r
      BY <1>1, <2>1, <3>2, TakeQueue
    <3> QED BY <3>1, <3>2
  <2> QED BY <1>1, <1>6, <2>1 DEF Pend
<1>7. Listed' = Listed
  BY <1>1 DEF Listed
<1>8. ASSUME NEW s \in Services, Pend(s)'
      PROVE  cpc'[m] = "wait" /\ srv'[m] = s /\ ~sem'[m] /\ s \in Listed'
  BY <1>1, <1>3, <1>4, <1>6, <1>7, <1>8 DEF OwnInv, StopInv
<1> QED BY <1>1, <1>5, <1>8 DEF OwnInv, StopInv

\* The exit message is received.
LEMMA ReceiveKeeps ==
    ASSUME TypeOK, NEW m \in Clients, OwnInv(m), NEW r \in Services, ReceiveExit(r)
    PROVE  MailInv(m)' /\ StopInv(m)'
<1>1. /\ inbox[r] # <<>> /\ inbox' = [inbox EXCEPT ![r] = Tail(@)]
      /\ Head(inbox[r]).type = "exit"
      /\ UNCHANGED <<cpc, srv, list, term, slot, sem>>
  BY DEF ReceiveExit
<1>2. Head(inbox[r]) = inbox[r][1] /\ 1 \in 1..Len(inbox[r])
  BY <1>1, TakeQueue
<1>3. cpc[m] = "wait" /\ srv[m] = r /\ ~sem[m] /\ r \in Listed
  BY <1>1, <1>2 DEF OwnInv, StopInv, Pend
<1>4. MailInv(m)'
  BY <1>1, <1>3, MailTaken DEF OwnInv
<1>5. \A s \in Services : s # r => inbox'[s] = inbox[s] /\ spc'[s] = spc[s]
  BY <1>1, TakeQueue DEF ReceiveExit, Set, TypeOK
<1>6. spc'[r] = "exit"
  BY DEF ReceiveExit, Set, TypeOK
<1>7. ASSUME NEW s \in Services, Pend(s)' PROVE s = r
  <2>1. SUFFICES ASSUME s # r PROVE FALSE
    OBVIOUS
  <2>2. Pend(s)
    BY <1>5, <1>7, <2>1 DEF Pend
  <2> QED BY <1>3, <2>1, <2>2 DEF OwnInv, StopInv
<1>8. r \in Listed'
  BY <1>1, <1>3 DEF Listed
<1>9. \A s \in Services : spc'[s] = "linger" => srv[m] = s
  BY <1>5, <1>6 DEF OwnInv, StopInv
<1> QED BY <1>1, <1>3, <1>4, <1>7, <1>8, <1>9 DEF StopInv

\* The thread leaves the lists, with the messages that are pending, and answers.
LEMMA LeaveKeeps ==
    ASSUME TypeOK, NEW m \in Clients, Owned(m), OwnInv(m), NEW r \in Services, Exit(r)
    PROVE  MailInv(m)' /\ StopInv(m)'
<1>1. UNCHANGED <<cpc, srv, term, slot>> /\ spc[r] = "exit"
  BY DEF Exit
<1>2. cpc[m] = "wait" /\ srv[m] = r /\ ~sem[m] /\ r \in Listed
  BY <1>1 DEF OwnInv, StopInv, Pend
<1>3. r \in Leaves
  BY <1>2, OwnerStops DEF OwnInv, Stopping
<1>4. inbox' = [inbox EXCEPT ![r] = <<>>]
  BY <1>2, <1>3 DEF Exit, srv_manager_thread_exit, Set
<1>5. \A s \in Services : s # r => inbox'[s] = inbox[s] /\ spc'[s] = spc[s]
  BY <1>4 DEF Exit, Set, TypeOK
<1>6. spc'[r] \in {"linger", "dead"} /\ Len(inbox'[r]) = 0
  BY <1>4 DEF Exit, Set, TypeOK
<1>7. ASSUME NEW s \in Services, s # r PROVE ~Pend(s)
  BY <1>2, <1>7 DEF OwnInv, StopInv
<1>8. ASSUME NEW s \in Services, NEW j \in 1..Len(inbox'[s])
      PROVE  inbox'[s][j].type # "exit" /\ inbox'[s][j].from # m
  <2>1. s # r
    BY <1>6, <1>8
  <2>2. j \in 1..Len(inbox[s]) /\ inbox'[s][j] = inbox[s][j]
    BY <1>5, <1>8, <2>1
  <2>3. inbox[s][j].type # "exit"
    BY <1>7, <2>1, <2>2 DEF Pend
  <2>4. inbox[s][j].from # m
    BY <1>2, <2>2, <2>3 DEF OwnInv, MailInv
  <2> QED BY <2>2, <2>3, <2>4
<1>9. MailInv(m)'
  BY <1>1, <1>2, <1>8 DEF MailInv
<1>10. ASSUME NEW s \in Services PROVE ~Pend(s)'
  <2>1. spc'[s] # "exit"
    BY <1>5, <1>6, <1>7 DEF Pend
  <2> QED BY <1>8, <2>1 DEF Pend
<1>11. \A s \in Services : spc'[s] = "linger" => srv[m] = s
  BY <1>2, <1>5 DEF OwnInv, StopInv
<1> QED BY <1>1, <1>2, <1>9, <1>10, <1>11 DEF StopInv

\* A thread that worked on ends.
LEMMA EndKeeps ==
    ASSUME TypeOK, NEW m \in Clients, OwnInv(m), NEW r \in Services, End(r)
    PROVE  MailInv(m)' /\ StopInv(m)'
<1>1. UNCHANGED <<cpc, srv, term, slot, sem, list, inbox>> /\ spc[r] = "linger"
  BY DEF End, walkVars
<1>2. spc'[r] = "dead" /\ \A s \in Services : s # r => spc'[s] = spc[s]
  BY DEF End, Set, TypeOK
<1>3. InboxCalm(m) /\ ThreadsCalm /\ Listed' = Listed
  BY <1>1, <1>2 DEF InboxCalm, ThreadsCalm, Listed
<1>4. cpc[m] = "exited" => spc'[srv[m]] = spc[srv[m]]
  BY <1>1, <1>2 DEF OwnInv, StopInv, TypeOK
<1> QED BY <1>1, <1>3, <1>4, MailCalm, StopCalm DEF OwnInv

\* The owner's invariant is inductive.
LEMMA StepOwn ==
    ASSUME TypeOK, ListInv, NEW m \in Clients, Owned(m), OwnInv(m), [Next]_vars
    PROVE  OwnInv(m)'
<1>1. RoleInv'
  BY StepRole DEF OwnInv
<1>2. ASSUME NEW s \in Services, Thread(s) PROVE MailInv(m)' /\ StopInv(m)'
  BY <1>2, HandleKeeps, ReceiveKeeps, LeaveKeeps, EndKeeps DEF Thread
<1>3. ASSUME NEW c \in Clients, Call(c) \/ Continue(c) PROVE MailInv(m)' /\ StopInv(m)'
  <2>1. CASE c # m
    BY <1>3, <2>1, OthersKeep
  <2>2. CASE c = m /\ cpc[m] \notin {"exit", "send", "wait", "join", "tell"}
    BY <1>3, <2>2, OwnerKeeps
  <2>3. CASE c = m /\ cpc[m] \in {"exit", "send", "wait", "join", "tell"}
    <3>1. ExitService(m) \/ SendExit(m) \/ Waited(m) \/ Join(m) \/ Tell(m)
      BY <1>3, <2>3 DEF Call, Continue, Start, Stop, Notify, Create, CreateFails, CreateThread, AppendNode, Listen,
                        SendInit, Told, Return, At
    <3> QED BY <3>1, ExitServiceKeeps, SendExitKeeps, WaitedKeeps, JoinKeeps, TellKeeps
  <2> QED BY <2>1, <2>2, <2>3
<1>4. ASSUME UNCHANGED vars PROVE MailInv(m)' /\ StopInv(m)'
  <2>1. UNCHANGED <<cpc, srv, term, slot, sem, list, inbox, spc>>
    BY <1>4 DEF vars
  <2>2. InboxCalm(m) /\ ThreadsCalm /\ Listed' = Listed
    BY <2>1 DEF InboxCalm, ThreadsCalm, Listed
  <2> QED BY <2>1, <2>2, MailCalm, StopCalm DEF OwnInv
<1> QED BY <1>1, <1>2, <1>3, <1>4 DEF Next, OwnInv

\* No call is under way at first.
LEMMA InitOwn == ASSUME NEW m \in Clients, Init PROVE OwnInv(m)
<1>1. \A s \in Services : Len(inbox[s]) = 0 /\ spc[s] = "dead"
  BY DEF Init
<1>2. \A c \in Clients : cpc[c] = "idle"
  BY DEF Init
<1>3. RoleInv
  BY <1>2 DEF RoleInv, Starting, Stopping
<1>4. \A s \in Services : 1..Len(inbox[s]) = {}
  BY <1>1
<1> QED BY <1>1, <1>2, <1>3, <1>4 DEF OwnInv, MailInv, StopInv, Pend

\* An owner never starts a service whose thread works on, and a thread that
\* ends has been told to by its owner.
LEMMA OwnedStack ==
    ASSUME TypeOK, NEW m \in Clients, Owned(m), OwnInv(m)
    PROVE  /\ StackFree
           /\ \A s \in Services : spc[s] = "exit" => s \in Leaves
<1>1. \A s \in Services : spc[s] = "exit" => cpc[m] = "wait" /\ srv[m] = s
  BY DEF OwnInv, StopInv, Pend
<1>2. \A s \in Services : spc[s] = "linger" => cpc[m] \in {"wait", "join"} /\ srv[m] = s
  BY DEF OwnInv, StopInv
<1>3. cpc[m] \in {"wait", "join"} => /\ srv[m] \in Leaves
                                    /\ \A d \in Clients : cpc[d] \in Starting => srv[d] # srv[m]
  BY OwnerStops DEF OwnInv, Stopping
<1>4. \A d \in Clients : cpc[d] = "create" => srv[d] \in Services
  BY DEF TypeOK
<1> QED BY <1>1, <1>2, <1>3, <1>4 DEF StackFree, Starting

\* The combined invariant.
OwnerInv(m) == ListInv /\ AliveInv /\ NodeInv /\ OwnInv(m)

\* The owner's invariant always holds.
LEMMA OwnerAlways ==
    ASSUME NEW m \in Clients, Owned(m)
    PROVE  Spec => []OwnerInv(m)
<1>1. Init => OwnerInv(m)
  BY InitRuns, InitOwn DEF OwnerInv
<1>2. TypeOK /\ OwnerInv(m) /\ [Next]_vars => OwnerInv(m)'
  BY StepRuns, StepOwn, OwnedStack DEF OwnerInv
<1> QED BY <1>1, <1>2, TypeCorrect, PTL DEF Spec

\* srv_manager_exit_service returns true only when the service is gone: if one
\* client alone starts and stops the services that are ever stopped, and these
\* leave the list when they are told to exit, then however long their threads
\* work on, and whatever the other clients start and notify meanwhile, the
\* thread has ended and the service is in neither list.
THEOREM ExitedAlwaysGone ==
    ASSUME NEW m \in Clients, Owned(m)
    PROVE  Spec => []ExitedIsGone
<1>1. ASSUME TypeOK, OwnerInv(m) PROVE ExitedIsGone
  <2>1. SUFFICES ASSUME NEW c \in Clients, cpc[c] = "exited"
                 PROVE  spc[srv[c]] = "dead" /\ srv[c] \notin Listed /\ srv[c] \notin listeners
    BY DEF ExitedIsGone
  <2>2. c = m
    BY <1>1, <2>1, OwnerStops DEF OwnerInv, OwnInv, Stopping
  <2>3. spc[srv[c]] = "dead"
    BY <1>1, <2>1, <2>2 DEF OwnerInv, OwnInv, StopInv
  <2> QED BY <1>1, <2>3 DEF OwnerInv, NodeInv, ListInv, Alive
<1> QED BY <1>1, OwnerAlways, TypeCorrect, PTL

\* Under the same conditions no stack is overwritten, although the owner's
\* services work on after they have left the list.
THEOREM OwnedStackExclusive ==
    ASSUME NEW m \in Clients, Owned(m)
    PROVE  Spec => []StackExclusive
<1>1. OwnerInv(m) => StackExclusive
  BY DEF OwnerInv, AliveInv, StackExclusive
<1> QED BY <1>1, OwnerAlways, PTL

\* And every listed service has a thread that receives its messages.
THEOREM OwnedListedRuns ==
    ASSUME NEW m \in Clients, Owned(m)
    PROVE  Spec => []ListedRuns
<1>1. TypeOK /\ OwnerInv(m) => ListedRuns
  BY DEF OwnerInv, ListInv, NodeInv, ListedRuns, Alive
<1> QED BY <1>1, OwnerAlways, TypeCorrect, PTL
-----------------------------------------------------------------------------
(* The nodes of a walk.  The owner is also the only client that notifies   *)
(* all services.                                                           *)

Alone(m) == Owned(m) /\ Notifiers \subseteq {m}

Walking == {"tell", "told", "notified"}

\* Nobody else walks the list, and no walk holds a freed node.
FreedInv(m) ==
    /\ \A c \in Clients : ~freed[c]
    /\ \A c \in Clients : c # m => tmp[c] = None /\ cpc[c] \notin Walking
    /\ tmp[m] # None => cpc[m] \in Walking

\* A listed service has a listener, or is about to get one.
GapInv ==
    \A s \in Listed : s \in listeners \/ \E c \in Clients : cpc[c] = "listen" /\ srv[c] = s

\* A pool entry is free whenever a notification is sent.
PoolReady == \A c \in Clients : cpc[c] = "tell" => Cardinality(Pending) < NMsg

\* The node and the listener come and go together.
LEMMA StepGap ==
    ASSUME TypeOK, TypeOK', ListInv, GapInv, [Next]_vars
    PROVE  GapInv'
<1> USE DEF At, Go, Set
<1>1. CASE Quiet
  <2>1. Listed' = Listed /\ listeners' = listeners
    BY <1>1 DEF Quiet, Listed
  <2> QED BY <1>1, <2>1 DEF Quiet, GapInv, Locking
<1>2. ASSUME NEW s \in Services, Exit(s) PROVE GapInv'
  <2>1. UNCHANGED <<cpc, srv>>
    BY <1>2 DEF Exit
  <2>2. CASE s \in Leaves /\ s \in Listed
    <3>1. PICK i \in 1..Len(list) : list[i] = s /\ list' = Without(i)
      BY <1>2, <2>2 DEF Exit, srv_manager_thread_exit, Unlisted
    <3>2. Listed' = Listed \ {s}
      BY <3>1, WithoutListed
    <3>3. listeners' = listeners \ {s}
      BY <1>2, <2>2 DEF Exit, srv_manager_thread_exit
    <3> QED BY <2>1, <3>2, <3>3 DEF GapInv
  <2>3. CASE s \notin Leaves \/ s \notin Listed
    <3>1. UNCHANGED <<list, listeners>>
      BY <1>2, <2>3 DEF Exit, srv_manager_thread_exit
    <3> QED BY <2>1, <3>1 DEF GapInv, Listed
  <2> QED BY <2>2, <2>3
<1>3. ASSUME NEW c \in Clients, CreateThread(c) PROVE GapInv'
  <2>1. UNCHANGED <<list, listeners, srv>> /\ cpc[c] = "create"
    BY <1>3 DEF CreateThread
  <2>2. \A d \in Clients : cpc[d] = "listen" => cpc'[d] = "listen"
    BY <1>3, <2>1 DEF CreateThread, TypeOK
  <2>3. Listed' = Listed
    BY <2>1 DEF Listed
  <2> QED BY <2>1, <2>2, <2>3 DEF GapInv
<1>4. ASSUME NEW c \in Clients, AppendNode(c) PROVE GapInv'
  <2>1. /\ UNCHANGED <<listeners, srv>> /\ list' = Append(list, srv[c])
        /\ cpc[c] = "append" /\ srv[c] \in Services
    BY <1>4 DEF AppendNode, TypeOK
  <2>2. cpc'[c] = "listen" /\ \A d \in Clients : cpc[d] = "listen" => cpc'[d] = "listen"
    BY <1>4, <2>1 DEF AppendNode, TypeOK
  <2>3. Listed' \subseteq Listed \cup {srv[c]}
    BY <2>1 DEF Listed, Range, TypeOK
  <2> QED BY <1>4, <2>1, <2>2, <2>3 DEF GapInv
<1>5. ASSUME NEW c \in Clients, Listen(c) PROVE GapInv'
  <2>1. UNCHANGED <<list, srv>> /\ listeners' = listeners \cup {srv[c]}
    BY <1>5 DEF Listen
  <2>2. \A d \in Clients : d # c /\ cpc[d] = "listen" => cpc'[d] = "listen"
    BY <1>5 DEF Listen, TypeOK
  <2>3. Listed' = Listed
    BY <2>1 DEF Listed
  <2> QED BY <2>1, <2>2, <2>3 DEF GapInv
<1>6. Quiet \/ (\E s \in Services : Exit(s))
      \/ (\E c \in Clients : CreateThread(c) \/ AppendNode(c) \/ Listen(c))
  BY MostQuiet DEF Next, Thread, Continue, Create
<1> QED BY <1>1, <1>2, <1>3, <1>4, <1>5, <1>6

\* What a thread's step can change.
LEMMA ThreadFrame ==
    ASSUME NEW s \in Services, Thread(s)
    PROVE  /\ UNCHANGED <<term, cpc, srv, tmp, slot, fault>>
           /\ spc[s] # "exit" => UNCHANGED <<list, listeners, freed, owed>>
BY DEF Thread, Handle, ReceiveExit, Exit, End, thrVars, walkVars

\* No thread leaves the list while the owner walks it or before it has sent the
\* exit message.
LEMMA ListStays ==
    ASSUME TypeOK, NEW m \in Clients, OwnInv(m), cpc[m] # "wait", NEW s \in Services, Thread(s)
    PROVE  UNCHANGED <<list, listeners, freed, owed>>
<1>1. spc[s] # "exit"
  BY DEF OwnInv, StopInv, Pend
<1> QED BY <1>1, ThreadFrame

\* No freed node is used.
LEMMA StepFreed ==
    ASSUME TypeOK, NEW m \in Clients, Alone(m), OwnInv(m), FreedInv(m), [Next]_vars
    PROVE  FreedInv(m)'
<1> USE DEF At, Go, Set
<1>1. ASSUME NEW s \in Services, Thread(s) PROVE FreedInv(m)'
  <2>1. UNCHANGED <<cpc, tmp>>
    BY <1>1, ThreadFrame
  <2>2. \A c \in Clients : ~freed'[c]
    <3>1. CASE Exit(s)
      <4>1. cpc[m] = "wait"
        BY <3>1 DEF Exit, OwnInv, StopInv, Pend
      <4>2. \A c \in Clients : tmp[c] = None
        BY <4>1 DEF FreedInv, Walking
      <4>3. freed' = freed \/ freed' = [c \in Clients |-> freed[c] \/ tmp[c] = s]
        BY <3>1 DEF Exit, srv_manager_thread_exit
      <4> QED BY <4>2, <4>3 DEF FreedInv
    <3>2. CASE ~Exit(s)
      BY <1>1, <3>2 DEF Thread, Handle, ReceiveExit, End, walkVars, FreedInv
    <3> QED BY <3>1, <3>2
  <2> QED BY <2>1, <2>2 DEF FreedInv
<1>2. ASSUME NEW c \in Clients, NEW p, cpc' = [cpc EXCEPT ![c] = p],
             UNCHANGED <<tmp, freed>>, p \in Walking => c = m, cpc[c] \in Walking => p \in Walking
      PROVE  FreedInv(m)'
  BY <1>2 DEF FreedInv, TypeOK
<1>3. ASSUME NEW c \in Clients, Call(c) PROVE FreedInv(m)'
  <2>1. ASSUME NEW s \in Services, Start(c, s) \/ Stop(c, s) PROVE FreedInv(m)'
    <3>1. cpc[c] = "idle" /\ UNCHANGED <<tmp, freed>>
      BY <2>1 DEF Start, Stop, walkVars
    <3>2. \E p \in {"init", "create", "exit", "done"} : cpc' = [cpc EXCEPT ![c] = p]
      BY <2>1 DEF Start, Stop
    <3> QED BY <1>2, <3>1, <3>2 DEF Walking
  <2>2. ASSUME c \in Notifiers, Notify(c) PROVE FreedInv(m)'
    <3>1. c = m
      BY <2>2 DEF Alone
    <3>2. /\ cpc' = [cpc EXCEPT ![m] = "tell"] /\ freed' = [freed EXCEPT ![m] = FALSE]
          /\ tmp' = [tmp EXCEPT ![m] = NextNode(list[1])]
      BY <2>2, <3>1 DEF Notify
    <3> QED BY <3>2 DEF FreedInv, Walking, TypeOK
  <2> QED BY <1>3, <2>1, <2>2 DEF Call
<1>4. ASSUME NEW c \in Clients, Continue(c) PROVE FreedInv(m)'
  <2>1. CASE Create(c) \/ AppendNode(c) \/ Listen(c) \/ SendInit(c) \/ ExitService(c) \/ SendExit(c)
    <3>1. cpc[c] \notin Walking /\ UNCHANGED <<tmp, freed>>
      BY <2>1 DEF Create, CreateFails, CreateThread, AppendNode, Listen, SendInit, ExitService, SendExit, walkVars, Walking
    <3>2. \E p \in {"append", "done", "listen", "init", "send", "wait"} : cpc' = [cpc EXCEPT ![c] = p]
      BY <2>1 DEF Create, CreateFails, CreateThread, AppendNode, Listen, SendInit, ExitService, SendExit
    <3> QED BY <1>2, <3>1, <3>2 DEF Walking
  <2>2. CASE Waited(c) \/ Join(c)
    <3>1. cpc[c] \notin Walking /\ UNCHANGED <<tmp, freed>>
      BY <2>2 DEF Waited, Join, walkVars, Walking
    <3>2. cpc' = cpc \/ \E p \in {"join", "exited"} : cpc' = [cpc EXCEPT ![c] = p]
      BY <2>2 DEF Waited, Join
    <3>3. CASE cpc' = cpc
      BY <3>1, <3>3 DEF FreedInv
    <3> QED BY <1>2, <3>1, <3>2, <3>3 DEF Walking
  <2>3. CASE Tell(c)
    <3>1. cpc[c] = "tell" /\ UNCHANGED <<tmp, freed>>
      BY <2>3 DEF Tell, walkVars
    <3>2. c = m
      BY <3>1 DEF FreedInv, Walking
    <3>3. \E p \in Walking : cpc' = [cpc EXCEPT ![c] = p]
      BY <2>3 DEF Tell, Walking
    <3> QED BY <1>2, <3>1, <3>2, <3>3
  <2>4. CASE Told(c)
    <3>1. cpc[c] = "told" /\ UNCHANGED freed
      BY <2>4 DEF Told
    <3>2. c = m
      BY <3>1 DEF FreedInv, Walking
    <3>3. ~freed[c]
      BY DEF FreedInv
    <3>4. \A d \in Clients : d # m => cpc'[d] = cpc[d] /\ tmp'[d] = tmp[d]
      BY <2>4, <3>2 DEF Told, TypeOK
    <3>5. cpc'[m] \in Walking
      BY <2>4, <3>2, <3>3 DEF Told, Walking, TypeOK
    <3> QED BY <3>1, <3>4, <3>5 DEF FreedInv
  <2>5. CASE Return(c)
    <3>1. /\ cpc' = [cpc EXCEPT ![c] = "idle"] /\ freed' = [freed EXCEPT ![c] = FALSE]
          /\ tmp' = [tmp EXCEPT ![c] = None]
      BY <2>5 DEF Return
    <3> QED BY <3>1 DEF FreedInv, Walking, TypeOK
  <2> QED BY <1>4, <2>1, <2>2, <2>3, <2>4, <2>5 DEF Continue
<1>5. ASSUME UNCHANGED vars PROVE FreedInv(m)'
  BY <1>5 DEF vars, FreedInv
<1> QED BY <1>1, <1>3, <1>4, <1>5 DEF Next

\* The nodes that a walk uses are there, and have listeners.
NodesInv(m) == FreedInv(m) /\ GapInv

LEMMA NodesAlways ==
    ASSUME NEW m \in Clients, Alone(m)
    PROVE  Spec => []NodesInv(m)
<1>1. Init => NodesInv(m)
  <2>1. SUFFICES ASSUME Init PROVE NodesInv(m)
    OBVIOUS
  <2>2. Listed = {}
    BY <2>1 DEF Init, Listed, Range
  <2> QED BY <2>1, <2>2 DEF Init, NodesInv, FreedInv, GapInv, Walking
<1>2. TypeOK /\ TypeOK' /\ OwnerInv(m) /\ NodesInv(m) /\ [Next]_vars => NodesInv(m)'
  BY StepFreed, StepGap DEF NodesInv, OwnerInv, Alone
<1>3. Spec => []OwnerInv(m)
  BY OwnerAlways DEF Alone
<1> QED BY <1>1, <1>2, <1>3, TypeCorrect, PTL DEF Spec

-----------------------------------------------------------------------------
(* The walk of srv_manager_notify_service.                                 *)

\* The walk stands at place p with the node behind saved, and every service
\* that is still to be told is at p or behind it.  With no node saved the walk
\* is at its last service, whatever is appended meanwhile.
WalkAt(m, p) ==
    /\ p \in 1..Len(list) /\ list[p] = srv[m]
    /\ tmp[m] = None => owed[m] \subseteq {srv[m]}
    /\ tmp[m] # None => /\ p < Len(list) /\ tmp[m] = list[p + 1]
                       /\ \A s \in owed[m] : \E i \in p..Len(list) : list[i] = s

WalkInv(m) ==
    /\ cpc[m] = "notified" => owed[m] = {}
    /\ cpc[m] \in {"tell", "told"} => \E p \in 1..Len(list) : WalkAt(m, p)

\* The node that SYS_SLIST_FOR_EACH_NODE_SAFE saves.
LEMMA NextNodeIs ==
    ASSUME TypeOK, ListInv, NEW p \in 1..Len(list)
    PROVE  /\ p < Len(list) => NextNode(list[p]) = list[p + 1]
           /\ p = Len(list) => NextNode(list[p]) = None
<1>1. list \in Seq(Services) /\ Len(list) \in Nat
  BY DEF TypeOK
<1>2. \A i, j \in 1..Len(list) : list[i] = list[j] => i = j
  BY DEF ListInv
<1>3. CASE p < Len(list)
  <2> DEFINE k == CHOOSE i \in 1..(Len(list) - 1) : list[i] = list[p]
  <2>1. p \in 1..(Len(list) - 1)
    BY <1>1, <1>3
  <2>2. k \in 1..(Len(list) - 1) /\ list[k] = list[p]
    BY <2>1
  <2>3. k = p
    BY <1>1, <1>2, <2>2
  <2>4. NextNode(list[p]) = list[1 + k]
    BY <2>1 DEF NextNode
  <2> HIDE DEF k
  <2>5. 1 + k = p + 1
    BY <2>3, <2>1
  <2> QED BY <1>3, <1>1, <2>4, <2>5
<1>4. CASE p = Len(list)
  <2>1. ~\E i \in 1..(Len(list) - 1) : list[i] = list[p]
    BY <1>1, <1>2, <1>4
  <2> QED BY <1>1, <1>4, <2>1 DEF NextNode
<1> QED BY <1>1, <1>3, <1>4

\* The walk begins or goes on at p, with everything owed at p or behind it.
LEMMA WalkStarts ==
    ASSUME TypeOK, ListInv, NEW m \in Clients, NEW p \in 1..Len(list), UNCHANGED list,
           srv'[m] = list[p], tmp'[m] = NextNode(list[p]),
           \A s \in owed'[m] : \E i \in p..Len(list) : list[i] = s
    PROVE  WalkAt(m, p)'
<1>1. list \in Seq(Services) /\ Len(list) \in Nat
  BY DEF TypeOK
<1>2. CASE p < Len(list)
  <2>1. tmp'[m] = list[p + 1] /\ p + 1 \in 1..Len(list)
    BY <1>1, <1>2, NextNodeIs
  <2>2. tmp'[m] # None
    BY <1>1, <2>1
  <2> QED BY <1>2, <2>1, <2>2 DEF WalkAt
<1>3. CASE p = Len(list)
  <2>1. tmp'[m] = None
    BY <1>3, NextNodeIs
  <2>2. owed'[m] \subseteq {srv'[m]}
    BY <1>1, <1>3
  <2> QED BY <2>1, <2>2 DEF WalkAt
<1> QED BY <1>1, <1>2, <1>3

\* Services that are appended do not disturb the walk.
LEMMA WalkCalm ==
    ASSUME TypeOK, NEW m \in Clients, WalkInv(m), cpc'[m] = cpc[m],
           srv'[m] = srv[m], tmp'[m] = tmp[m], owed'[m] = owed[m],
           \/ cpc[m] \notin {"tell", "told"}
           \/ /\ Len(list') \in Nat /\ Len(list') >= Len(list)
              /\ \A i \in 1..Len(list) : list'[i] = list[i]
    PROVE  WalkInv(m)'
<1>1. CASE cpc[m] \notin {"tell", "told"}
  BY <1>1 DEF WalkInv
<1>2. CASE cpc[m] \in {"tell", "told"}
  <2>1. PICK p \in 1..Len(list) : WalkAt(m, p)
    BY <1>2 DEF WalkInv
  <2>2. /\ Len(list) \in Nat /\ Len(list') \in Nat /\ Len(list') >= Len(list)
        /\ \A i \in 1..Len(list) : list'[i] = list[i]
    BY <1>2 DEF TypeOK
  <2>3. p \in 1..Len(list') /\ list'[p] = srv'[m]
    BY <2>1, <2>2 DEF WalkAt
  <2>4. ASSUME tmp[m] # None
        PROVE  /\ p < Len(list') /\ tmp'[m] = list'[p + 1]
               /\ \A s \in owed'[m] : \E i \in p..Len(list') : list'[i] = s
    BY <2>1, <2>2, <2>4 DEF WalkAt
  <2>5. WalkAt(m, p)'
    BY <2>1, <2>3, <2>4 DEF WalkAt
  <2> QED BY <1>2, <2>3, <2>5 DEF WalkInv
<1> QED BY <1>1, <1>2

\* Every notification finds a listener and a pool entry.
LEMMA TellIsSent ==
    ASSUME TypeOK, NEW m \in Clients, ListenerGap = FALSE, GapInv, WalkInv(m), PoolReady, Tell(m)
    PROVE  CanSend(srv[m])
<1>1. cpc[m] = "tell" /\ \A d \in Clients : cpc[d] # "listen"
  BY DEF Tell, At
<1>2. srv[m] \in Listed
  <2>1. PICK p \in 1..Len(list) : list[p] = srv[m]
    BY <1>1 DEF WalkInv, WalkAt
  <2> QED BY <2>1 DEF Listed, Range, TypeOK
<1>3. Cardinality(Pending) < NMsg
  BY <1>1 DEF PoolReady
<1> QED BY <1>1, <1>2, <1>3 DEF GapInv, CanSend

\* The walk comes past every service that is owed the notification.
LEMMA StepWalk ==
    ASSUME TypeOK, ListInv, NEW m \in Clients, Alone(m), ListenerGap = FALSE, OwnInv(m),
           NodesInv(m), PoolReady, WalkInv(m), [Next]_vars
    PROVE  WalkInv(m)'
<1> USE DEF At, Go, Set
<1>0. Len(list) \in Nat /\ list \in Seq(Services)
  BY DEF TypeOK
<1>1. ASSUME NEW s \in Services, Thread(s) PROVE WalkInv(m)'
  <2>1. UNCHANGED <<cpc, srv, tmp>>
    BY <1>1, ThreadFrame
  <2>2. CASE cpc[m] = "wait"
    BY <2>1, <2>2 DEF WalkInv
  <2>3. CASE cpc[m] # "wait"
    <3>1. UNCHANGED <<list, owed>>
      BY <1>1, <2>3, ListStays
    <3> QED BY <1>0, <2>1, <3>1, WalkCalm
  <2> QED BY <2>2, <2>3
<1>2. ASSUME UNCHANGED <<list, cpc, srv, tmp, owed>> PROVE WalkInv(m)'
  BY <1>0, <1>2, WalkCalm
<1>3. ASSUME cpc'[m] \notin {"tell", "told", "notified"} PROVE WalkInv(m)'
  BY <1>3 DEF WalkInv
<1>4. ASSUME NEW c \in Clients, Call(c) \/ Continue(c), c # m PROVE WalkInv(m)'
  <2>1. cpc'[m] = cpc[m] /\ srv'[m] = srv[m] /\ tmp'[m] = tmp[m] /\ owed'[m] = owed[m]
    <3>1. CASE Call(c)
      BY <1>4, <3>1 DEF Call, Start, Stop, Notify, walkVars, TypeOK
    <3>2. CASE Create(c) \/ AppendNode(c) \/ Listen(c) \/ SendInit(c)
      BY <1>4, <3>2 DEF Create, CreateFails, CreateThread, AppendNode, Listen, SendInit, walkVars, TypeOK
    <3>3. CASE ExitService(c) \/ SendExit(c) \/ Waited(c) \/ Join(c)
      BY <1>4, <3>3 DEF ExitService, SendExit, Waited, Join, walkVars, TypeOK
    <3>4. CASE Tell(c) \/ Told(c) \/ Return(c)
      BY <1>4, <3>4 DEF Tell, Told, Return, walkVars, TypeOK
    <3> QED BY <1>4, <3>1, <3>2, <3>3, <3>4 DEF Continue
  <2>2. UNCHANGED list \/ (list' = Append(list, srv[c]) /\ srv[c] \in Services)
    BY <1>4 DEF Call, Continue, Start, Stop, Notify, Create, CreateFails, CreateThread, AppendNode, Listen, SendInit,
                ExitService, SendExit, Waited, Join, Tell, Told, Return, thrVars, TypeOK
  <2>3. /\ Len(list') \in Nat /\ Len(list') >= Len(list)
        /\ \A i \in 1..Len(list) : list'[i] = list[i]
    <3>1. CASE UNCHANGED list
      BY <1>0, <3>1
    <3>2. CASE list' = Append(list, srv[c]) /\ srv[c] \in Services
      BY <1>0, <3>2
    <3> QED BY <2>2, <3>1, <3>2
  <2> QED BY <2>1, <2>3, WalkCalm
<1>5. CASE Notify(m)
  <2>1. /\ UNCHANGED list /\ list # <<>> /\ cpc'[m] = "tell" /\ srv'[m] = list[1]
        /\ tmp'[m] = NextNode(list[1]) /\ owed'[m] = Listed
    BY <1>5 DEF Notify, thrVars, TypeOK
  <2>2. 1 \in 1..Len(list)
    BY <1>0, <2>1
  <2>3. \A s \in Listed : \E i \in 1..Len(list) : list[i] = s
    BY <1>0 DEF Listed, Range
  <2>4. WalkAt(m, 1)'
    BY <2>1, <2>2, <2>3, WalkStarts
  <2> QED BY <2>1, <2>2, <2>4 DEF WalkInv
<1>6. CASE Tell(m)
  <2>1. cpc[m] = "tell" /\ UNCHANGED <<list, srv, tmp, owed>>
    BY <1>6 DEF Tell, thrVars, walkVars
  <2>2. CanSend(srv[m])
    BY <1>6, TellIsSent DEF NodesInv
  <2>3. cpc'[m] = "told"
    BY <1>6, <2>2 DEF Tell, TypeOK
  <2>4. PICK p \in 1..Len(list) : WalkAt(m, p)
    BY <2>1 DEF WalkInv
  <2>5. WalkAt(m, p)'
    BY <2>1, <2>4 DEF WalkAt
  <2> QED BY <2>1, <2>3, <2>4, <2>5 DEF WalkInv
<1>7. CASE Told(m)
  <2>1. cpc[m] = "told" /\ UNCHANGED list /\ owed'[m] = owed[m] \ {srv[m]} /\ ~freed[m]
    BY <1>7 DEF Told, thrVars, TypeOK, NodesInv, FreedInv
  <2>2. PICK p \in 1..Len(list) : WalkAt(m, p)
    BY <2>1 DEF WalkInv
  <2>3. CASE tmp[m] = None
    <3>1. cpc'[m] = "notified"
      BY <1>7, <2>1, <2>3 DEF Told, TypeOK
    <3>2. owed'[m] = {}
      BY <2>1, <2>2, <2>3 DEF WalkAt
    <3> QED BY <3>1, <3>2 DEF WalkInv
  <2>4. CASE tmp[m] # None
    <3>1. cpc'[m] = "tell" /\ srv'[m] = tmp[m] /\ tmp'[m] = NextNode(tmp[m])
      BY <1>7, <2>1, <2>4 DEF Told, TypeOK
    <3>2. p + 1 \in 1..Len(list) /\ tmp[m] = list[p + 1] /\ list[p] = srv[m]
      BY <1>0, <2>2, <2>4 DEF WalkAt
    <3>3. ASSUME NEW s \in owed'[m] PROVE \E i \in (p + 1)..Len(list) : list[i] = s
      <4>1. PICK i \in p..Len(list) : list[i] = s
        BY <2>1, <2>2, <2>4, <3>3 DEF WalkAt
      <4>2. i # p
        BY <2>1, <3>2, <3>3, <4>1
      <4>3. i \in (p + 1)..Len(list)
        BY <1>0, <4>1, <4>2
      <4> QED BY <4>1, <4>3
    <3>4. WalkAt(m, p + 1)'
      BY <2>1, <3>1, <3>2, <3>3, WalkStarts
    <3> QED BY <2>1, <3>1, <3>2, <3>4 DEF WalkInv
  <2> QED BY <2>3, <2>4
<1>8. CASE \E s \in Services : Start(m, s) \/ Stop(m, s)
  <2>1. cpc'[m] \in {"init", "create", "exit", "done"}
    BY <1>8 DEF Start, Stop, TypeOK
  <2> QED BY <1>3, <2>1
<1>9. CASE Create(m) \/ AppendNode(m) \/ Listen(m) \/ SendInit(m) \/ ExitService(m) \/ SendExit(m)
           \/ Return(m)
  <2>1. cpc'[m] \in {"append", "done", "listen", "init", "send", "wait", "idle"}
    BY <1>9 DEF Create, CreateFails, CreateThread, AppendNode, Listen, SendInit, ExitService, SendExit, Return, TypeOK
  <2> QED BY <1>3, <2>1
<1>10. CASE Waited(m) \/ Join(m)
  <2>1. cpc'[m] \in {"wait", "join", "exited"}
    BY <1>10 DEF Waited, Join, TypeOK
  <2> QED BY <1>3, <2>1
<1>11. ASSUME Call(m) \/ Continue(m) PROVE WalkInv(m)'
  BY <1>5, <1>6, <1>7, <1>8, <1>9, <1>10, <1>11 DEF Call, Continue
<1>12. ASSUME UNCHANGED vars PROVE WalkInv(m)'
  BY <1>2, <1>12 DEF vars
<1> QED BY <1>1, <1>4, <1>11, <1>12 DEF Next

\* srv_manager_notify_service returns only when every service that was listed
\* all the time has handled the message: one client alone stops and notifies
\* services, so no node is freed under its walk; the walk saves the next node
\* before it waits, and what others append meanwhile comes after what is owed.
\* A notification finds no service half listed, and the pool has an entry.
THEOREM AlwaysNotifiesAll ==
    ASSUME NEW m \in Clients, Alone(m), ListenerGap = FALSE
    PROVE  Spec /\ []PoolReady => []NotifiesAll
<1>1. Init => WalkInv(m)
  BY DEF Init, WalkInv
<1>2. TypeOK /\ OwnerInv(m) /\ NodesInv(m) /\ PoolReady /\ WalkInv(m) /\ [Next]_vars => WalkInv(m)'
  BY StepWalk DEF OwnerInv
<1>3. NodesInv(m) /\ WalkInv(m) => NotifiesAll
  BY DEF NodesInv, FreedInv, Walking, WalkInv, NotifiesAll
<1>4. Spec => []OwnerInv(m)
  BY OwnerAlways DEF Alone
<1>5. Spec => []NodesInv(m)
  BY NodesAlways
<1> QED BY <1>1, <1>2, <1>3, <1>4, <1>5, TypeCorrect, PTL DEF Spec
=============================================================================
