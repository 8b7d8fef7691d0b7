------------------------- MODULE ClientDaemonProof -------------------------
(***************************************************************************)
(* Proofs about ClientDaemon: the clients and the location HAL daemon keep *)
(* their types, the daemon has one message id for every answer to come,    *)
(* and once everything sent has arrived a live client and the daemon have  *)
(* the session the application asked for last.                             *)
(*                                                                         *)
(* The invariant, Linked(c) for every client c, says what is on its way    *)
(* between client and daemon: in which order the client hears of daemons   *)
(* and registers with them, which of its requests the daemon will ignore   *)
(* and what the others will find, and what client and daemon will agree on *)
(* in the end.  Paced(c) adds the interval, Wanted(c) what the application *)
(* asked for.  A step is one of a client c, which is looked at for c, or   *)
(* leaves client c alone (Untouched), which keeps all of it.               *)
(***************************************************************************)
EXTENDS ClientDaemon, ListFacts

Registered(c) == handler[c] # NoHandler

(* Whom the maintenance is about to delete is still there.                 *)
StillThere == \A c \in maint.purging : Registered(c)

(* A supported time between fixes is a number.                             *)
LEMMA Tbf == \A i \in Nat : Daemon!GetSupportedTbf(i) \in Nat
BY DEF Daemon!GetSupportedTbf

(* The handler's operations return handlers.                               *)
LEMMA HandlerOps ==
    ASSUME NEW h \in HandlerType, NEW i \in Nat
    PROVE  /\ Daemon!HandlerStart(h, i) \in HandlerType
           /\ Daemon!HandlerRestart(h) \in HandlerType
           /\ Daemon!HandlerStop(h) \in HandlerType
           /\ Daemon!HandlerUpdate(h, i) \in HandlerType
<1>1. Daemon!GetSupportedTbf(i) \in Nat
  BY Tbf
<1>2. Append(h.answers, [op |-> "answer"]) \in Seq(AnswerMsg)
  BY DEF HandlerType, AnswerMsg
<1> QED
  BY <1>1, <1>2 DEF HandlerType, Daemon!HandlerStart, Daemon!HandlerRestart,
     Daemon!HandlerStop, Daemon!HandlerUpdate, Daemon!Asked

(* ... and so does pushing a message id.                                   *)
LEMMA PushType ==
    ASSUME NEW h \in HandlerType, NEW op \in Operations
    PROVE  Daemon!Push(h, op) \in HandlerType
<1>1. Append(h.pending, op) \in Seq(Operations)
  BY DEF HandlerType
<1> QED
  BY <1>1 DEF HandlerType, Daemon!Push

(* The initial states have their types, and nothing is to be deleted.      *)
LEMMA InitType == Init => TypeOK /\ StillThere
<1> SUFFICES ASSUME Init PROVE TypeOK /\ StillThere
  OBVIOUS
<1>1. [op |-> "register"] \in Client!TaskMsg
  BY DEF Client!TaskMsg
<1>2. <<[op |-> "register"]>> \in Seq(Client!TaskMsg) /\ <<>> \in Seq(Client!InboxMsg)
  BY <1>1
<1>3. Client!NewImpl \in Client!ImplType
  BY DEF Client!NewImpl, Client!ImplType, Client!Passive, Client!NoMask
<1>4. StillThere
  BY DEF Init, Daemon!DaemonInit, StillThere, Daemon!Idle
<1>5. /\ MaxCalls \in Nat /\ MaxCrashes \in Nat /\ MaxPower \in Nat /\ MaxCaps \in Nat
         /\ MaxCaps # 0
  BY ClientDaemonAssumption
<1>6. 0 \in 0..MaxCalls /\ 0 \in 0..MaxCrashes /\ 0 \in 0..MaxPower /\ 1 \in 1..MaxCaps
  BY <1>5
<1>7. /\ alive \in [Clients -> BOOLEAN] /\ impl \in [Clients -> Client!ImplType]
      /\ task \in [Clients -> Seq(Client!TaskMsg)] /\ calls \in [Clients -> 0..MaxCalls]
      /\ app \in [Clients -> {<<>>} \cup {<<i>> : i \in Intervals}]
      /\ wish \in [Clients -> {<<>>} \cup {<<i>> : i \in Intervals}]
      /\ listened \in [Clients -> BOOLEAN]
  BY <1>2, <1>3, <1>6 DEF Init, Client!ClientInit
<1>8. /\ handler \in [Clients -> HandlerType \cup {NoHandler}] /\ inbox \in Seq(Client!InboxMsg)
      /\ suspended \in BOOLEAN /\ up \in BOOLEAN /\ caps \in 1..MaxCaps
      /\ crashes \in 0..MaxCrashes /\ powers \in 0..MaxPower
      /\ maint \in [left : SUBSET Clients, purging : SUBSET Clients]
      /\ cleanups \in [Clients -> Nat]
  <2>1. maint = [left |-> {}, purging |-> {}]
    BY DEF Init, Daemon!DaemonInit, Daemon!Idle
  <2>2. maint \in [left : SUBSET Clients, purging : SUBSET Clients]
    BY <2>1
  <2>3. /\ handler = [c \in Clients |-> NoHandler] /\ cleanups = [c \in Clients |-> 0]
        /\ suspended = FALSE /\ up \in BOOLEAN /\ caps = 1 /\ crashes = 0 /\ powers = 0
        /\ inbox = <<>>
    BY DEF Init, Daemon!DaemonInit
  <2>4. /\ handler \in [Clients -> HandlerType \cup {NoHandler}]
        /\ cleanups \in [Clients -> Nat]
    BY <2>3
  <2>5. /\ suspended \in BOOLEAN /\ up \in BOOLEAN /\ caps \in 1..MaxCaps
        /\ crashes \in 0..MaxCrashes /\ powers \in 0..MaxPower
    BY <1>6, <2>3
  <2>6. inbox \in Seq(Client!InboxMsg)
    BY <1>2, <2>3
  <2> QED
    BY <2>2, <2>4, <2>5, <2>6
<1> QED
  BY <1>4, <1>7, <1>8 DEF TypeOK

(* The application's steps keep the types.                                 *)
LEMMA AppTypes ==
    ASSUME TypeOK, NEW c \in Clients, AppStep(c)
    PROVE  TypeOK'
<1> USE DEF daemonOnly
<1>1. /\ task[c] \in Seq(Client!TaskMsg) /\ calls[c] \in 0..MaxCalls /\ MaxCalls \in Nat
      /\ inbox \in Seq(Client!InboxMsg)
  BY ClientDaemonAssumption DEF TypeOK
<1>2. ASSUME NEW i \in Intervals, NEW m \in Masks, Client!StartPositionSession(c, i, m)
      PROVE  TypeOK'
  <2>1. Append(task[c], [op |-> "callbacks", mask |-> m]) \in Seq(Client!TaskMsg)
    <3>1. [op |-> "callbacks", mask |-> m] \in Client!TaskMsg
      BY DEF Client!TaskMsg
    <3> QED
      BY <1>1, <3>1
  <2>2. calls[c] + 1 \in 0..MaxCalls
    BY <1>1, <1>2 DEF Client!StartPositionSession
  <2> QED
    BY <1>2, <2>1, <2>2, AppStep(c) DEF TypeOK, Client!StartPositionSession, Client!Post, AppStep
<1>3. ASSUME Client!PostStartTracking(c) PROVE TypeOK'
  <2>1. PICK i \in Intervals : app[c] = <<i>>
    BY <1>3 DEF Client!PostStartTracking, TypeOK
  <2>2. [op |-> "start", interval |-> i] \in Client!TaskMsg
    BY DEF Client!TaskMsg
  <2>3. Append(task[c], [op |-> "start", interval |-> i]) \in Seq(Client!TaskMsg)
        /\ Head(app[c]) = i
    BY <1>1, <2>1, <2>2
  <2> QED
    BY <1>3, <2>1, <2>3, AppStep(c) DEF TypeOK, Client!PostStartTracking, Client!Post, AppStep
<1>4. ASSUME Client!StopPositionSession(c) PROVE TypeOK'
  <2>1. [op |-> "stop"] \in Client!TaskMsg
    BY DEF Client!TaskMsg
  <2>2. Append(task[c], [op |-> "stop"]) \in Seq(Client!TaskMsg)
    BY <1>1, <2>1
  <2>3. calls[c] + 1 \in 0..MaxCalls
    BY <1>1, <1>4 DEF Client!StopPositionSession
  <2> QED
    BY <1>4, <2>2, <2>3, AppStep(c) DEF TypeOK, Client!StopPositionSession, Client!Post, AppStep
<1>5. ASSUME Client!Destroy(c) PROVE TypeOK'
  <2>1. [op |-> "destroy"] \in Client!TaskMsg
    BY DEF Client!TaskMsg
  <2>2. Append(task[c], [op |-> "destroy"]) \in Seq(Client!TaskMsg)
    BY <1>1, <2>1
  <2> QED
    BY <1>1, <1>5, <2>2, AppStep(c) DEF TypeOK, Client!Destroy, Client!Post, AppStep
<1>6. ASSUME Client!ClientDies(c) PROVE TypeOK'
  <2>1. Client!NewImpl \in Client!ImplType /\ <<>> \in Seq(Client!TaskMsg)
    BY DEF Client!NewImpl, Client!ImplType, Client!Passive, Client!NoMask
  <2> QED
    BY <1>6, <2>1, AppStep(c) DEF TypeOK, Client!ClientDies, Client!Gone, AppStep
<1> QED
  BY <1>2, <1>3, <1>4, <1>5, <1>6 DEF AppStep, Client!AppStep

(* What a client sends keeps the type of the daemon's queue.               *)
LEMMA SendType ==
    ASSUME TypeOK, NEW m \in Client!InboxMsg, Client!Send(<<m>>)
    PROVE  inbox' \in Seq(Client!InboxMsg)
BY DEF TypeOK, Client!Send

(* Sending nothing leaves the queue alone.                                 *)
LEMMA SendNothing ==
    ASSUME TypeOK, Client!Send(<<>>)
    PROVE  inbox' = inbox
BY DEF TypeOK, Client!Send

(* The steps of a client's task keep the types.                            *)
LEMMA TaskTypes ==
    ASSUME TypeOK, NEW c \in Clients, TaskStep(c)
    PROVE  TypeOK'
<1> USE DEF daemonOnly, Client!appVars
<1>1. /\ task[c] \in Seq(Client!TaskMsg) /\ inbox \in Seq(Client!InboxMsg)
      /\ impl[c] \in Client!ImplType
  BY DEF TypeOK
<1>2. task[c] # <<>> => Head(task[c]) \in Client!TaskMsg /\ Tail(task[c]) \in Seq(Client!TaskMsg)
  BY <1>1
<1>3. UNCHANGED daemonOnly
  BY DEF TaskStep
<1>4. ASSUME Client!ClientRegisterReq(c) PROVE TypeOK'
  <2>1. [from |-> c, op |-> "register"] \in Client!InboxMsg
    BY DEF Client!InboxMsg
  <2>2. inbox' \in Seq(Client!InboxMsg)
    BY <1>4, <2>1, SendType DEF Client!ClientRegisterReq
  <2> QED
    BY <1>2, <1>3, <1>4, <2>2 DEF TypeOK, Client!ClientRegisterReq, Client!Processes, Client!Pop
<1>5. ASSUME Client!UpdateCallbacksReq(c) PROVE TypeOK'
  <2>1. Head(task[c]).mask \in Masks
    BY <1>2, <1>5 DEF Client!UpdateCallbacksReq, Client!Processes, Client!TaskMsg
  <2>2. [from |-> c, op |-> "callbacks", mask |-> Head(task[c]).mask] \in Client!InboxMsg
    BY <2>1 DEF Client!InboxMsg
  <2>3. inbox' \in Seq(Client!InboxMsg)
    BY <1>1, <1>5, <2>2, SendType, SendNothing DEF Client!UpdateCallbacksReq
  <2>4. [impl[c] EXCEPT !.pending = TRUE, !.mask = Head(task[c]).mask] \in Client!ImplType
    BY <1>1, <2>1 DEF Client!ImplType
  <2> QED
    BY <1>2, <1>3, <1>5, <2>3, <2>4
    DEF TypeOK, Client!UpdateCallbacksReq, Client!Processes, Client!Pop, Client!Update
<1>6. ASSUME Client!StartTrackingReq(c) PROVE TypeOK'
  <2> DEFINE i == Head(task[c]).interval
  <2>1. i \in Intervals \cup {0}
    BY <1>2, <1>6 DEF Client!StartTrackingReq, Client!Processes, Client!TaskMsg
  <2>2. /\ i # 0 => [from |-> c, op |-> "start", interval |-> i] \in Client!InboxMsg
        /\ Client!UpdateMessage(c, impl[c].interval, i) \in Client!InboxMsg
    BY <2>1 DEF Client!InboxMsg, Client!UpdateMessage, Client!Passive
  <2>3. inbox' \in Seq(Client!InboxMsg)
    BY <1>1, <1>6, <2>2, SendType, SendNothing DEF Client!StartTrackingReq, Client!Passive
  <2>4. /\ [impl[c] EXCEPT !.pending = FALSE] \in Client!ImplType
        /\ [impl[c] EXCEPT !.interval = i, !.session = TRUE] \in Client!ImplType
    BY <1>1, <2>1 DEF Client!ImplType
  <2> QED
    BY <1>2, <1>3, <1>6, <2>3, <2>4
    DEF TypeOK, Client!StartTrackingReq, Client!Processes, Client!Pop, Client!Update
<1>7. ASSUME Client!StopTrackingReq(c) PROVE TypeOK'
  <2>1. [from |-> c, op |-> "stop"] \in Client!InboxMsg
    BY DEF Client!InboxMsg
  <2>2. inbox' \in Seq(Client!InboxMsg)
    BY <1>1, <1>7, <2>1, SendType, SendNothing DEF Client!StopTrackingReq
  <2>3. [impl[c] EXCEPT !.session = FALSE, !.interval = Client!Passive, !.mask = Client!NoMask]
          \in Client!ImplType
    BY <1>1 DEF Client!ImplType, Client!Passive, Client!NoMask
  <2> QED
    BY <1>1, <1>2, <1>3, <1>7, <2>2, <2>3
    DEF TypeOK, Client!StopTrackingReq, Client!Processes, Client!Pop, Client!Update
<1>8. ASSUME Client!DestroyReq(c) PROVE TypeOK'
  <2>1. [from |-> c, op |-> "deregister"] \in Client!InboxMsg
    BY DEF Client!InboxMsg
  <2>2. inbox' \in Seq(Client!InboxMsg)
    BY <1>1, <1>8, <2>1, SendType, SendNothing DEF Client!DestroyReq
  <2>3. Client!NewImpl \in Client!ImplType /\ <<>> \in Seq(Client!TaskMsg)
    BY DEF Client!NewImpl, Client!ImplType, Client!Passive, Client!NoMask
  <2> QED
    BY <1>3, <1>8, <2>2, <2>3 DEF TypeOK, Client!DestroyReq, Client!Gone
<1>9. ASSUME Client!CapabilitiesCallback(c) PROVE TypeOK'
  <2>1. /\ impl[c].mask # {}
           => [from |-> c, op |-> "callbacks", mask |-> impl[c].mask] \in Client!InboxMsg
        /\ [op |-> "start", interval |-> impl[c].interval] \in Client!TaskMsg
    BY <1>1 DEF Client!InboxMsg, Client!TaskMsg, Client!ImplType, Client!NoMask
  <2>2. inbox' \in Seq(Client!InboxMsg)
    BY <1>1, <1>9, <2>1, SendType, SendNothing DEF Client!CapabilitiesCallback, Client!NoMask
  <2>3. [impl[c] EXCEPT !.reg = TRUE, !.session = FALSE] \in Client!ImplType
    BY <1>1 DEF Client!ImplType
  <2>4. /\ Tail(task[c]) \o <<[op |-> "start", interval |-> impl[c].interval]>> \in Seq(Client!TaskMsg)
        /\ Tail(task[c]) \o <<>> \in Seq(Client!TaskMsg)
    BY <1>2, <1>9, <2>1 DEF Client!CapabilitiesCallback, Client!Processes
  <2> QED
    BY <1>3, <1>9, <2>2, <2>3, <2>4 DEF TypeOK, Client!CapabilitiesCallback, Client!Update
<1>10. ASSUME Client!HalReady(c) PROVE TypeOK'
  <2>1. [op |-> "register"] \in Client!TaskMsg
    BY DEF Client!TaskMsg
  <2>2. Append(Tail(task[c]), [op |-> "register"]) \in Seq(Client!TaskMsg)
    BY <1>2, <1>10, <2>1 DEF Client!HalReady, Client!Processes
  <2>3. [impl[c] EXCEPT !.reg = FALSE] \in Client!ImplType
    BY <1>1 DEF Client!ImplType
  <2> QED
    BY <1>3, <1>10, <2>2, <2>3 DEF TypeOK, Client!HalReady, Client!Update
<1>11. ASSUME Client!Response(c) PROVE TypeOK'
  <2>1. [impl[c] EXCEPT !.pending = @ /\ Head(task[c]).to = "stop"] \in Client!ImplType
    BY <1>1 DEF Client!ImplType
  <2> QED
    BY <1>2, <1>3, <1>11, <2>1 DEF TypeOK, Client!Response, Client!Processes, Client!Pop,
      Client!Update
<1> QED
  BY <1>4, <1>5, <1>6, <1>7, <1>8, <1>9, <1>10, <1>11 DEF TaskStep, Client!TaskStep

(* What a step may do to the handlers and to the count of cleanups.        *)
HandlersOK ==
    /\ handler \in [Clients -> HandlerType \cup {NoHandler}]
    /\ cleanups \in [Clients -> Nat]

(* The handlers in a state that has its types.                             *)
LEMMA HandlersHave == TypeOK => HandlersOK
BY DEF TypeOK, HandlersOK

(* Deleting a client cleans its handler up.                                *)
LEMMA DeleteTypes ==
    ASSUME HandlersOK, NEW c \in Clients, Daemon!DeleteClientbyName(c)
    PROVE  HandlersOK'
<1>1. cleanups[c] + 1 \in Nat
  BY DEF HandlersOK
<1> QED
  BY <1>1 DEF HandlersOK, Daemon!DeleteClientbyName, Daemon!Set

(* A handler is replaced.                                                  *)
LEMMA SetTypes ==
    ASSUME HandlersOK, NEW c \in Clients, NEW h \in HandlerType, Daemon!Set(c, h),
           cleanups' = [cleanups EXCEPT ![c] = 0] \/ cleanups' = cleanups
    PROVE  HandlersOK'
<1>1. 0 \in Nat
  OBVIOUS
<1> QED
  BY <1>1 DEF HandlersOK, Daemon!Set

(* The message the receiver takes.                                         *)
LEMMA Taken ==
    ASSUME TypeOK, NEW op, Daemon!Receives(op)
    PROVE  /\ Head(inbox) \in Client!InboxMsg /\ Daemon!Sender \in Clients
           /\ inbox' \in Seq(Client!InboxMsg)
<1>1. inbox \in Seq(Client!InboxMsg) /\ inbox # <<>>
  BY DEF TypeOK, Daemon!Receives
<1>2. Head(inbox) \in Client!InboxMsg /\ Tail(inbox) \in Seq(Client!InboxMsg)
  BY <1>1
<1> QED
  BY <1>2 DEF Daemon!Receives, Daemon!Sender, Client!InboxMsg

(* A request keeps the types if the handler it leaves has its type.        *)
LEMMA HandlesTypes ==
    ASSUME TypeOK, NEW op, NEW h, Daemon!Handles(op, h), UNCHANGED clientOnly,
           Registered(Daemon!Sender) => h \in HandlerType
    PROVE  TypeOK'
<1>1. Daemon!Sender \in Clients /\ inbox' \in Seq(Client!InboxMsg)
  BY Taken DEF Daemon!Handles
<1>2. HandlersOK'
  <2>1. HandlersOK
    BY HandlersHave
  <2>2. CASE Registered(Daemon!Sender)
    BY <1>1, <2>1, <2>2, SetTypes DEF Daemon!Handles, Daemon!Registered, Registered
  <2>3. CASE ~Registered(Daemon!Sender)
    BY <2>1, <2>3 DEF Daemon!Handles, Daemon!Registered, Registered, HandlersOK
  <2> QED
    BY <2>2, <2>3
<1> QED
  BY <1>1, <1>2 DEF TypeOK, HandlersOK, Daemon!Handles, clientOnly

(* A new handler has its type.                                             *)
LEMMA NewHandlerType == caps \in 1..MaxCaps => Daemon!NewHandler \in HandlerType
<1> SUFFICES ASSUME caps \in 1..MaxCaps PROVE Daemon!NewHandler \in HandlerType
  OBVIOUS
<1>1. [op |-> "caps", value |-> caps] \in AnswerMsg
  BY DEF AnswerMsg
<1>2. <<[op |-> "caps", value |-> caps]>> \in Seq(AnswerMsg) /\ <<>> \in Seq(Operations)
  BY <1>1
<1>3. 0 \in 0..MaxCaps /\ 0 \in Nat
  BY ClientDaemonAssumption
<1> QED
  BY <1>2, <1>3 DEF Daemon!NewHandler, HandlerType

(* The receiver keeps the types.                                           *)
LEMMA ReceiverTypes ==
    ASSUME TypeOK, Receiver
    PROVE  TypeOK'
<1> DEFINE s == Daemon!Sender
<1>1. UNCHANGED clientOnly /\ Daemon!Receiver
  BY DEF Receiver
<1>2. HandlersOK
  BY HandlersHave
<1>3. Intervals \subseteq Nat
  BY ClientDaemonAssumption
<1>4. Registered(s) /\ s \in Clients => handler[s] \in HandlerType
  BY DEF TypeOK, Registered
<1>5. ASSUME Daemon!NewClient PROVE TypeOK'
  <2>1. s \in Clients /\ inbox' \in Seq(Client!InboxMsg)
    BY <1>5, Taken DEF Daemon!NewClient
  <2>2. Daemon!NewHandler \in HandlerType
    BY NewHandlerType DEF TypeOK
  <2>3. HandlersOK'
    <3>1. CASE Registered(s)
      BY <1>2, <1>5, <3>1 DEF Daemon!NewClient, Daemon!Registered, Registered, HandlersOK
    <3>2. CASE ~Registered(s)
      BY <1>2, <1>5, <2>1, <2>2, <3>2, SetTypes DEF Daemon!NewClient, Daemon!Registered, Registered
    <3> QED
      BY <3>1, <3>2
  <2> QED
    BY <1>1, <1>5, <2>1, <2>3 DEF TypeOK, HandlersOK, Daemon!NewClient, clientOnly
<1>6. ASSUME Daemon!DeleteClient PROVE TypeOK'
  <2>1. s \in Clients /\ inbox' \in Seq(Client!InboxMsg)
    BY <1>6, Taken DEF Daemon!DeleteClient
  <2>2. HandlersOK'
    BY <1>2, <1>6, <2>1, DeleteTypes DEF Daemon!DeleteClient
  <2> QED
    BY <1>1, <1>6, <2>1, <2>2 DEF TypeOK, HandlersOK, Daemon!DeleteClient, clientOnly
<1>7. ASSUME Daemon!StartTracking PROVE TypeOK'
  <2>1. s \in Clients /\ Head(inbox).interval \in Nat
    <3>1. Daemon!Receives("start")
      BY <1>7 DEF Daemon!StartTracking, Daemon!Handles
    <3>2. Head(inbox) \in Client!InboxMsg /\ Head(inbox).op = "start"
      BY <3>1, Taken DEF Daemon!Receives
    <3> QED
      BY <1>3, <3>1, <3>2, Taken DEF Client!InboxMsg
  <2>2. ASSUME Registered(s)
        PROVE  Daemon!Push([Daemon!HandlerStart(handler[s], Head(inbox).interval)
                    EXCEPT !.tracking = TRUE], "start") \in HandlerType
    <3>1. Daemon!HandlerStart(handler[s], Head(inbox).interval) \in HandlerType
      BY <1>4, <2>1, <2>2, HandlerOps
    <3>2. [Daemon!HandlerStart(handler[s], Head(inbox).interval) EXCEPT !.tracking = TRUE]
             \in HandlerType
      BY <3>1 DEF HandlerType
    <3> QED
      BY <3>2, PushType DEF Operations
  <2> QED
    BY <1>1, <1>7, <2>2, HandlesTypes DEF Daemon!StartTracking
<1>8. ASSUME Daemon!StopTracking PROVE TypeOK'
  <2>1. s \in Clients
    BY <1>8, Taken DEF Daemon!StopTracking, Daemon!Handles
  <2>2. ASSUME Registered(s)
        PROVE  Daemon!Push(
                  Daemon!HandlerStop([handler[s] EXCEPT !.tracking = FALSE, !.mask = {}]), "stop")
                  \in HandlerType
    <3>1. [handler[s] EXCEPT !.tracking = FALSE, !.mask = {}] \in HandlerType
      BY <1>4, <2>1, <2>2 DEF HandlerType
    <3>2. Daemon!HandlerStop([handler[s] EXCEPT !.tracking = FALSE, !.mask = {}]) \in HandlerType
      BY <3>1, HandlerOps
    <3> QED
      BY <3>2, PushType DEF Operations
  <2> QED
    BY <1>1, <1>8, <2>2, HandlesTypes DEF Daemon!StopTracking
<1>9. ASSUME Daemon!UpdateTrackingOptions PROVE TypeOK'
  <2>1. s \in Clients /\ Head(inbox).interval \in Nat
    <3>1. Daemon!Receives("update")
      BY <1>9 DEF Daemon!UpdateTrackingOptions, Daemon!Handles
    <3>2. Head(inbox) \in Client!InboxMsg /\ Head(inbox).op = "update"
      BY <3>1, Taken DEF Daemon!Receives
    <3> QED
      BY <1>3, <3>1, <3>2, Taken DEF Client!InboxMsg
  <2>2. ASSUME Registered(s)
        PROVE  Daemon!Push(Daemon!HandlerUpdate(handler[s], Head(inbox).interval), "update")
                  \in HandlerType
    <3>1. Daemon!HandlerUpdate(handler[s], Head(inbox).interval) \in HandlerType
      BY <1>4, <2>1, <2>2, HandlerOps
    <3> QED
      BY <3>1, PushType DEF Operations
  <2> QED
    BY <1>1, <1>9, <2>2, HandlesTypes DEF Daemon!UpdateTrackingOptions
<1>10. ASSUME Daemon!UpdateSubscription PROVE TypeOK'
  <2>1. s \in Clients /\ Head(inbox).mask \in Masks
    <3>1. Daemon!Receives("callbacks")
      BY <1>10 DEF Daemon!UpdateSubscription, Daemon!Handles
    <3>2. Head(inbox) \in Client!InboxMsg /\ Head(inbox).op = "callbacks"
      BY <3>1, Taken DEF Daemon!Receives
    <3> QED
      BY <3>1, <3>2, Taken DEF Client!InboxMsg
  <2>2. Registered(s) => [handler[s] EXCEPT !.mask = Head(inbox).mask] \in HandlerType
    BY <1>4, <2>1 DEF HandlerType
  <2> QED
    BY <1>1, <1>10, <2>2, HandlesTypes DEF Daemon!UpdateSubscription
<1> QED
  BY <1>1, <1>5, <1>6, <1>7, <1>8, <1>9, <1>10 DEF Daemon!Receiver

(* Telling a client, or deleting it if it is gone, keeps the types.        *)
LEMMA SendOrPurgeTypes ==
    ASSUME TypeOK, NEW c \in Clients, Registered(c),
           NEW m \in Client!TaskMsg, NEW h \in HandlerType, Daemon!SendOrPurge(c, m, h)
    PROVE  HandlersOK' /\ task' \in [Clients -> Seq(Client!TaskMsg)]
<1>1. HandlersOK
  BY HandlersHave
<1>2. task \in [Clients -> Seq(Client!TaskMsg)]
  BY DEF TypeOK
<1>3. CASE alive[c]
  <2>1. Append(task[c], m) \in Seq(Client!TaskMsg)
    BY <1>2
  <2> QED
    BY <1>1, <1>2, <1>3, <2>1, SetTypes DEF Daemon!SendOrPurge
<1>4. CASE ~alive[c]
  BY <1>1, <1>2, <1>4, DeleteTypes DEF Daemon!SendOrPurge
<1> QED
  BY <1>3, <1>4

(* A list without one of its elements.                                     *)
LEMMA Without ==
    ASSUME NEW S, NEW s \in Seq(S), NEW i \in 1..Len(s)
    PROVE  /\ SubSeq(s, 1, i - 1) \o SubSeq(s, i + 1, Len(s)) \in Seq(S)
           /\ i = 1 => SubSeq(s, 1, i - 1) \o SubSeq(s, i + 1, Len(s)) = Tail(s)
<1>1. SubSeq(s, 1, i - 1) \in Seq(S) /\ SubSeq(s, i + 1, Len(s)) \in Seq(S)
  OBVIOUS
<1>2. ASSUME i = 1 PROVE SubSeq(s, 1, i - 1) \o SubSeq(s, i + 1, Len(s)) = Tail(s)
  <2>1. SubSeq(s, 1, 0) = <<>> /\ SubSeq(s, 2, Len(s)) = Tail(s)
    BY <1>2
  <2> QED
    BY <1>1, <1>2, <2>1
<1>3. SubSeq(s, 1, i - 1) \o SubSeq(s, i + 1, Len(s)) \in Seq(S)
  BY <1>1, ConcatProperties
<1> QED
  BY <1>2, <1>3

(* The answers of the adapters keep the types.                             *)
LEMMA AnswerTypes ==
    ASSUME TypeOK, NEW c \in Clients, Answer(c)
    PROVE  TypeOK'
<1>1. UNCHANGED clientOnly /\ Daemon!Answer(c)
  BY DEF Answer
<1>2. HandlersOK
  BY HandlersHave
<1>3. /\ Registered(c) /\ handler[c] \in HandlerType
      /\ handler[c].answers \in Seq(AnswerMsg) /\ handler[c].pending \in Seq(Operations)
  BY <1>1 DEF Daemon!Answer, Daemon!OnResponseCb, Daemon!OnCapabilitiesCallback,
     Daemon!Registered, Registered, TypeOK, HandlerType
<1>5. ASSUME Daemon!OnResponseCb(c) PROVE TypeOK'
  <2> DEFINE h == [handler[c] EXCEPT !.answers = Tail(@)]
  <2>1. h \in HandlerType /\ h.pending = handler[c].pending
    <3>1. Tail(handler[c].answers) \in Seq(AnswerMsg)
      BY <1>3, <1>5 DEF Daemon!OnResponseCb
    <3> QED
      BY <1>3, <3>1 DEF HandlerType
  <2>2. HandlersOK' /\ task' \in [Clients -> Seq(Client!TaskMsg)]
    <3>1. CASE handler[c].pending = <<>>
      <4>1. Daemon!Set(c, h) /\ UNCHANGED <<task, cleanups>>
        BY <1>5, <2>1, <3>1 DEF Daemon!OnResponseCb
      <4> QED
        BY <1>2, <1>3, <2>1, <4>1, SetTypes DEF TypeOK
    <3>2. CASE handler[c].pending # <<>>
      <4>1. Head(handler[c].pending) \in Operations /\ Tail(handler[c].pending) \in Seq(Operations)
        BY <1>3, <3>2
      <4>2. [op |-> "response", to |-> Head(h.pending)] \in Client!TaskMsg
        BY <2>1, <4>1 DEF Client!TaskMsg, Operations
      <4>3. [h EXCEPT !.pending = Tail(@)] \in HandlerType
        BY <2>1, <4>1 DEF HandlerType
      <4>4. Daemon!SendOrPurge(c, [op |-> "response", to |-> Head(h.pending)],
                               [h EXCEPT !.pending = Tail(@)])
        BY <1>5, <2>1, <3>2 DEF Daemon!OnResponseCb
      <4> HIDE DEF h
      <4> QED
        BY <1>3, <4>2, <4>3, <4>4, SendOrPurgeTypes
    <3> QED
      BY <3>1, <3>2
  <2> QED
    BY <1>1, <1>5, <2>2 DEF TypeOK, HandlersOK, Daemon!OnResponseCb, clientOnly
<1>6. ASSUME Daemon!OnCapabilitiesCallback(c) PROVE TypeOK'
  <2> DEFINE a == handler[c].answers
             f(i) == [handler[c] EXCEPT !.answers = SubSeq(a, 1, i - 1) \o SubSeq(a, i + 1, Len(a)),
                                        !.caps = a[i].value]
  <2>0. PICK i \in 1..Len(a) :
          /\ a[i].op = "caps"
          /\ \/ Daemon!Set(c, f(i)) /\ UNCHANGED <<task, cleanups>>
             \/ Daemon!SendOrPurge(c, [op |-> "caps"], f(i))
    BY <1>6 DEF Daemon!OnCapabilitiesCallback
  <2> DEFINE v == a[i].value
             h == f(i)
  <2>1. v \in 1..MaxCaps
    <3>1. a[i] \in AnswerMsg
      BY <1>3
    <3> QED
      BY <2>0, <3>1 DEF AnswerMsg
  <2>2. v \in 0..MaxCaps
    BY <2>1, ClientDaemonAssumption
  <2>3. h \in HandlerType
    <3>1. SubSeq(a, 1, i - 1) \o SubSeq(a, i + 1, Len(a)) \in Seq(AnswerMsg)
      BY <1>3, Without
    <3> QED
      BY <1>3, <2>2, <3>1 DEF HandlerType
  <2>4. [op |-> "caps"] \in Client!TaskMsg
    BY DEF Client!TaskMsg
  <2>5. \/ Daemon!Set(c, h) /\ UNCHANGED <<task, cleanups>>
        \/ Daemon!SendOrPurge(c, [op |-> "caps"], h)
    BY <2>0
  <2> HIDE DEF h, f
  <2>6. HandlersOK' /\ task' \in [Clients -> Seq(Client!TaskMsg)]
    BY <1>2, <1>3, <2>3, <2>4, <2>5, SetTypes, SendOrPurgeTypes DEF TypeOK
  <2> QED
    BY <1>1, <1>6, <2>6 DEF TypeOK, HandlersOK, Daemon!OnCapabilitiesCallback,
      clientOnly
<1> QED
  BY <1>1, <1>5, <1>6 DEF Daemon!Answer

(* The daemon's start and end keep the types.                              *)
LEMMA LifeTypes ==
    ASSUME TypeOK, DaemonStart \/ DaemonCrash
    PROVE  TypeOK'
<1>1. ASSUME DaemonStart PROVE TypeOK'
  <2>1. [op |-> "ready"] \in Client!TaskMsg
    BY DEF Client!TaskMsg
  <2>2. task' \in [Clients -> Seq(Client!TaskMsg)]
    <3>1. \A c \in Clients : task[c] \in Seq(Client!TaskMsg)
          /\ Append(task[c], [op |-> "ready"]) \in Seq(Client!TaskMsg)
      BY <2>1 DEF TypeOK
    <3> QED
      BY <1>1, <3>1 DEF DaemonStart, Daemon!DaemonStart
  <2> QED
    BY <1>1, <2>2 DEF TypeOK, Registered, DaemonStart, Daemon!DaemonStart,
      Daemon!daemonVars, clientOnly
<1>2. ASSUME DaemonCrash PROVE TypeOK'
  <2>1. crashes' \in 0..MaxCrashes
    BY <1>2, ClientDaemonAssumption DEF DaemonCrash, Daemon!DaemonCrash, TypeOK
  <2>2. handler' = [c \in Clients |-> NoHandler] /\ cleanups' = [c \in Clients |-> 0]
        /\ maint' = [left |-> {}, purging |-> {}] /\ inbox' = <<>> /\ suspended' = FALSE
           /\ up' = FALSE
        /\ UNCHANGED <<task, alive, caps, powers, clientOnly>>
    BY <1>2 DEF DaemonCrash, Daemon!DaemonCrash, Daemon!Idle
  <2>3. /\ handler' \in [Clients -> HandlerType \cup {NoHandler}]
        /\ cleanups' \in [Clients -> Nat]
           /\ maint' \in [left : SUBSET Clients, purging : SUBSET Clients]
        /\ inbox' \in Seq(Client!InboxMsg)
    <3>1. 0 \in Nat /\ <<>> \in Seq(Client!InboxMsg)
      OBVIOUS
    <3>2. [left |-> {}, purging |-> {}] \in [left : SUBSET Clients, purging : SUBSET Clients]
      OBVIOUS
    <3>3. handler' \in [Clients -> HandlerType \cup {NoHandler}]
      BY <2>2
    <3>4. cleanups' \in [Clients -> Nat]
      BY <2>2, <3>1
    <3> QED
      BY <2>2, <3>1, <3>2, <3>3, <3>4
  <2> QED
    BY <2>1, <2>2, <2>3 DEF TypeOK, clientOnly
<1> QED
  BY <1>1, <1>2

(* A step that changes every handler in place keeps who is registered.     *)
LEMMA InPlaceTypes ==
    ASSUME TypeOK,
           DOMAIN handler' = Clients, handler' = [c \in Clients |-> handler'[c]],
           \A c \in Clients : \/ handler'[c] \in HandlerType /\ Registered(c)
                              \/ handler'[c] = handler[c]
    PROVE  /\ handler' \in [Clients -> HandlerType \cup {NoHandler}]
           /\ \A c \in Clients : Registered(c)' <=> Registered(c)
<1>1. \A c \in Clients : handler[c] \in HandlerType \cup {NoHandler}
  BY DEF TypeOK
<1>2. \A c \in Clients : Registered(c)' <=> Registered(c)
  BY HandlerAssumption DEF Registered
<1> QED
  BY <1>1, <1>2

(* Power events keep the types, and who is registered.                     *)
LEMMA PowerTypes ==
    ASSUME TypeOK, PowerEvent
    PROVE  TypeOK' /\ \A c \in Clients : Registered(c)' <=> Registered(c)
<1>1. \A h \in HandlerType : /\ Daemon!Push(Daemon!HandlerStop(h), "stop") \in HandlerType
                             /\ Daemon!Push(Daemon!HandlerRestart(h), "start") \in HandlerType
  <2> TAKE h \in HandlerType
  <2>1. Daemon!HandlerStop(h) \in HandlerType /\ Daemon!HandlerRestart(h) \in HandlerType
    <3>1. 0 \in Nat
      OBVIOUS
    <3> QED
      BY <3>1, HandlerOps
  <2> QED
    BY <2>1, PushType DEF Operations
<1>2. /\ handler' \in [Clients -> HandlerType \cup {NoHandler}]
      /\ \A c \in Clients : Registered(c)' <=> Registered(c)
  <2>1. \A c \in Clients : Registered(c) => handler[c] \in HandlerType
    BY DEF TypeOK, Registered
  <2>3. \/ handler' = [c \in Clients |-> IF Registered(c) /\ handler[c].tracking
                                         THEN Daemon!Push(Daemon!HandlerStop(handler[c]), "stop")
                                         ELSE handler[c]]
        \/ handler' = [c \in Clients |-> IF Registered(c) /\ handler[c].tracking
                                         THEN Daemon!Push(Daemon!HandlerRestart(handler[c]), "start")
                                         ELSE handler[c]]
    BY DEF PowerEvent, Daemon!Suspend, Daemon!Resume, Daemon!ForTracking, Daemon!Registered,
      Registered
  <2> QED
    BY <1>1, <2>1, <2>3, InPlaceTypes
<1>3. powers' \in 0..MaxPower /\ suspended' \in BOOLEAN
  <2>1. powers < MaxPower /\ powers' = powers + 1 /\ (suspended' = TRUE \/ suspended' = FALSE)
    BY Zenon DEF PowerEvent, Daemon!Suspend, Daemon!Resume
  <2>2. powers \in 0..MaxPower /\ MaxPower \in Nat
    BY ClientDaemonAssumption DEF TypeOK
  <2>3. powers' \in 0..MaxPower
    BY <2>1, <2>2
  <2> QED
    BY <2>1, <2>3
<1> QED
  BY <1>2, <1>3 DEF TypeOK, PowerEvent, Daemon!Suspend, Daemon!Resume, clientOnly

(* A change of the capabilities keeps the types, and who is registered.    *)
LEMMA CapsTypes ==
    ASSUME TypeOK, NewCapabilities
    PROVE  TypeOK' /\ \A c \in Clients : Registered(c)' <=> Registered(c)
<1>1. caps' = caps + 1 /\ caps + 1 \in 1..MaxCaps
  BY ClientDaemonAssumption DEF NewCapabilities, Daemon!BroadcastCapabilities, TypeOK
<1>2. [op |-> "caps", value |-> caps + 1] \in AnswerMsg
  BY <1>1 DEF AnswerMsg
<1> DEFINE g(h) == [h EXCEPT !.answers = Append(@, [op |-> "caps", value |-> caps + 1])]
<1>3. \A h \in HandlerType : g(h) \in HandlerType
  <2> TAKE h \in HandlerType
  <2>1. Append(h.answers, [op |-> "caps", value |-> caps + 1]) \in Seq(AnswerMsg)
    BY <1>2 DEF HandlerType
  <2> QED
    BY <2>1 DEF HandlerType
<1>4. handler' = [c \in Clients |-> IF Registered(c) THEN g(handler[c]) ELSE NoHandler]
  BY DEF NewCapabilities, Daemon!BroadcastCapabilities, Daemon!Registered, Registered
<1>6. \A c \in Clients : Registered(c) => handler[c] \in HandlerType
  BY DEF TypeOK, Registered
<1> HIDE DEF g
<1>7. /\ handler' \in [Clients -> HandlerType \cup {NoHandler}]
      /\ \A c \in Clients : Registered(c)' <=> Registered(c)
  BY <1>3, <1>4, <1>6, InPlaceTypes DEF Registered
<1> QED
  BY <1>1, <1>7 DEF TypeOK, NewCapabilities, Daemon!BroadcastCapabilities, clientOnly

(* The maintenance keeps the types.                                        *)
LEMMA MaintenanceTypes ==
    ASSUME TypeOK, MaintenanceStart \/ \E c \in Clients : Maintenance(c)
    PROVE  TypeOK'
<1>1. ASSUME MaintenanceStart PROVE TypeOK'
  <2>1. maint' = [left |-> {c \in Clients : Registered(c)}, purging |-> {}]
        /\ UNCHANGED <<up, handler, task, alive, inbox, suspended, caps, cleanups, crashes,
                       powers, clientOnly>>
    BY <1>1 DEF MaintenanceStart, Daemon!MaintenanceStart, Daemon!Registered, Registered
  <2>2. maint' \in [left : SUBSET Clients, purging : SUBSET Clients] /\ maint'.purging = {}
    BY <2>1
  <2> QED
    BY <2>1, <2>2 DEF TypeOK, Registered, clientOnly
<1>2. ASSUME NEW c \in Clients, Maintenance(c), Daemon!Ping(c) PROVE TypeOK'
  <2>1. maint' = [left |-> maint.left \ {c}, purging |-> IF ~alive[c] /\ Registered(c) THEN {c} ELSE {}]
        /\ UNCHANGED <<up, handler, task, alive, inbox, suspended, caps, cleanups, crashes,
                       powers, clientOnly>>
    BY <1>2 DEF Maintenance, Daemon!Ping, Daemon!Registered, Registered
  <2>2. maint' \in [left : SUBSET Clients, purging : SUBSET Clients]
    BY <2>1 DEF TypeOK
  <2> QED
    BY <2>1, <2>2 DEF TypeOK, Registered, clientOnly
<1>3. ASSUME NEW c \in Clients, Maintenance(c), Daemon!FinishPurge(c) PROVE TypeOK'
  <2>1. handler \in [Clients -> HandlerType \cup {NoHandler}] /\ cleanups[c] + 1 \in Nat
        /\ cleanups \in [Clients -> Nat]
    BY DEF TypeOK
  <2>3. HandlersOK'
    BY <1>3, <2>1 DEF HandlersOK, Daemon!FinishPurge, Daemon!Set
  <2>4. maint' \in [left : SUBSET Clients, purging : SUBSET Clients] /\ maint'.purging = {}
    BY <1>3 DEF Daemon!FinishPurge, TypeOK
  <2> QED
    BY <1>3, <2>3, <2>4 DEF TypeOK, HandlersOK, Daemon!FinishPurge, Maintenance,
      clientOnly
<1> QED
  BY <1>1, <1>2, <1>3 DEF Maintenance, Daemon!Maintenance

(* One step keeps the types.                                               *)
LEMMA TypesStep ==
    ASSUME TypeOK, [Next]_vars
    PROVE  TypeOK'
<1>1. CASE UNCHANGED vars
  BY <1>1 DEF vars, TypeOK
<1> QED
  BY <1>1, AppTypes, TaskTypes, AnswerTypes, MaintenanceTypes, LifeTypes, PowerTypes, CapsTypes,
    ReceiverTypes
  DEF Next

(* Clients and daemon keep their types in every environment, power events, *)
(* changes of the capabilities and deletions at any time included: what    *)
(* the application's calls, LocationClientApiImpl, LocationApiService and  *)
(* the handlers pass on is what the other side expects, and a passive      *)
(* session never reaches LocHalDaemonClientHandler as an interval.         *)
THEOREM TypesHold == Spec => []TypeOK
<1>1. Init => TypeOK
  BY InitType
<1>2. TypeOK /\ [Next]_vars => TypeOK'
  BY TypesStep
<1> QED
  BY <1>1, <1>2, PTL DEF Spec

(* One step keeps whom the maintenance is about to delete, if no other     *)
(* thread deletes it.                                                      *)
LEMMA StillThereStep ==
    ASSUME TypeOK, StillThere, "purge" \notin Anytime, [Next]_vars
    PROVE  StillThere'
<1> USE DEF StillThere, Registered
<1>1. CASE UNCHANGED <<handler, maint>>
  BY <1>1
<1>2. CASE \E c \in Clients : AppStep(c) \/ TaskStep(c)
  BY <1>1, <1>2 DEF AppStep, TaskStep, daemonOnly
<1>3. CASE maint.purging = {} /\ UNCHANGED maint
  BY <1>3
<1>4. CASE Receiver \/ \E c \in Clients : Answer(c)
  <2>1. maint.purging = {}
    BY <1>4 DEF Receiver, Answer, MayPurge
  <2>2. UNCHANGED maint
    BY <1>4 DEF Receiver, Answer, Daemon!Receiver, Daemon!NewClient, Daemon!DeleteClient,
      Daemon!StartTracking, Daemon!StopTracking, Daemon!UpdateTrackingOptions,
      Daemon!UpdateSubscription, Daemon!Handles, Daemon!Answer, Daemon!OnResponseCb,
      Daemon!OnCapabilitiesCallback
  <2> QED
    BY <1>3, <2>1, <2>2
<1>5. CASE PowerEvent \/ NewCapabilities
  <2>1. UNCHANGED maint
    BY <1>5 DEF PowerEvent, NewCapabilities, Daemon!Suspend, Daemon!Resume,
      Daemon!BroadcastCapabilities
  <2>2. \A c \in Clients : Registered(c)' <=> Registered(c)
    BY <1>5, PowerTypes, CapsTypes
  <2>3. maint.purging \subseteq Clients
    BY DEF TypeOK
  <2> QED
    BY <2>1, <2>2, <2>3
<1>6. CASE DaemonStart \/ DaemonCrash \/ MaintenanceStart
  BY <1>6 DEF DaemonStart, DaemonCrash, MaintenanceStart, Daemon!DaemonStart, Daemon!DaemonCrash,
    Daemon!MaintenanceStart, Daemon!daemonVars, Daemon!Idle
<1>7. CASE \E c \in Clients : Maintenance(c)
  <2>1. PICK c \in Clients : Daemon!Ping(c) \/ Daemon!FinishPurge(c)
    BY <1>7 DEF Maintenance, Daemon!Maintenance
  <2>2. CASE Daemon!Ping(c)
    BY <2>2 DEF Daemon!Ping, Daemon!Registered
  <2>3. CASE Daemon!FinishPurge(c)
    <3>1. maint'.purging = {}
      BY <2>3 DEF Daemon!FinishPurge, TypeOK
    <3> QED
      BY <3>1
  <2> QED
    BY <2>1, <2>2, <2>3
<1>8. CASE UNCHANGED vars
  BY <1>1, <1>8 DEF vars
<1> QED
  BY <1>2, <1>4, <1>5, <1>6, <1>7, <1>8 DEF Next
-----------------------------------------------------------------------------
(* The messages on both ways, by kind.                                     *)
Tasks(ops) == {m \in Client!TaskMsg : m.op \in ops}
From(c, ops) == {m \in Client!InboxMsg : m.from = c /\ m.op \in ops}

Ready == Tasks({"ready"})
Register == Tasks({"register"})
Caps == Tasks({"caps"})
Moves == Tasks({"start", "stop"})
Busy == Tasks({"register", "stop", "destroy", "ready", "callbacks", "start"})
Passives == {m \in Tasks({"start"}) : m.interval = 0}
WishOf(m) == IF m.op = "stop" THEN <<>> ELSE <<m.interval>>
MovesTo(w) == {m \in Moves : WishOf(m) = w}

Reg(c) == From(c, {"register"})
Bye(c) == From(c, {"deregister"})
Work(c) == From(c, {"callbacks", "start", "stop", "update"})
Errands(c) == From(c, {"start", "stop", "update", "register"})
Starts(c) == From(c, {"start"})
Flips(c) == From(c, {"start", "stop"})
Needs(c) == From(c, {"stop", "update"})
Sets(c) == From(c, {"start", "update"})
SetsTo(c, i) == {m \in Sets(c) : m.interval = i}
Shapes(c) == From(c, {"stop", "callbacks"})
MaskOf(m) == IF m.op = "stop" THEN {} ELSE m.mask
ShapesTo(c, mask) == {m \in Shapes(c) : MaskOf(m) = mask}

News == {m \in AnswerMsg : m.op = "caps"}
-----------------------------------------------------------------------------
(* The order of the messages a client has yet to process: the capabilities *)
(* of the daemon it knows, then the news of another daemon, and its new    *)
(* registration, which only that daemon will answer.                       *)
Queued(c) ==
    /\ ~alive[c] => task[c] = <<>>
    /\ InOrder(task[c], Ready, Register)
    /\ InOrder(task[c], Caps, Ready)
    /\ InOrder(task[c], Register, Caps)
    /\ AtMostOne(task[c], Caps)

(* A client the daemon does not know will register, and before it hears of *)
(* a new daemon takes nothing for granted; one that is known has been or   *)
(* will be told, once.  It sends no request before.                        *)
Enlisted(c) ==
    /\ ~up => ~Registered(c) /\ inbox = <<>> /\ ~suspended
    /\ alive[c] /\ up /\ ~Registered(c) =>
         \/ Has(task[c], Ready)
         \/ /\ Has(task[c], Register) \/ Has(inbox, Reg(c))
            /\ ~impl[c].reg /\ ~Has(task[c], Caps)
    /\ alive[c] /\ Registered(c) =>
         \/ handler[c].caps = 0 /\ Has(handler[c].answers, News)
         \/ impl[c].reg \/ Has(task[c], Caps)
    /\ Has(task[c], Ready) => ~Registered(c) /\ ~Has(inbox, Reg(c))
    /\ Has(task[c], Register) => ~impl[c].reg
    /\ Registered(c) /\ Has(task[c], Caps) => ~Has(handler[c].answers, News)
    /\ alive[c] /\ Registered(c) /\ ~impl[c].reg =>
         ~Has(inbox, Work(c)) /\ ~handler[c].tracking /\ handler[c].mask = {}
    /\ Has(inbox, Bye(c)) \/ c \in maint.purging => ~alive[c]

(* News of the capabilities meet no session and no call.                   *)
Undisturbed(c) ==
    alive[c] /\ Registered(c) /\ impl[c].reg =>
        /\ Has(handler[c].answers, News) => ~impl[c].session /\ ~Has(task[c], Moves)
        /\ Has(task[c], Caps) => ~impl[c].session /\ InOrder(task[c], Caps, Moves)

(* What the daemon has yet to receive from a client: requests of an        *)
(* earlier registration, which it will ignore, or requests each of which   *)
(* finds the session as the client left it.                                *)
Tracked(c) == Registered(c) /\ handler[c].tracking
Ignored(c) == ~Registered(c) /\ InOrder(inbox, Work(c), Reg(c))
Regular(c) ==
    /\ InOrder(inbox, Reg(c), Work(c))
    /\ Alternates(inbox, Flips(c), Starts(c), Needs(c), Tracked(c))
    /\ Has(inbox, Reg(c)) => ~Tracked(c)
Orders(c) ==
    /\ Ignored(c) \/ Regular(c)
    /\ alive[c] /\ ~Registered(c) => Ignored(c)

(* While the system is suspended nothing is asked of the daemon.           *)
Calm(c) ==
    suspended =>
        /\ ~Has(inbox, Errands(c)) /\ ~Has(task[c], Busy) /\ app[c] = <<>>
        /\ alive[c] => Registered(c) /\ impl[c].reg

(* The handler runs a session when it tracks, unless suspended, and every  *)
(* pending message id has an answer to come; news of the capabilities come *)
(* first.                                                                  *)
First(h) == IF h.answers # <<>> /\ h.answers[1].op = "caps" THEN 1 ELSE 0
Matched(h) ==
    /\ \A i \in 1..Len(h.answers) : h.answers[i].op = "caps" => i = 1
    /\ Len(h.answers) = Len(h.pending) + First(h)
Served(c) ==
    Registered(c) => /\ handler[c].session <=> (handler[c].tracking /\ ~suspended)
                     /\ Matched(handler[c])

(* Once it has received what is on its way, the daemon tracks for exactly  *)
(* the clients that believe so, and sends them what they asked for.        *)
Asks(c) == impl[c].reg /\ impl[c].session /\ impl[c].interval # 0
Listens(c) ==
    ~listened[c] => /\ ~Has(task[c], Passives)
                    /\ impl[c].session => impl[c].interval # 0
Agreed(c) ==
    alive[c] /\ Registered(c) =>
        /\ Finally(inbox, Flips(c), Starts(c), handler[c].tracking) <=> Asks(c)
        /\ impl[c].reg /\ ~listened[c] =>
             Finally(inbox, Shapes(c), ShapesTo(c, impl[c].mask), handler[c].mask = impl[c].mask)

(* ... at the interval they asked for.                                     *)
Paced(c) ==
    Registered(c) =>
        /\ handler[c].engine = handler[c].interval
        /\ alive[c] /\ Asks(c) =>
             Finally(inbox, Sets(c), SetsTo(c, impl[c].interval),
                     handler[c].interval = impl[c].interval)

(* A live client has the session its application asked for last, once it   *)
(* has processed its messages.                                             *)
Current(c) == IF impl[c].session THEN <<impl[c].interval>> ELSE <<>>
Wanted(c) ==
    alive[c] => /\ InOrder(task[c], Moves, Caps)
                /\ Finally(task[c], Moves, MovesTo(wish[c]), Current(c) = wish[c])

Linked(c) == /\ Queued(c) /\ Enlisted(c) /\ Undisturbed(c) /\ Orders(c) /\ Calm(c)
             /\ Served(c) /\ Listens(c) /\ Agreed(c)

(* The environment of the theorems: of what Anytime names only calls that  *)
(* overlap the handling of a capabilities indication.                      *)
OnlyCalls == Anytime \subseteq {"call"}
Supported == \A i \in Intervals : i = 0 \/ Daemon!GetSupportedTbf(i) = i
-----------------------------------------------------------------------------
(* What another client or the daemon leaves alone of client d.             *)
Untouched(d) ==
    /\ alive'[d] = alive[d] /\ impl'[d] = impl[d] /\ task'[d] = task[d] /\ app'[d] = app[d]
    /\ wish'[d] = wish[d] /\ listened'[d] = listened[d] /\ handler'[d] = handler[d]
    /\ UNCHANGED <<up, suspended>> /\ (d \in maint'.purging => ~alive[d])
    /\ \/ inbox' = inbox
       \/ up /\ \E m \in Client!InboxMsg : m.from # d /\ inbox' = Append(inbox, m)
       \/ up /\ inbox # <<>> /\ Head(inbox).from # d /\ inbox' = Tail(inbox)

(* The kinds, and how they lie in each other.                              *)
LEMMA InboxKinds ==
    ASSUME NEW c \in Clients, NEW i, NEW mask
    PROVE  /\ Starts(c) \in SUBSET Flips(c) /\ SetsTo(c, i) \in SUBSET Sets(c)
           /\ ShapesTo(c, mask) \in SUBSET Shapes(c)
BY DEF Starts, Flips, From, SetsTo, ShapesTo

(* A message of another client is of no kind of this one.                  *)
LEMMA Alien ==
    ASSUME NEW m \in Client!InboxMsg, NEW d, m.from # d
    PROVE  /\ m \notin Reg(d) /\ m \notin Bye(d) /\ m \notin Work(d) /\ m \notin Errands(d)
           /\ m \notin Starts(d) /\ m \notin Flips(d) /\ m \notin Needs(d) /\ m \notin Sets(d)
           /\ m \notin Shapes(d)
BY DEF Reg, Bye, Work, Errands, Starts, Flips, Needs, Sets, Shapes, From

(* A client's view of the messages on their way does not change.           *)
SameView(d) ==
    /\ Has(inbox', Reg(d)) <=> Has(inbox, Reg(d))
    /\ Has(inbox', Bye(d)) <=> Has(inbox, Bye(d))
    /\ Has(inbox', Work(d)) <=> Has(inbox, Work(d))
    /\ Has(inbox', Errands(d)) <=> Has(inbox, Errands(d))
    /\ InOrder(inbox, Work(d), Reg(d)) => InOrder(inbox', Work(d), Reg(d))
    /\ InOrder(inbox, Reg(d), Work(d)) => InOrder(inbox', Reg(d), Work(d))
    /\ \A now \in BOOLEAN :
         /\ Alternates(inbox, Flips(d), Starts(d), Needs(d), now)
              => Alternates(inbox', Flips(d), Starts(d), Needs(d), now)
         /\ Finally(inbox', Flips(d), Starts(d), now) <=> Finally(inbox, Flips(d), Starts(d), now)
         /\ \A i : Finally(inbox', Sets(d), SetsTo(d, i), now)
                     <=> Finally(inbox, Sets(d), SetsTo(d, i), now)
         /\ \A x : Finally(inbox', Shapes(d), ShapesTo(d, x), now)
                     <=> Finally(inbox, Shapes(d), ShapesTo(d, x), now)

(* A message of another client arrives.                                    *)
LEMMA ViewAppend ==
    ASSUME inbox \in Seq(Client!InboxMsg), NEW d \in Clients,
           NEW m \in Client!InboxMsg, m.from # d, inbox' = Append(inbox, m)
    PROVE  SameView(d)
<1>1. /\ m \notin Reg(d) /\ m \notin Bye(d) /\ m \notin Work(d) /\ m \notin Errands(d)
      /\ m \notin Starts(d) /\ m \notin Flips(d) /\ m \notin Needs(d) /\ m \notin Sets(d)
      /\ m \notin Shapes(d)
  BY Alien
<1>2. Starts(d) \in SUBSET Flips(d)
  BY InboxKinds
<1>3. /\ Has(inbox', Reg(d)) <=> Has(inbox, Reg(d))
      /\ Has(inbox', Bye(d)) <=> Has(inbox, Bye(d))
      /\ Has(inbox', Work(d)) <=> Has(inbox, Work(d))
      /\ Has(inbox', Errands(d)) <=> Has(inbox, Errands(d))
      /\ InOrder(inbox, Work(d), Reg(d)) => InOrder(inbox', Work(d), Reg(d))
      /\ InOrder(inbox, Reg(d), Work(d)) => InOrder(inbox', Reg(d), Work(d))
  BY <1>1, AppendHas
<1>4. ASSUME NEW now \in BOOLEAN
      PROVE  /\ Alternates(inbox, Flips(d), Starts(d), Needs(d), now)
                  => Alternates(inbox', Flips(d), Starts(d), Needs(d), now)
             /\ Finally(inbox', Flips(d), Starts(d), now)
                <=> Finally(inbox, Flips(d), Starts(d), now)
  BY <1>1, <1>2, AlternatesAppend, FinallyAppend
<1>5. ASSUME NEW now \in BOOLEAN, NEW i
      PROVE  Finally(inbox', Sets(d), SetsTo(d, i), now)
          <=> Finally(inbox, Sets(d), SetsTo(d, i), now)
  <2>1. SetsTo(d, i) \in SUBSET Sets(d)
    BY InboxKinds
  <2> QED
    BY <1>1, <2>1, FinallyAppend
<1>6. ASSUME NEW now \in BOOLEAN, NEW x
      PROVE  Finally(inbox', Shapes(d), ShapesTo(d, x), now)
          <=> Finally(inbox, Shapes(d), ShapesTo(d, x), now)
  <2>1. ShapesTo(d, x) \in SUBSET Shapes(d)
    BY InboxKinds
  <2> QED
    BY <1>1, <2>1, FinallyAppend
<1> QED
  BY <1>3, <1>4, <1>5, <1>6 DEF SameView

(* The receiver takes a message of another client.                         *)
LEMMA ViewTail ==
    ASSUME inbox \in Seq(Client!InboxMsg), NEW d \in Clients,
           inbox # <<>>, Head(inbox).from # d, inbox' = Tail(inbox)
    PROVE  SameView(d)
<1>0. Head(inbox) \in Client!InboxMsg
  OBVIOUS
<1>1. /\ Head(inbox) \notin Reg(d) /\ Head(inbox) \notin Bye(d) /\ Head(inbox) \notin Work(d)
      /\ Head(inbox) \notin Errands(d) /\ Head(inbox) \notin Starts(d)
         /\ Head(inbox) \notin Flips(d)
      /\ Head(inbox) \notin Needs(d) /\ Head(inbox) \notin Sets(d) /\ Head(inbox) \notin Shapes(d)
  BY <1>0, Alien
<1>2. Starts(d) \in SUBSET Flips(d)
  BY InboxKinds
<1>3. /\ Has(inbox', Reg(d)) <=> Has(inbox, Reg(d))
      /\ Has(inbox', Bye(d)) <=> Has(inbox, Bye(d))
      /\ Has(inbox', Work(d)) <=> Has(inbox, Work(d))
      /\ Has(inbox', Errands(d)) <=> Has(inbox, Errands(d))
      /\ InOrder(inbox, Work(d), Reg(d)) => InOrder(inbox', Work(d), Reg(d))
      /\ InOrder(inbox, Reg(d), Work(d)) => InOrder(inbox', Reg(d), Work(d))
  BY <1>1, TailHas
<1>4. ASSUME NEW now \in BOOLEAN
      PROVE  /\ Alternates(inbox, Flips(d), Starts(d), Needs(d), now)
                  => Alternates(inbox', Flips(d), Starts(d), Needs(d), now)
             /\ Finally(inbox', Flips(d), Starts(d), now)
                <=> Finally(inbox, Flips(d), Starts(d), now)
  BY <1>1, <1>2, AlternatesTail, FinallyTail
<1>5. ASSUME NEW now \in BOOLEAN, NEW i
      PROVE  Finally(inbox', Sets(d), SetsTo(d, i), now)
          <=> Finally(inbox, Sets(d), SetsTo(d, i), now)
  <2>1. SetsTo(d, i) \in SUBSET Sets(d)
    BY InboxKinds
  <2> QED
    BY <1>1, <2>1, FinallyTail
<1>6. ASSUME NEW now \in BOOLEAN, NEW x
      PROVE  Finally(inbox', Shapes(d), ShapesTo(d, x), now)
          <=> Finally(inbox, Shapes(d), ShapesTo(d, x), now)
  <2>1. ShapesTo(d, x) \in SUBSET Shapes(d)
    BY InboxKinds
  <2> QED
    BY <1>1, <2>1, FinallyTail
<1> QED
  BY <1>3, <1>4, <1>5, <1>6 DEF SameView

(* Nothing arrives and nothing is taken.                                   *)
LEMMA ViewSame == \A d : inbox' = inbox => SameView(d)
BY DEF SameView

(* What holds of a client holds after a step that leaves it alone.         *)
LEMMA Others ==
    ASSUME TypeOK, NEW d \in Clients, Untouched(d)
    PROVE  /\ Linked(d) => Linked(d)'
           /\ Paced(d) => Paced(d)'
           /\ Wanted(d) => Wanted(d)'
<1>1. inbox \in Seq(Client!InboxMsg)
  BY DEF TypeOK
<1>2. SameView(d)
  BY <1>1, ViewAppend, ViewTail, ViewSame DEF Untouched
<1>3. /\ alive'[d] = alive[d] /\ impl'[d] = impl[d] /\ task'[d] = task[d] /\ app'[d] = app[d]
      /\ wish'[d] = wish[d] /\ listened'[d] = listened[d] /\ handler'[d] = handler[d]
      /\ UNCHANGED <<up, suspended>> /\ (d \in maint'.purging => ~alive[d])
      /\ ~up => inbox' = inbox
  BY DEF Untouched
<1>4. ASSUME Queued(d) PROVE Queued(d)'
  BY <1>3, <1>4 DEF Queued
<1>5. ASSUME Enlisted(d) PROVE Enlisted(d)'
  BY <1>2, <1>3, <1>5 DEF Enlisted, SameView, Registered
<1>6. ASSUME Undisturbed(d) PROVE Undisturbed(d)'
  BY <1>3, <1>6 DEF Undisturbed, Registered
<1>7. ASSUME Orders(d) PROVE Orders(d)'
  <2>1. Tracked(d)' = Tracked(d) /\ Tracked(d) \in BOOLEAN
    BY <1>3 DEF Tracked, Registered, TypeOK, HandlerType
  <2> QED
    BY <1>2, <1>3, <1>7, <2>1 DEF Orders, Regular, Ignored, SameView, Registered
<1>8. ASSUME Calm(d) PROVE Calm(d)'
  BY <1>2, <1>3, <1>8 DEF Calm, SameView, Registered
<1>9. ASSUME Served(d) PROVE Served(d)'
  BY <1>3, <1>9 DEF Served, Registered
<1>10. ASSUME Listens(d) PROVE Listens(d)'
  BY <1>3, <1>10 DEF Listens
<1>11. ASSUME Agreed(d) PROVE Agreed(d)'
  <2>1. Registered(d) => handler[d].tracking \in BOOLEAN
    BY DEF TypeOK, HandlerType, Registered
  <2> QED
    BY <1>2, <1>3, <1>11, <2>1 DEF Agreed, SameView, Registered, Asks
<1>12. ASSUME Paced(d) PROVE Paced(d)'
  BY <1>2, <1>3, <1>12 DEF Paced, SameView, Registered, Asks
<1>13. ASSUME Wanted(d) PROVE Wanted(d)'
  BY <1>3, <1>13 DEF Wanted, Current
<1> QED
  BY <1>4, <1>5, <1>6, <1>7, <1>8, <1>9, <1>10, <1>11, <1>12, <1>13 DEF Linked
-----------------------------------------------------------------------------
(* The kinds a message of a task is of.                                    *)
LEMMA TaskKinds ==
    ASSUME NEW m \in Client!TaskMsg
    PROVE  /\ m \in Ready <=> m.op = "ready"
           /\ m \in Register <=> m.op = "register"
           /\ m \in Caps <=> m.op = "caps"
           /\ m \in Moves <=> m.op \in {"start", "stop"}
           /\ m \in Busy <=> m.op \in {"register", "stop", "destroy", "ready", "callbacks", "start"}
           /\ m \in Passives <=> m.op = "start" /\ m.interval = 0
           /\ \A w : m \in MovesTo(w) <=> m \in Moves /\ WishOf(m) = w
BY DEF Tasks, Ready, Register, Caps, Moves, Busy, Passives, MovesTo

(* A message that moves the session to w moves it.                         *)
LEMMA MovesKinds == \A w : MovesTo(w) \in SUBSET Moves
BY DEF MovesTo

(* News of the capabilities are coming.                                    *)
LEMMA NewsComing ==
    ASSUME TypeOK, NEW c \in Clients, Registered(c)
    PROVE  Has(handler[c].answers, News)
             <=> \E i \in 1..Len(handler[c].answers) : handler[c].answers[i].op = "caps"
<1>1. handler[c].answers \in Seq(AnswerMsg)
  BY DEF TypeOK, HandlerType, Registered
<1>2. /\ DOMAIN handler[c].answers = 1..Len(handler[c].answers)
      /\ \A i \in 1..Len(handler[c].answers) : handler[c].answers[i] \in AnswerMsg
  BY <1>1
<1> QED
  BY <1>2 DEF Has, News

(* The application posts a message to its task.                            *)
LEMMA Posted ==
    ASSUME TypeOK, NEW c \in Clients, NEW m \in Client!TaskMsg,
           m.op \in {"callbacks", "start", "stop", "destroy"},
           alive[c], ~suspended, task'[c] = Append(task[c], m),
           alive'[c] = alive[c], impl'[c] = impl[c], handler'[c] = handler[c],
           UNCHANGED <<inbox, up, suspended, maint>>,
           ~CapsComing(c), Linked(c)
    PROVE  /\ Queued(c)' /\ Enlisted(c)' /\ Undisturbed(c)' /\ Orders(c)' /\ Calm(c)' /\ Served(c)'
           /\ Paced(c) => Paced(c)'
<1>1. task[c] \in Seq(Client!TaskMsg)
  BY DEF TypeOK
<1>2. /\ m \notin Ready /\ m \notin Register /\ m \notin Caps
  BY TaskKinds
<1>3. /\ Has(task'[c], Ready) <=> Has(task[c], Ready)
      /\ Has(task'[c], Register) <=> Has(task[c], Register)
      /\ Has(task'[c], Caps) <=> Has(task[c], Caps)
      /\ m \notin Moves => (Has(task'[c], Moves) <=> Has(task[c], Moves))
      /\ InOrder(task[c], Caps, Moves) => InOrder(task'[c], Caps, Moves)
  BY <1>1, <1>2, AppendHas
<1>4. Queued(c)'
  <2>1. Queued(c)
    BY DEF Linked
  <2> QED
    BY <1>1, <1>2, <2>1, AppendHas DEF Queued
<1>5. Enlisted(c)'
  BY <1>3 DEF Linked, Enlisted, Registered
<1>6. Undisturbed(c)'
  <2>1. Undisturbed(c)
    BY DEF Linked
  <2>2. ~(Registered(c) /\ impl[c].reg /\ Has(handler[c].answers, News))
    BY NewsComing DEF CapsComing, Registered
  <2> QED
    BY <1>3, <2>1, <2>2 DEF Undisturbed, Registered
<1>7. Orders(c)'
  BY DEF Linked, Orders, Ignored, Regular, Tracked, Registered
<1>8. Calm(c)'
  BY DEF Calm
<1>9. Served(c)'
  BY DEF Linked, Served, Registered
<1>10. ASSUME Paced(c) PROVE Paced(c)'
  BY <1>10 DEF Paced, Registered, Asks
<1> QED
  BY <1>4, <1>5, <1>6, <1>7, <1>8, <1>9, <1>10

(* A client that is gone.                                                  *)
LEMMA Departed ==
    ASSUME TypeOK, NEW c \in Clients, ~alive'[c], task'[c] = <<>>, ~suspended,
           impl'[c] = Client!NewImpl, app'[c] = <<>>, listened'[c] = FALSE,
           handler'[c] = handler[c], UNCHANGED <<up, suspended>>, Linked(c),
           SameView(c) \/ Orders(c)', ~up => inbox' = inbox
    PROVE  /\ Linked(c)' /\ Wanted(c)'
           /\ Paced(c) => Paced(c)'
<1>1. \A P, Q : ~Has(task'[c], P) /\ AtMostOne(task'[c], P) /\ InOrder(task'[c], P, Q)
  BY EmptyHas
<1>2. Queued(c)'
  BY <1>1 DEF Queued
<1>3. Enlisted(c)'
  BY <1>1 DEF Linked, Enlisted, Registered, Client!NewImpl
<1>4. Undisturbed(c)' /\ Agreed(c)' /\ Wanted(c)'
  BY DEF Undisturbed, Agreed, Wanted
<1>5. Orders(c)'
  <2>1. Tracked(c)' = Tracked(c) /\ Tracked(c) \in BOOLEAN
    BY DEF Tracked, Registered, TypeOK, HandlerType
  <2> QED
    BY <2>1 DEF Linked, Orders, Regular, Ignored, SameView, Registered
<1>6. Calm(c)'
  BY DEF Calm
<1>7. Served(c)'
  BY DEF Linked, Served, Registered
<1>8. Listens(c)'
  BY <1>1 DEF Listens, Client!NewImpl
<1>9. ASSUME Paced(c) PROVE Paced(c)'
  BY <1>9 DEF Paced, Registered
<1> QED
  BY <1>2, <1>3, <1>4, <1>5, <1>6, <1>7, <1>8, <1>9 DEF Linked

(* The application's steps, and the other clients during them.             *)
LEMMA AppOwn ==
    ASSUME TypeOK, TypeOK', OnlyCalls, NEW c \in Clients, AppStep(c), Linked(c)
    PROVE  /\ Linked(c)'
           /\ Paced(c) => Paced(c)'
           /\ "call" \notin Anytime /\ Wanted(c) => Wanted(c)'
<1> USE DEF daemonOnly
<1>1. ~suspended /\ ~CapsComing(c) /\ UNCHANGED daemonOnly /\ alive[c]
  BY DEF AppStep, OnlyCalls, Client!AppStep, Client!StartPositionSession, Client!PostStartTracking,
     Client!StopPositionSession, Client!Destroy, Client!ClientDies, Client!MayCall
<1>2. task[c] \in Seq(Client!TaskMsg)
  BY DEF TypeOK
<1>3. Listens(c) /\ Agreed(c)
  BY DEF Linked
<1>c. ASSUME "call" \notin Anytime, Client!MayCall(c) PROVE ~Has(task[c], Caps)
  BY <1>c, <1>2 DEF Client!MayCall, Client!Registering, Has, Caps, Tasks
<1>4. ASSUME NEW m \in Client!TaskMsg, m.op \in {"callbacks", "destroy"},
             Client!Post(c, m), UNCHANGED <<alive, impl, wish, listened, inbox, up>>
      PROVE  /\ Linked(c)'
             /\ Paced(c) => Paced(c)'
             /\ Wanted(c) => Wanted(c)'
  <2>1. task'[c] = Append(task[c], m)
    BY <1>4 DEF Client!Post, TypeOK
  <2>2. /\ Queued(c)' /\ Enlisted(c)' /\ Undisturbed(c)' /\ Orders(c)' /\ Calm(c)' /\ Served(c)'
        /\ Paced(c) => Paced(c)'
    BY <1>1, <1>4, <2>1, Posted
  <2>3. m \notin Passives /\ m \notin Moves /\ m \notin Caps
    BY <1>4, TaskKinds
  <2>4. Listens(c)'
    BY <1>2, <1>3, <1>4, <2>1, <2>3, AppendHas DEF Listens
  <2>5. Agreed(c)'
    BY <1>1, <1>3, <1>4 DEF Agreed, Registered, Asks
  <2>6. ASSUME Wanted(c) PROVE Wanted(c)'
    <3>1. MovesTo(wish[c]) \in SUBSET Moves
      BY MovesKinds
    <3>2. \A now \in BOOLEAN : Finally(task'[c], Moves, MovesTo(wish[c]), now)
                                 <=> Finally(task[c], Moves, MovesTo(wish[c]), now)
      BY <1>2, <2>1, <2>3, <3>1, FinallyAppend
    <3>3. Finally(task'[c], Moves, MovesTo(wish[c]), Current(c) = wish[c])
            <=> Finally(task[c], Moves, MovesTo(wish[c]), Current(c) = wish[c])
      BY <3>2
    <3> QED
      BY <1>2, <1>4, <2>1, <2>3, <2>6, <3>3, AppendHas DEF Wanted, Current
  <2> QED
    BY <2>2, <2>4, <2>5, <2>6 DEF Linked
<1>5. ASSUME NEW m \in Client!TaskMsg, m.op \in {"start", "stop"}, Client!MayCall(c),
             Client!Post(c, m), UNCHANGED <<alive, impl, inbox, up>>,
             wish'[c] = WishOf(m), listened'[c] = (listened[c] \/ m \in Passives)
      PROVE  /\ Linked(c)'
             /\ Paced(c) => Paced(c)'
             /\ "call" \notin Anytime /\ Wanted(c) => Wanted(c)'
  <2>1. task'[c] = Append(task[c], m)
    BY <1>5 DEF Client!Post, TypeOK
  <2>2. /\ Queued(c)' /\ Enlisted(c)' /\ Undisturbed(c)' /\ Orders(c)' /\ Calm(c)' /\ Served(c)'
        /\ Paced(c) => Paced(c)'
    BY <1>1, <1>5, <2>1, Posted
  <2>3. m \in Moves /\ m \notin Caps /\ m \in MovesTo(wish'[c])
    BY <1>5, TaskKinds
  <2>4. Listens(c)'
    BY <1>2, <1>3, <1>5, <2>1, AppendHas DEF Listens
  <2>5. Agreed(c)'
    BY <1>1, <1>3, <1>5 DEF Agreed, Registered, Asks
  <2>6. ASSUME "call" \notin Anytime, Wanted(c) PROVE Wanted(c)'
    <3>1. MovesTo(wish'[c]) \in SUBSET Moves
      BY MovesKinds
    <3>2. \A now \in BOOLEAN : Finally(task'[c], Moves, MovesTo(wish'[c]), now)
      BY <1>2, <2>1, <2>3, <3>1, FinallyAppend
    <3>3. Finally(task'[c], Moves, MovesTo(wish'[c]), (Current(c) = wish[c])')
      BY <3>2
    <3>4. InOrder(task'[c], Moves, Caps)
      BY <1>2, <1>5, <1>c, <2>1, <2>3, <2>6, AppendHas, <1>1 DEF Wanted
    <3> QED
      BY <3>3, <3>4 DEF Wanted
  <2> QED
    BY <2>2, <2>4, <2>5, <2>6 DEF Linked
<1>6. ASSUME NEW i \in Intervals, NEW m \in Masks, Client!StartPositionSession(c, i, m)
      PROVE  /\ Linked(c)'
             /\ Paced(c) => Paced(c)'
             /\ Wanted(c) => Wanted(c)'
  <2>1. [op |-> "callbacks", mask |-> m] \in Client!TaskMsg
    BY DEF Client!TaskMsg
  <2> QED
    BY <1>4, <1>6, <2>1 DEF Client!StartPositionSession
<1>7. ASSUME Client!PostStartTracking(c)
      PROVE  /\ Linked(c)'
             /\ Paced(c) => Paced(c)'
             /\ "call" \notin Anytime /\ Wanted(c) => Wanted(c)'
  <2>1. PICK i \in Intervals : app[c] = <<i>>
    BY <1>7 DEF Client!PostStartTracking, TypeOK
  <2> DEFINE m == [op |-> "start", interval |-> i]
  <2>2. m \in Client!TaskMsg /\ m.op = "start" /\ WishOf(m) = <<i>> /\ Head(app[c]) = i
    BY <2>1 DEF Client!TaskMsg, WishOf
  <2>3. m \in Passives <=> i = 0
    BY <2>2, TaskKinds
  <2>4. wish'[c] = <<i>> /\ listened'[c] = (listened[c] \/ i = 0) /\ Client!Post(c, m)
    BY <1>7, <2>1, <2>2 DEF Client!PostStartTracking, TypeOK, Client!Passive
  <2>5. listened'[c] = (listened[c] \/ m \in Passives)
    BY <2>3, <2>4
  <2> HIDE DEF m
  <2> QED
    BY <1>5, <1>7, <2>2, <2>4, <2>5 DEF Client!PostStartTracking
<1>8. ASSUME Client!StopPositionSession(c)
      PROVE  /\ Linked(c)'
             /\ Paced(c) => Paced(c)'
             /\ "call" \notin Anytime /\ Wanted(c) => Wanted(c)'
  <2> DEFINE m == [op |-> "stop"]
  <2>1. m \in Client!TaskMsg /\ m.op = "stop" /\ WishOf(m) = <<>>
    BY DEF Client!TaskMsg, WishOf
  <2>2. m \notin Passives
    BY <2>1, TaskKinds
  <2>3. wish'[c] = <<>> /\ listened'[c] = (listened[c] \/ m \in Passives)
    BY <1>8, <2>2 DEF Client!StopPositionSession, TypeOK
  <2>4. Client!Post(c, m)
    BY <1>8 DEF Client!StopPositionSession
  <2> HIDE DEF m
  <2> QED
    BY <1>5, <1>8, <2>1, <2>3, <2>4 DEF Client!StopPositionSession
<1>9. ASSUME Client!Destroy(c)
      PROVE  /\ Linked(c)'
             /\ Paced(c) => Paced(c)'
             /\ Wanted(c) => Wanted(c)'
  <2>1. [op |-> "destroy"] \in Client!TaskMsg
    BY DEF Client!TaskMsg
  <2> QED
    BY <1>4, <1>9, <2>1 DEF Client!Destroy
<1>10. ASSUME Client!ClientDies(c)
       PROVE  /\ Linked(c)' /\ Wanted(c)'
              /\ Paced(c) => Paced(c)'
  <2>1. SameView(c)
    BY <1>10, ViewSame DEF Client!ClientDies
  <2>2. /\ ~alive'[c] /\ task'[c] = <<>> /\ impl'[c] = Client!NewImpl /\ app'[c] = <<>>
        /\ listened'[c] = FALSE /\ UNCHANGED <<inbox, up>>
    BY <1>10 DEF Client!ClientDies, Client!Gone, TypeOK
  <2> QED
    BY <1>1, <2>1, <2>2, Departed
<1> QED
  BY <1>6, <1>7, <1>8, <1>9, <1>10 DEF AppStep, Client!AppStep

(* An application's step leaves the other clients alone.                   *)
LEMMA AppOthers ==
    ASSUME TypeOK, NEW c \in Clients, AppStep(c), NEW d \in Clients, d # c,
           d \in maint.purging => ~alive[d]
    PROVE  Untouched(d)
<1>1. UNCHANGED daemonOnly /\ Client!AppStep(c)
  BY DEF AppStep
<1> QED
  BY <1>1 DEF daemonOnly, Client!AppStep, Client!StartPositionSession, Client!PostStartTracking,
     Client!StopPositionSession, Client!Destroy, Client!ClientDies, Client!MayCall, Client!Post,
     Client!Gone, Untouched, TypeOK
-----------------------------------------------------------------------------
(* The kinds a message of client c is of.                                  *)
LEMMA OwnKinds ==
    ASSUME NEW c, NEW m \in Client!InboxMsg, m.from = c
    PROVE  /\ m \in Reg(c) <=> m.op = "register"
           /\ m \in Bye(c) <=> m.op = "deregister"
           /\ m \in Work(c) <=> m.op \in {"callbacks", "start", "stop", "update"}
           /\ m \in Errands(c) <=> m.op \in {"start", "stop", "update", "register"}
           /\ m \in Starts(c) <=> m.op = "start"
           /\ m \in Flips(c) <=> m.op \in {"start", "stop"}
           /\ m \in Needs(c) <=> m.op \in {"stop", "update"}
           /\ m \in Sets(c) <=> m.op \in {"start", "update"}
           /\ m \in Shapes(c) <=> m.op \in {"stop", "callbacks"}
           /\ \A i : m \in SetsTo(c, i) <=> m \in Sets(c) /\ m.interval = i
           /\ \A x : m \in ShapesTo(c, x) <=> m \in Shapes(c) /\ MaskOf(m) = x
BY DEF Reg, Bye, Work, Errands, Starts, Flips, Needs, Sets, Shapes, From, SetsTo, ShapesTo

(* What a live client sends arrives behind the rest, if there is a daemon. *)
LEMMA Sends ==
    ASSUME TypeOK, NEW m \in Client!InboxMsg, Client!Send(<<m>>)
    PROVE  /\ up => inbox' = Append(inbox, m)
           /\ ~up => inbox' = inbox
BY DEF TypeOK, Client!Send

(* The message a task processes.                                           *)
LEMMA TaskHead ==
    ASSUME TypeOK, NEW c \in Clients, NEW op, Client!Processes(c, op)
    PROVE  /\ alive[c] /\ task[c] \in Seq(Client!TaskMsg) /\ task[c] # <<>>
           /\ Head(task[c]) \in Client!TaskMsg /\ Head(task[c]).op = op
           /\ Tail(task[c]) \in Seq(Client!TaskMsg)
BY DEF TypeOK, Client!Processes

(* One request of a client that believes it is registered is in order.     *)
Request(c) ==
    \/ inbox' = inbox
    \/ /\ up /\ impl[c].reg /\ Head(task[c]).op # "response"
       /\ \E m \in Work(c) : /\ inbox' = Append(inbox, m)
                             /\ m \in Starts(c) => ~Asks(c)
                             /\ m \in Needs(c) => Asks(c)

(* A request is neither a registration nor a farewell.                     *)
LEMMA RequestKinds ==
    ASSUME NEW c, NEW m \in Work(c)
    PROVE  m \in Client!InboxMsg /\ m.from = c /\ m \notin Reg(c) /\ m \notin Bye(c)
BY DEF Work, Reg, Bye, From

(* Such a request finds the session as it expects it.                      *)
LEMMA RequestOrders ==
    ASSUME TypeOK, NEW c \in Clients, Linked(c), alive[c], alive'[c], Request(c),
           handler'[c] = handler[c]
    PROVE  Orders(c)'
<1>1. CASE inbox' = inbox
  BY <1>1 DEF Linked, Orders, Ignored, Regular, Tracked, Registered
<1>2. CASE inbox' # inbox
  <2>1. PICK m \in Work(c) : /\ inbox' = Append(inbox, m) /\ up /\ impl[c].reg
                             /\ m \in Starts(c) => ~Asks(c)
                             /\ m \in Needs(c) => Asks(c)
    BY <1>2 DEF Request
  <2>2. m \in Client!InboxMsg /\ m \notin Reg(c) /\ inbox \in Seq(Client!InboxMsg)
    BY RequestKinds DEF TypeOK
  <2>3. CASE Registered(c)
    <3>1. Regular(c)
      BY <2>3 DEF Linked, Orders, Ignored
    <3>2. Tracked(c) \in BOOLEAN /\ Tracked(c)' = Tracked(c) /\ (Tracked(c) <=> handler[c].tracking)
          /\ handler[c].tracking \in BOOLEAN
      BY <2>3 DEF Tracked, Registered, TypeOK, HandlerType
    <3>3. Finally(inbox, Flips(c), Starts(c), handler[c].tracking) <=> Asks(c)
      BY <2>3 DEF Linked, Agreed
    <3>4. Tracked(c) = handler[c].tracking
      BY <3>2
    <3>5. Finally(inbox, Flips(c), Starts(c), Tracked(c)) <=> Asks(c)
      BY <3>3, <3>4
    <3>6. Alternates(inbox', Flips(c), Starts(c), Needs(c), Tracked(c))
      <4>1. Starts(c) \in SUBSET Flips(c)
        BY InboxKinds
      <4> QED
        BY <2>1, <2>2, <3>1, <3>2, <3>5, <4>1, AlternatesAppend DEF Regular
    <3>7. InOrder(inbox', Reg(c), Work(c)) /\ (Has(inbox', Reg(c)) => Has(inbox, Reg(c)))
      BY <2>1, <2>2, <3>1, AppendHas DEF Regular
    <3> QED
      BY <2>3, <3>1, <3>2, <3>6, <3>7 DEF Orders, Regular, Registered
  <2>4. CASE ~Registered(c)
    <3>1. Ignored(c) /\ ~Has(inbox, Reg(c))
      BY <2>1, <2>4 DEF Linked, Orders, Enlisted
    <3>2. InOrder(inbox', Work(c), Reg(c))
      BY <2>1, <2>2, <3>1, AppendHas DEF Ignored
    <3> QED
      BY <2>4, <3>2 DEF Orders, Ignored, Registered
  <2> QED
    BY <2>3, <2>4
<1> QED
  BY <1>1, <1>2

(* The task processes a message that is neither news nor a registration.   *)
LEMMA Popped ==
    ASSUME TypeOK, NEW c \in Clients, Linked(c), NEW op, Client!Processes(c, op), Client!Pop(c),
           op \in {"callbacks", "start", "stop", "response"},
           alive'[c] = alive[c], app'[c] = app[c], handler'[c] = handler[c],
           UNCHANGED <<up, suspended, maint>>, Request(c),
           impl'[c].reg = impl[c].reg,
           impl'[c].session = impl[c].session \/ op \in {"start", "stop"}
    PROVE  Queued(c)' /\ Enlisted(c)' /\ Undisturbed(c)' /\ Orders(c)' /\ Calm(c)' /\ Served(c)'
<1>1. /\ alive[c] /\ task[c] \in Seq(Client!TaskMsg) /\ task[c] # <<>>
      /\ Head(task[c]) \in Client!TaskMsg /\ Head(task[c]).op = op
      /\ task'[c] = Tail(task[c])
  BY TaskHead DEF Client!Pop, TypeOK
<1>2. /\ Head(task[c]) \notin Ready /\ Head(task[c]) \notin Register /\ Head(task[c]) \notin Caps
      /\ Head(task[c]) \in Moves <=> op \in {"start", "stop"}
      /\ op # "response" => Head(task[c]) \in Busy
  BY <1>1, TaskKinds
<1>3. /\ Has(task'[c], Ready) <=> Has(task[c], Ready)
      /\ Has(task'[c], Register) <=> Has(task[c], Register)
      /\ Has(task'[c], Caps) <=> Has(task[c], Caps)
      /\ Has(task'[c], Moves) => Has(task[c], Moves)
      /\ Has(task'[c], Busy) => Has(task[c], Busy)
      /\ Head(task[c]) \in Moves => Has(task[c], Moves)
      /\ Head(task[c]) \in Busy => Has(task[c], Busy)
      /\ InOrder(task[c], Caps, Moves) => InOrder(task'[c], Caps, Moves)
      /\ InOrder(task[c], Caps, Moves) /\ Head(task[c]) \in Moves => ~Has(task[c], Caps)
  BY <1>1, <1>2, TailHas
<1>4. Queued(c)'
  <2>1. Queued(c)
    BY DEF Linked
  <2> QED
    BY <1>1, <2>1, TailHas DEF Queued
<1>5. Enlisted(c)'
  <2>1. /\ Has(inbox', Reg(c)) <=> Has(inbox, Reg(c))
        /\ Has(inbox', Bye(c)) <=> Has(inbox, Bye(c))
        /\ Has(inbox', Work(c)) => Has(inbox, Work(c)) \/ impl[c].reg
        /\ ~up => inbox' = inbox
    <3>1. inbox \in Seq(Client!InboxMsg)
      BY DEF TypeOK
    <3>2. CASE inbox' = inbox
      BY <3>2
    <3>3. CASE inbox' # inbox
      <4>1. PICK m \in Work(c) : inbox' = Append(inbox, m) /\ up /\ impl[c].reg
        BY <3>3 DEF Request
      <4>2. m \in Client!InboxMsg /\ m \notin Reg(c) /\ m \notin Bye(c)
        BY RequestKinds
      <4> QED
        BY <3>1, <4>1, <4>2, AppendHas
    <3> QED
      BY <3>2, <3>3
  <2> QED
    BY <1>1, <1>3, <2>1 DEF Linked, Enlisted, Registered
<1>6. Undisturbed(c)'
  BY <1>2, <1>3 DEF Linked, Undisturbed, Registered
<1>7. Orders(c)'
  BY <1>1, RequestOrders
<1>8. Calm(c)'
  <2>1. suspended => inbox' = inbox
    BY <1>1, <1>2, <1>3 DEF Linked, Calm, Request
  <2> QED
    BY <1>1, <1>3, <2>1 DEF Linked, Calm, Registered
<1>9. Served(c)'
  BY DEF Linked, Served, Registered
<1> QED
  BY <1>4, <1>5, <1>6, <1>7, <1>8, <1>9

(* What a message of client c changes of what the daemon will end with.    *)
LEMMA OwnFinally ==
    ASSUME TypeOK, NEW c \in Clients, NEW m \in Client!InboxMsg, inbox' = Append(inbox, m)
    PROVE  \A now \in BOOLEAN :
             /\ m \in Flips(c) => (Finally(inbox', Flips(c), Starts(c), now) <=> m \in Starts(c))
             /\ m \notin Flips(c) => (Finally(inbox', Flips(c), Starts(c), now)
                                        <=> Finally(inbox, Flips(c), Starts(c), now))
             /\ \A i : /\ m \in Sets(c)
                          => (Finally(inbox', Sets(c), SetsTo(c, i), now) <=> m \in SetsTo(c, i))
                       /\ m \notin Sets(c) => (Finally(inbox', Sets(c), SetsTo(c, i), now)
                                                 <=> Finally(inbox, Sets(c), SetsTo(c, i), now))
             /\ \A x : /\ m \in Shapes(c)
                          => (Finally(inbox', Shapes(c), ShapesTo(c, x), now) <=> m \in ShapesTo(c, x))
                       /\ m \notin Shapes(c) => (Finally(inbox', Shapes(c), ShapesTo(c, x), now)
                                                   <=> Finally(inbox, Shapes(c), ShapesTo(c, x), now))
<1>1. inbox \in Seq(Client!InboxMsg)
  BY DEF TypeOK
<1> TAKE now \in BOOLEAN
<1>2. /\ m \in Flips(c) => (Finally(inbox', Flips(c), Starts(c), now) <=> m \in Starts(c))
      /\ m \notin Flips(c) => (Finally(inbox', Flips(c), Starts(c), now)
                                 <=> Finally(inbox, Flips(c), Starts(c), now))
  <2>1. Starts(c) \in SUBSET Flips(c)
    BY InboxKinds
  <2> QED
    BY <1>1, <2>1, FinallyAppend
<1>3. ASSUME NEW i
      PROVE  /\ m \in Sets(c)
                => (Finally(inbox', Sets(c), SetsTo(c, i), now) <=> m \in SetsTo(c, i))
             /\ m \notin Sets(c) => (Finally(inbox', Sets(c), SetsTo(c, i), now)
                                       <=> Finally(inbox, Sets(c), SetsTo(c, i), now))
  <2>1. SetsTo(c, i) \in SUBSET Sets(c)
    BY InboxKinds
  <2> QED
    BY <1>1, <2>1, FinallyAppend
<1>4. ASSUME NEW x
      PROVE  /\ m \in Shapes(c)
                => (Finally(inbox', Shapes(c), ShapesTo(c, x), now) <=> m \in ShapesTo(c, x))
             /\ m \notin Shapes(c) => (Finally(inbox', Shapes(c), ShapesTo(c, x), now)
                                         <=> Finally(inbox, Shapes(c), ShapesTo(c, x), now))
  <2>1. ShapesTo(c, x) \in SUBSET Shapes(c)
    BY InboxKinds
  <2> QED
    BY <1>1, <2>1, FinallyAppend
<1> QED
  BY <1>2, <1>3, <1>4

(* The wish survives the processing of a message.                          *)
LEMMA WantedPop ==
    ASSUME TypeOK, NEW c \in Clients, NEW op, Client!Processes(c, op), task'[c] = Tail(task[c]),
           wish'[c] = wish[c], Wanted(c),
           Current(c)' = IF Head(task[c]) \in Moves THEN WishOf(Head(task[c])) ELSE Current(c)
    PROVE  Wanted(c)'
<1>1. /\ alive[c] /\ task[c] \in Seq(Client!TaskMsg) /\ task[c] # <<>>
      /\ Head(task[c]) \in Client!TaskMsg
  BY TaskHead
<1>2. InOrder(task'[c], Moves, Caps)
  BY <1>1, TailHas DEF Wanted
<1> DEFINE now == Current(c) = wish[c]
           then == (Current(c) = wish[c])'
<1>3. now \in BOOLEAN /\ then \in BOOLEAN
  OBVIOUS
<1>4. MovesTo(wish[c]) \in SUBSET Moves
  BY MovesKinds
<1>5. /\ Head(task[c]) \in Moves => (then <=> Head(task[c]) \in MovesTo(wish[c]))
      /\ Head(task[c]) \notin Moves => (then <=> now)
  BY <1>1, TaskKinds
<1>6. Finally(task[c], Moves, MovesTo(wish[c]), now)
  BY <1>1 DEF Wanted
<1>7. Finally(Tail(task[c]), Moves, MovesTo(wish[c]), then)
  <2> HIDE DEF now, then
  <2> QED
    BY <1>1, <1>3, <1>4, <1>5, <1>6, FinallyTail
<1> QED
  BY <1>2, <1>7 DEF Wanted

(* Response keeps what holds of the client.                                *)
LEMMA ResponseOwn ==
    ASSUME TypeOK, NEW c \in Clients, Client!Response(c), UNCHANGED daemonOnly, Linked(c)
    PROVE  /\ Linked(c)'
           /\ Paced(c) => Paced(c)'
           /\ Wanted(c) => Wanted(c)'
<1> USE DEF daemonOnly, Client!appVars
<1>1. /\ Client!Processes(c, "response") /\ Client!Pop(c)
      /\ UNCHANGED <<alive, app, wish, listened, inbox, up>>
      /\ impl'[c] = [impl[c] EXCEPT !.pending = @ /\ Head(task[c]).to = "stop"]
  BY DEF Client!Response, Client!Update, TypeOK
<1>2. /\ impl'[c].reg = impl[c].reg /\ impl'[c].session = impl[c].session
      /\ impl'[c].interval = impl[c].interval /\ impl'[c].mask = impl[c].mask
  BY <1>1 DEF TypeOK, Client!ImplType
<1>3. Queued(c)' /\ Enlisted(c)' /\ Undisturbed(c)' /\ Orders(c)' /\ Calm(c)' /\ Served(c)'
  BY <1>1, <1>2, Popped DEF Request
<1>4. /\ task[c] \in Seq(Client!TaskMsg) /\ task[c] # <<>> /\ task'[c] = Tail(task[c])
      /\ Head(task[c]) \in Client!TaskMsg /\ Head(task[c]).op = "response"
  BY <1>1, TaskHead DEF Client!Pop, TypeOK
<1>5. Listens(c)'
  BY <1>1, <1>2, <1>4, TailHas DEF Linked, Listens
<1>6. Agreed(c)'
  BY <1>1, <1>2 DEF Linked, Agreed, Registered, Asks
<1>7. ASSUME Paced(c) PROVE Paced(c)'
  BY <1>1, <1>2, <1>7 DEF Paced, Registered, Asks
<1>8. ASSUME Wanted(c) PROVE Wanted(c)'
  <2>1. Head(task[c]) \notin Moves
    BY <1>4, TaskKinds
  <2> QED
    BY <1>1, <1>2, <1>4, <1>8, <2>1, WantedPop DEF Current
<1> QED
  BY <1>3, <1>5, <1>6, <1>7, <1>8 DEF Linked

(* UpdateCallbacksReq does: the mask it sends is the one it keeps.         *)
LEMMA CallbacksOwn ==
    ASSUME TypeOK, NEW c \in Clients, Client!UpdateCallbacksReq(c), UNCHANGED daemonOnly, Linked(c)
    PROVE  /\ Linked(c)'
           /\ Paced(c) => Paced(c)'
           /\ Wanted(c) => Wanted(c)'
<1> USE DEF daemonOnly, Client!appVars
<1> DEFINE x == Head(task[c]).mask
           m == [from |-> c, op |-> "callbacks", mask |-> x]
<1>1. /\ Client!Processes(c, "callbacks") /\ Client!Pop(c)
      /\ UNCHANGED <<alive, app, wish, listened, up>>
      /\ impl'[c] = [impl[c] EXCEPT !.pending = TRUE, !.mask = x]
      /\ IF x # impl[c].mask /\ impl[c].reg THEN Client!Send(<<m>>) ELSE Client!Send(<<>>)
  BY DEF Client!UpdateCallbacksReq, Client!Update, TypeOK
<1>2. /\ impl'[c].reg = impl[c].reg /\ impl'[c].session = impl[c].session
      /\ impl'[c].interval = impl[c].interval /\ impl'[c].mask = x
  BY <1>1 DEF TypeOK, Client!ImplType
<1>3. /\ task[c] \in Seq(Client!TaskMsg) /\ task[c] # <<>> /\ task'[c] = Tail(task[c])
      /\ Head(task[c]) \in Client!TaskMsg /\ Head(task[c]).op = "callbacks" /\ alive[c]
  BY <1>1, TaskHead DEF Client!Pop, TypeOK
<1>4. m \in Client!InboxMsg /\ m.from = c /\ m.op = "callbacks" /\ MaskOf(m) = x
  BY <1>3 DEF Client!TaskMsg, Client!InboxMsg, MaskOf
<1> HIDE DEF m
<1>5. /\ m \in Work(c) /\ m \notin Starts(c) /\ m \notin Needs(c) /\ m \notin Flips(c)
      /\ m \notin Sets(c) /\ m \in Shapes(c) /\ m \in ShapesTo(c, x)
  BY <1>4, OwnKinds
<1>6. \/ inbox' = inbox /\ (~up \/ ~impl[c].reg \/ x = impl[c].mask)
      \/ up /\ impl[c].reg /\ inbox' = Append(inbox, m)
  BY <1>1, <1>4, Sends, SendNothing
<1>7. Queued(c)' /\ Enlisted(c)' /\ Undisturbed(c)' /\ Orders(c)' /\ Calm(c)' /\ Served(c)'
  <2>1. Request(c)
    BY <1>3, <1>5, <1>6 DEF Request
  <2> QED
    BY <1>1, <1>2, <2>1, Popped
<1>8. Listens(c)'
  BY <1>1, <1>2, <1>3, TailHas DEF Linked, Listens
<1>9. Agreed(c)'
  <2>1. CASE inbox' = inbox
    BY <1>1, <1>2, <1>3, <1>6, <2>1 DEF Linked, Agreed, Registered, Asks, Enlisted
  <2>2. CASE inbox' = Append(inbox, m)
    <3>1. Registered(c) => handler[c].tracking \in BOOLEAN
      BY DEF TypeOK, HandlerType, Registered
    <3>2. \A now \in BOOLEAN :
            /\ Finally(inbox', Flips(c), Starts(c), now)
               <=> Finally(inbox, Flips(c), Starts(c), now)
            /\ Finally(inbox', Shapes(c), ShapesTo(c, x), now)
      BY <1>4, <1>5, <2>2, OwnFinally
    <3> QED
      BY <1>1, <1>2, <1>3, <3>1, <3>2 DEF Linked, Agreed, Registered, Asks
  <2> QED
    BY <1>6, <2>1, <2>2
<1>10. ASSUME Paced(c) PROVE Paced(c)'
  <2>1. \A now \in BOOLEAN : \A i : Finally(inbox', Sets(c), SetsTo(c, i), now)
                                      <=> Finally(inbox, Sets(c), SetsTo(c, i), now)
    BY <1>4, <1>5, <1>6, OwnFinally
  <2> QED
    BY <1>1, <1>2, <1>10, <2>1 DEF Paced, Registered, Asks
<1>11. ASSUME Wanted(c) PROVE Wanted(c)'
  <2>1. Head(task[c]) \notin Moves
    BY <1>3, TaskKinds
  <2> QED
    BY <1>1, <1>2, <1>3, <1>11, <2>1, WantedPop DEF Current
<1> QED
  BY <1>7, <1>8, <1>9, <1>10, <1>11 DEF Linked

(* StartTrackingReq does: it sends a start for a session the daemon does   *)
(* not run, an update for one it runs, a stop for one made passive.        *)
LEMMA StartOwn ==
    ASSUME TypeOK, NEW c \in Clients, Client!StartTrackingReq(c), UNCHANGED daemonOnly, Linked(c)
    PROVE  /\ Linked(c)'
           /\ Paced(c) => Paced(c)'
           /\ Wanted(c) => Wanted(c)'
<1> USE DEF daemonOnly, Client!appVars
<1> DEFINE i == Head(task[c]).interval
           r == impl[c]
           kept == r.reg /\ r.session /\ i = r.interval
           quiet == ~r.reg \/ kept \/ (~r.session /\ i = 0)
           m == IF ~r.session THEN [from |-> c, op |-> "start", interval |-> i]
                ELSE Client!UpdateMessage(c, r.interval, i)
<1>1. /\ Client!Processes(c, "start") /\ Client!Pop(c)
      /\ UNCHANGED <<alive, app, wish, listened, up>>
      /\ impl'[c] = IF kept THEN [r EXCEPT !.pending = FALSE]
                    ELSE [r EXCEPT !.interval = i, !.session = TRUE]
      /\ IF quiet THEN Client!Send(<<>>) ELSE Client!Send(<<m>>)
  BY DEF Client!StartTrackingReq, Client!Update, TypeOK, Client!Passive
<1>2. /\ task[c] \in Seq(Client!TaskMsg) /\ task[c] # <<>> /\ task'[c] = Tail(task[c])
      /\ Head(task[c]) \in Client!TaskMsg /\ Head(task[c]).op = "start" /\ alive[c]
  BY <1>1, TaskHead DEF Client!Pop, TypeOK
<1>3. i \in Intervals \cup {0} /\ r \in Client!ImplType
  BY <1>2 DEF Client!TaskMsg, TypeOK
<1>4. /\ impl'[c].reg = r.reg /\ impl'[c].mask = r.mask
      /\ impl'[c].interval = (IF kept THEN r.interval ELSE i)
      /\ impl'[c].session = (IF kept THEN r.session ELSE TRUE)
  BY <1>1, <1>3 DEF Client!ImplType
<1>5. /\ kept => r.reg /\ r.session /\ i = r.interval
      /\ ~quiet => r.reg /\ (i = 0 => r.session /\ r.interval # 0)
      /\ r.reg /\ r.session /\ i # r.interval => ~quiet
      /\ r.reg /\ ~r.session /\ i # 0 => ~quiet
  BY <1>3 DEF Client!ImplType
<1>6. ASSUME ~quiet
      PROVE  /\ m \in Client!InboxMsg /\ m.from = c
             /\ m.op = "stop" <=> i = 0
             /\ m.op = "start" <=> i # 0 /\ (~r.session \/ r.interval = 0)
             /\ m.op = "update" <=> i # 0 /\ r.session /\ r.interval # 0
             /\ i # 0 => m.interval = i
             /\ m.op \in {"start", "stop", "update"}
  BY <1>3, <1>5, <1>6 DEF Client!InboxMsg, Client!UpdateMessage, Client!Passive
<1> HIDE DEF m
<1>7. Asks(c) <=> r.reg /\ r.session /\ r.interval # 0
  BY DEF Asks
<1>8. Asks(c)' <=> r.reg /\ (IF kept THEN r.session /\ r.interval # 0 ELSE i # 0)
  BY <1>3, <1>4 DEF Asks, Client!ImplType
<1>9. \/ inbox' = inbox /\ (~up \/ quiet)
      \/ up /\ ~quiet /\ inbox' = Append(inbox, m)
  BY <1>1, <1>6, Sends, SendNothing
<1>10. ASSUME ~quiet
       PROVE  /\ m \in Work(c) /\ (m \in Starts(c) <=> m.op = "start")
                 /\ (m \in Needs(c) <=> m.op # "start")
              /\ (m \in Flips(c) <=> m.op # "update") /\ (m \in Sets(c) <=> m.op # "stop")
              /\ (m \in Shapes(c) <=> m.op = "stop") /\ (m.op # "stop" => m \in SetsTo(c, i))
  <2>1. /\ m \in Client!InboxMsg /\ m.from = c /\ m.op \in {"start", "stop", "update"}
        /\ m.op # "stop" => m.interval = i
    BY <1>6, <1>10
  <2> QED
    BY <2>1, OwnKinds
<1>11. Request(c)
  <2>1. CASE inbox' = inbox
    BY <2>1 DEF Request
  <2>2. CASE up /\ ~quiet /\ inbox' = Append(inbox, m)
    <3>1. m \in Starts(c) => ~Asks(c)
      BY <1>6, <1>7, <1>10, <2>2
    <3>2. m \in Needs(c) => Asks(c)
      BY <1>5, <1>6, <1>7, <1>10, <2>2
    <3> QED
      BY <1>2, <1>5, <1>10, <2>2, <3>1, <3>2 DEF Request
  <2> QED
    BY <1>9, <2>1, <2>2
<1>12. Queued(c)' /\ Enlisted(c)' /\ Undisturbed(c)' /\ Orders(c)' /\ Calm(c)' /\ Served(c)'
  BY <1>1, <1>4, <1>11, Popped
<1>13. i = 0 => listened[c]
  <2>1. i = 0 => Has(task[c], Passives)
    <3>1. i = 0 => Head(task[c]) \in Passives
      BY <1>2, TaskKinds
    <3> QED
      BY <1>2, <3>1, TailHas
  <2> QED
    BY <2>1 DEF Linked, Listens
<1>14. Listens(c)'
  BY <1>1, <1>2, <1>4, <1>13, TailHas DEF Linked, Listens
<1>15. ASSUME Registered(c) PROVE up /\ handler[c].tracking \in BOOLEAN
  BY <1>15 DEF Linked, Enlisted, TypeOK, HandlerType, Registered
<1>16. Agreed(c)'
  <2> SUFFICES ASSUME Registered(c) PROVE Agreed(c)'
    BY DEF Agreed, Registered
  <2>1. /\ Finally(inbox, Flips(c), Starts(c), handler[c].tracking) <=> Asks(c)
        /\ impl[c].reg /\ ~listened[c] =>
             Finally(inbox, Shapes(c), ShapesTo(c, r.mask), handler[c].mask = r.mask)
    BY <1>2 DEF Linked, Agreed
  <2>2. CASE quiet
    <3>1. inbox' = inbox
      BY <1>9, <2>2
    <3>2. Asks(c)' <=> Asks(c)
      BY <1>5, <1>7, <1>8, <2>2
    <3> QED
      BY <1>1, <1>4, <2>1, <3>1, <3>2 DEF Agreed
  <2>3. CASE ~quiet
    <3>1. inbox' = Append(inbox, m)
      BY <1>9, <1>15, <2>3
    <3>2. \A now \in BOOLEAN :
            /\ m.op # "update" => (Finally(inbox', Flips(c), Starts(c), now) <=> m.op = "start")
            /\ m.op = "update" => (Finally(inbox', Flips(c), Starts(c), now)
                                     <=> Finally(inbox, Flips(c), Starts(c), now))
            /\ \A x : m.op # "stop" => (Finally(inbox', Shapes(c), ShapesTo(c, x), now)
                                          <=> Finally(inbox, Shapes(c), ShapesTo(c, x), now))
      BY <1>6, <1>10, <2>3, <3>1, OwnFinally
    <3>3. ~kept
      BY <2>3
    <3>4. Finally(inbox', Flips(c), Starts(c), handler[c].tracking) <=> Asks(c)'
      BY <1>5, <1>6, <1>7, <1>8, <1>15, <2>1, <2>3, <3>2, <3>3
    <3>5. impl[c].reg /\ ~listened[c] =>
             Finally(inbox', Shapes(c), ShapesTo(c, r.mask), handler[c].mask = r.mask)
      BY <1>6, <1>13, <2>1, <2>3, <3>2
    <3> QED
      BY <1>1, <1>4, <3>4, <3>5 DEF Agreed
  <2> QED
    BY <2>2, <2>3
<1>17. ASSUME Paced(c) PROVE Paced(c)'
  <2> SUFFICES ASSUME Registered(c) PROVE Paced(c)'
    BY DEF Paced, Registered
  <2>1. Asks(c) => Finally(inbox, Sets(c), SetsTo(c, r.interval), handler[c].interval = r.interval)
    BY <1>2, <1>17 DEF Paced
  <2>2. CASE quiet
    <3>1. inbox' = inbox
      BY <1>9, <2>2
    <3>2. Asks(c)' => Asks(c) /\ impl'[c].interval = r.interval
      BY <1>4, <1>5, <1>7, <1>8, <2>2
    <3> QED
      BY <1>1, <1>17, <2>1, <3>1, <3>2 DEF Paced, Registered
  <2>3. CASE ~quiet
    <3>1. inbox' = Append(inbox, m)
      BY <1>9, <1>15, <2>3
    <3>2. impl'[c].interval = i
      BY <1>4, <2>3
    <3>3. i # 0 => \A now \in BOOLEAN : Finally(inbox', Sets(c), SetsTo(c, i), now)
      BY <1>6, <1>10, <2>3, <3>1, OwnFinally
    <3>4. Asks(c)' => i # 0
      BY <1>8, <2>3
    <3>5. (handler[c].interval = i) \in BOOLEAN
      OBVIOUS
    <3> QED
      BY <1>1, <1>17, <3>2, <3>3, <3>4, <3>5 DEF Paced, Registered
  <2> QED
    BY <2>2, <2>3
<1>18. ASSUME Wanted(c) PROVE Wanted(c)'
  <2>1. Head(task[c]) \in Moves /\ WishOf(Head(task[c])) = <<i>>
    BY <1>2, TaskKinds DEF WishOf
  <2>2. Current(c)' = <<i>>
    BY <1>4 DEF Current
  <2> QED
    BY <1>1, <1>2, <1>18, <2>1, <2>2, WantedPop
<1> QED
  BY <1>12, <1>14, <1>16, <1>17, <1>18 DEF Linked

(* StopTrackingReq does: it sends a stop exactly for a session the daemon  *)
(* runs.                                                                   *)
LEMMA StopOwn ==
    ASSUME TypeOK, NEW c \in Clients, Client!StopTrackingReq(c), UNCHANGED daemonOnly, Linked(c)
    PROVE  /\ Linked(c)'
           /\ Paced(c) => Paced(c)'
           /\ Wanted(c) => Wanted(c)'
<1> USE DEF daemonOnly, Client!appVars
<1> DEFINE r == impl[c]
           m == [from |-> c, op |-> "stop"]
<1>1. /\ Client!Processes(c, "stop") /\ Client!Pop(c)
      /\ UNCHANGED <<alive, app, wish, listened, up>>
      /\ impl'[c] = IF r.session THEN [r EXCEPT !.session = FALSE, !.interval = 0, !.mask = {}] ELSE r
      /\ IF r.session /\ r.reg /\ r.interval # 0 THEN Client!Send(<<m>>) ELSE Client!Send(<<>>)
  BY DEF Client!StopTrackingReq, Client!Update, TypeOK, Client!Passive, Client!NoMask
<1>2. /\ task[c] \in Seq(Client!TaskMsg) /\ task[c] # <<>> /\ task'[c] = Tail(task[c])
      /\ Head(task[c]) \in Client!TaskMsg /\ Head(task[c]).op = "stop" /\ alive[c]
  BY <1>1, TaskHead DEF Client!Pop, TypeOK
<1>3. r \in Client!ImplType
  BY DEF TypeOK
<1>4. /\ impl'[c].reg = r.reg /\ impl'[c].session = FALSE
      /\ impl'[c].mask = (IF r.session THEN {} ELSE r.mask)
  BY <1>1, <1>3 DEF Client!ImplType
<1>5. m \in Client!InboxMsg /\ m.from = c /\ m.op = "stop" /\ MaskOf(m) = {}
  BY DEF Client!InboxMsg, MaskOf
<1> HIDE DEF m
<1>6. /\ m \in Work(c) /\ m \notin Starts(c) /\ m \in Needs(c) /\ m \in Flips(c)
      /\ m \notin Sets(c) /\ m \in Shapes(c) /\ m \in ShapesTo(c, {})
  BY <1>5, OwnKinds
<1>7. Asks(c) <=> r.session /\ r.reg /\ r.interval # 0
  BY DEF Asks
<1>8. \/ inbox' = inbox /\ (~up \/ ~Asks(c))
      \/ up /\ Asks(c) /\ inbox' = Append(inbox, m)
  BY <1>1, <1>5, <1>7, Sends, SendNothing
<1>9. Queued(c)' /\ Enlisted(c)' /\ Undisturbed(c)' /\ Orders(c)' /\ Calm(c)' /\ Served(c)'
  <2>1. Request(c)
    BY <1>2, <1>6, <1>7, <1>8 DEF Request
  <2> QED
    BY <1>1, <1>4, <2>1, Popped
<1>10. Listens(c)'
  BY <1>1, <1>2, <1>4, TailHas DEF Linked, Listens
<1>11. ASSUME Registered(c) PROVE up /\ handler[c].tracking \in BOOLEAN
  BY <1>11 DEF Linked, Enlisted, TypeOK, HandlerType, Registered
<1>12. ~Asks(c)'
  BY <1>4 DEF Asks
<1>13. Agreed(c)'
  <2> SUFFICES ASSUME Registered(c) PROVE Agreed(c)'
    BY DEF Agreed, Registered
  <2>1. /\ Finally(inbox, Flips(c), Starts(c), handler[c].tracking) <=> Asks(c)
        /\ impl[c].reg /\ ~listened[c] =>
             Finally(inbox, Shapes(c), ShapesTo(c, r.mask), handler[c].mask = r.mask)
    BY <1>2 DEF Linked, Agreed
  <2>2. CASE ~Asks(c)
    <3>1. inbox' = inbox
      BY <1>8, <2>2
    <3>2. r.reg /\ ~listened[c] => impl'[c].mask = r.mask
      BY <1>4, <1>7, <2>2 DEF Linked, Listens
    <3> QED
      BY <1>1, <1>4, <1>12, <2>1, <2>2, <3>1, <3>2 DEF Agreed
  <2>3. CASE Asks(c)
    <3>1. inbox' = Append(inbox, m)
      BY <1>8, <1>11, <2>3
    <3>2. \A now \in BOOLEAN : /\ ~Finally(inbox', Flips(c), Starts(c), now)
                               /\ Finally(inbox', Shapes(c), ShapesTo(c, {}), now)
      BY <1>5, <1>6, <3>1, OwnFinally
    <3>3. impl'[c].mask = {}
      BY <1>4, <1>7, <2>3
    <3>4. (handler[c].mask = {}) \in BOOLEAN
      OBVIOUS
    <3> QED
      BY <1>1, <1>4, <1>11, <1>12, <3>2, <3>3, <3>4 DEF Agreed
  <2> QED
    BY <2>2, <2>3
<1>14. ASSUME Paced(c) PROVE Paced(c)'
  BY <1>12, <1>14 DEF Paced, Registered
<1>15. ASSUME Wanted(c) PROVE Wanted(c)'
  <2>1. Head(task[c]) \in Moves /\ WishOf(Head(task[c])) = <<>>
    BY <1>2, TaskKinds DEF WishOf
  <2>2. Current(c)' = <<>>
    BY <1>4 DEF Current
  <2> QED
    BY <1>1, <1>2, <1>15, <2>1, <2>2, WantedPop
<1> QED
  BY <1>9, <1>10, <1>13, <1>14, <1>15 DEF Linked

(* ClientRegisterReq does: the daemon the registration reaches, if any,    *)
(* does not know the client.                                               *)
LEMMA RegisterOwn ==
    ASSUME TypeOK, NEW c \in Clients, Client!ClientRegisterReq(c), UNCHANGED daemonOnly, Linked(c)
    PROVE  /\ Linked(c)'
           /\ Paced(c) => Paced(c)'
           /\ Wanted(c) => Wanted(c)'
<1> USE DEF daemonOnly, Client!appVars
<1> DEFINE m == [from |-> c, op |-> "register"]
<1>1. /\ Client!Processes(c, "register") /\ task'[c] = Tail(task[c])
      /\ UNCHANGED <<alive, impl, app, wish, listened, up>> /\ Client!Send(<<m>>)
  BY DEF Client!ClientRegisterReq, Client!Pop, TypeOK
<1>2. /\ task[c] \in Seq(Client!TaskMsg) /\ task[c] # <<>>
      /\ Head(task[c]) \in Client!TaskMsg /\ Head(task[c]).op = "register" /\ alive[c]
      /\ inbox \in Seq(Client!InboxMsg)
  BY <1>1, TaskHead DEF TypeOK
<1>3. /\ Head(task[c]) \in Register /\ Head(task[c]) \notin Ready /\ Head(task[c]) \notin Caps
      /\ Head(task[c]) \in Busy /\ Head(task[c]) \notin Moves
  BY <1>2, TaskKinds
<1>4. m \in Client!InboxMsg /\ m.from = c /\ m.op = "register"
  BY DEF Client!InboxMsg
<1> HIDE DEF m
<1>5. /\ m \in Reg(c) /\ m \notin Bye(c) /\ m \notin Work(c) /\ m \notin Starts(c)
         /\ m \notin Needs(c)
      /\ m \notin Flips(c) /\ m \notin Sets(c) /\ m \notin Shapes(c)
  BY <1>4, OwnKinds
<1>6. /\ up => inbox' = Append(inbox, m)
      /\ ~up => inbox' = inbox
  BY <1>1, <1>4, Sends
<1>7. Has(task[c], Register) /\ ~impl[c].reg /\ ~Has(task[c], Ready) /\ ~suspended
  <2>1. Has(task[c], Register) /\ Has(task[c], Busy)
    BY <1>2, <1>3, TailHas
  <2>2. ~Has(task[c], Ready)
    BY <1>2, <1>3, TailHas DEF Linked, Queued
  <2> QED
    BY <2>1, <2>2 DEF Linked, Enlisted, Calm
<1>8. Queued(c)'
  <2>1. Queued(c)
    BY DEF Linked
  <2> QED
    BY <1>1, <1>2, <2>1, TailHas DEF Queued
<1>9. /\ Has(task'[c], Ready) <=> Has(task[c], Ready)
      /\ Has(task'[c], Register) => Has(task[c], Register)
      /\ Has(task'[c], Caps) <=> Has(task[c], Caps)
  BY <1>1, <1>2, <1>3, TailHas
<1>10. /\ up => Has(inbox', Reg(c))
       /\ Has(inbox', Bye(c)) <=> Has(inbox, Bye(c))
       /\ Has(inbox', Work(c)) <=> Has(inbox, Work(c))
       /\ InOrder(inbox, Work(c), Reg(c)) => InOrder(inbox', Work(c), Reg(c))
       /\ ~Has(inbox, Work(c)) /\ InOrder(inbox, Reg(c), Work(c))
          => InOrder(inbox', Reg(c), Work(c))
  <2>1. CASE up
    <3>1. inbox' = Append(inbox, m)
      BY <1>6, <2>1
    <3> QED
      BY <1>2, <1>4, <1>5, <3>1, AppendHas
  <2>2. CASE ~up
    BY <1>6, <2>2
  <2> QED
    BY <2>1, <2>2
<1>11. Enlisted(c)'
  BY <1>1, <1>2, <1>6, <1>7, <1>9, <1>10 DEF Linked, Enlisted, Registered
<1>12. Undisturbed(c)'
  BY <1>1, <1>7 DEF Undisturbed
<1>13. Orders(c)'
  <2>1. CASE Registered(c)
    <3>1. ~Has(inbox, Work(c)) /\ ~handler[c].tracking
      BY <1>2, <1>7, <2>1 DEF Linked, Enlisted
    <3>2. Regular(c) /\ ~Tracked(c)' /\ ~Tracked(c)
      BY <2>1, <3>1 DEF Linked, Orders, Ignored, Tracked
    <3>3. Alternates(inbox', Flips(c), Starts(c), Needs(c), FALSE)
      <4>1. Starts(c) \in SUBSET Flips(c)
        BY InboxKinds
      <4>2. Tracked(c) = FALSE
        BY <3>2 DEF Tracked
      <4>3. Alternates(inbox, Flips(c), Starts(c), Needs(c), FALSE)
        BY <3>2, <4>2 DEF Regular
      <4>4. inbox' = Append(inbox, m)
        BY <1>6, <2>1 DEF Linked, Enlisted
      <4> QED
        BY <1>2, <1>4, <1>5, <4>1, <4>3, <4>4, AlternatesAppend
    <3>4. Tracked(c)' = FALSE
      BY <3>2 DEF Tracked
    <3> QED
      BY <1>10, <2>1, <3>1, <3>2, <3>3, <3>4 DEF Orders, Regular, Registered
  <2>2. CASE ~Registered(c)
    BY <1>1, <1>2, <1>10, <2>2 DEF Linked, Orders, Ignored, Registered
  <2> QED
    BY <2>1, <2>2
<1>14. Calm(c)'
  BY <1>7 DEF Calm
<1>15. Served(c)'
  BY DEF Linked, Served, Registered
<1>16. Listens(c)'
  BY <1>1, <1>2, TailHas DEF Linked, Listens
<1>17. \A now \in BOOLEAN :
         /\ Finally(inbox', Flips(c), Starts(c), now) <=> Finally(inbox, Flips(c), Starts(c), now)
         /\ \A i : Finally(inbox', Sets(c), SetsTo(c, i), now)
            <=> Finally(inbox, Sets(c), SetsTo(c, i), now)
         /\ \A x : Finally(inbox', Shapes(c), ShapesTo(c, x), now)
                     <=> Finally(inbox, Shapes(c), ShapesTo(c, x), now)
  BY <1>4, <1>5, <1>6, OwnFinally
<1>18. Agreed(c)'
  <2>1. Registered(c) => handler[c].tracking \in BOOLEAN
    BY DEF TypeOK, HandlerType, Registered
  <2> QED
    BY <1>1, <1>17, <2>1 DEF Linked, Agreed, Registered, Asks
<1>19. ASSUME Paced(c) PROVE Paced(c)'
  BY <1>1, <1>17, <1>19 DEF Paced, Registered, Asks
<1>20. ASSUME Wanted(c) PROVE Wanted(c)'
  BY <1>1, <1>3, <1>20, WantedPop DEF Current
<1> QED
  BY <1>8, <1>11, <1>12, <1>13, <1>14, <1>15, <1>16, <1>18, <1>19, <1>20 DEF Linked

(* E_LOCAPI_HAL_READY does: the client takes nothing for granted and       *)
(* registers again.                                                        *)
LEMMA ReadyOwn ==
    ASSUME TypeOK, NEW c \in Clients, Client!HalReady(c), UNCHANGED daemonOnly, Linked(c)
    PROVE  /\ Linked(c)'
           /\ Paced(c) => Paced(c)'
           /\ Wanted(c) => Wanted(c)'
<1> USE DEF daemonOnly, Client!appVars
<1> DEFINE m == [op |-> "register"]
           q == Tail(task[c])
<1>1. /\ Client!Processes(c, "ready") /\ task'[c] = Append(q, m)
      /\ UNCHANGED <<alive, app, wish, listened, inbox, up>>
      /\ impl'[c] = [impl[c] EXCEPT !.reg = FALSE]
  BY DEF Client!HalReady, Client!Update, TypeOK
<1>2. /\ task[c] \in Seq(Client!TaskMsg) /\ task[c] # <<>> /\ q \in Seq(Client!TaskMsg)
      /\ Head(task[c]) \in Client!TaskMsg /\ Head(task[c]).op = "ready" /\ alive[c]
  BY <1>1, TaskHead
<1>3. m \in Client!TaskMsg /\ m.op = "register"
  BY DEF Client!TaskMsg
<1> HIDE DEF m, q
<1>4. /\ Head(task[c]) \in Ready /\ Head(task[c]) \notin Register /\ Head(task[c]) \notin Caps
      /\ Head(task[c]) \in Busy /\ Head(task[c]) \notin Moves
      /\ m \in Register /\ m \notin Ready /\ m \notin Caps /\ m \notin Moves /\ m \notin Passives
  BY <1>2, <1>3, TaskKinds
<1>5. /\ impl'[c].reg = FALSE /\ impl'[c].session = impl[c].session
      /\ impl'[c].interval = impl[c].interval
  BY <1>1 DEF TypeOK, Client!ImplType
<1>6. Has(task[c], Ready) /\ Has(task[c], Busy) /\ ~Has(task[c], Caps)
  <2>1. InOrder(task[c], Caps, Ready)
    BY DEF Linked, Queued
  <2> QED
    BY <1>2, <1>4, <2>1, TailHas
<1>7. ~Registered(c) /\ ~Has(inbox, Reg(c)) /\ ~suspended
  BY <1>6 DEF Linked, Enlisted, Calm
<1>8. /\ Has(q, Ready) => Has(task[c], Ready)
      /\ ~Has(q, Caps)
      /\ InOrder(q, Ready, Register) /\ InOrder(q, Caps, Ready) /\ InOrder(q, Register, Caps)
      /\ AtMostOne(q, Caps)
      /\ Has(q, Passives) => Has(task[c], Passives)
  BY <1>2, <1>4, <1>6, TailHas DEF Linked, Queued, q
<1>9. /\ ~Has(task'[c], Caps) /\ Has(task'[c], Register)
      /\ Has(task'[c], Ready) => Has(task[c], Ready)
      /\ InOrder(task'[c], Ready, Register) /\ InOrder(task'[c], Caps, Ready)
      /\ InOrder(task'[c], Register, Caps) /\ AtMostOne(task'[c], Caps)
      /\ Has(task'[c], Passives) => Has(task[c], Passives)
  BY <1>1, <1>2, <1>3, <1>4, <1>8, AppendHas
<1>10. Queued(c)'
  BY <1>1, <1>2, <1>9 DEF Queued
<1>11. Enlisted(c)'
  BY <1>1, <1>5, <1>7, <1>9 DEF Linked, Enlisted, Registered
<1>12. Undisturbed(c)' /\ Agreed(c)' /\ Served(c)' /\ Paced(c)'
  BY <1>7 DEF Undisturbed, Agreed, Served, Paced, Registered
<1>13. Orders(c)'
  BY <1>1, <1>7 DEF Linked, Orders, Ignored, Regular, Tracked, Registered
<1>14. Calm(c)'
  BY <1>7 DEF Calm
<1>15. Listens(c)'
  BY <1>1, <1>5, <1>9 DEF Linked, Listens
<1>16. ASSUME Wanted(c) PROVE Wanted(c)'
  <2>1. MovesTo(wish[c]) \in SUBSET Moves
    BY MovesKinds
  <2>2. InOrder(q, Moves, Caps)
    BY <1>2, <1>16, TailHas DEF Wanted, q
  <2>3. InOrder(task'[c], Moves, Caps)
    BY <1>1, <1>2, <1>3, <1>4, <2>2, AppendHas
  <2>4. \A now \in BOOLEAN : Finally(task'[c], Moves, MovesTo(wish[c]), now)
                               <=> Finally(task[c], Moves, MovesTo(wish[c]), now)
    <3> TAKE now \in BOOLEAN
    <3>1. Finally(q, Moves, MovesTo(wish[c]), now)
          <=> Finally(task[c], Moves, MovesTo(wish[c]), now)
      BY <1>2, <1>4, <2>1, FinallyTail DEF q
    <3>2. Finally(task'[c], Moves, MovesTo(wish[c]), now)
          <=> Finally(q, Moves, MovesTo(wish[c]), now)
      BY <1>1, <1>2, <1>3, <1>4, <2>1, FinallyAppend
    <3> QED
      BY <3>1, <3>2
  <2>5. Current(c)' = Current(c) /\ (Current(c) = wish[c]) \in BOOLEAN
    BY <1>5 DEF Current
  <2> QED
    BY <1>1, <1>2, <1>16, <2>3, <2>4, <2>5 DEF Wanted
<1> QED
  BY <1>10, <1>11, <1>12, <1>13, <1>14, <1>15, <1>16 DEF Linked

(* DestroyReq does: the client is gone.                                    *)
LEMMA DestroyOwn ==
    ASSUME TypeOK, NEW c \in Clients, Client!DestroyReq(c), UNCHANGED daemonOnly, Linked(c)
    PROVE  /\ Linked(c)' /\ Wanted(c)'
           /\ Paced(c) => Paced(c)'
<1> USE DEF daemonOnly
<1> DEFINE m == [from |-> c, op |-> "deregister"]
<1>1. /\ Client!Processes(c, "destroy") /\ UNCHANGED up
      /\ ~alive'[c] /\ task'[c] = <<>> /\ impl'[c] = Client!NewImpl /\ app'[c] = <<>>
      /\ listened'[c] = FALSE
      /\ Client!Send(<<m>>) \/ Client!Send(<<>>)
  BY DEF Client!DestroyReq, Client!Gone, TypeOK
<1>2. /\ task[c] \in Seq(Client!TaskMsg) /\ task[c] # <<>>
      /\ Head(task[c]) \in Client!TaskMsg /\ Head(task[c]).op = "destroy" /\ alive[c]
      /\ inbox \in Seq(Client!InboxMsg)
  BY <1>1, TaskHead DEF TypeOK
<1>3. ~suspended
  <2>1. Head(task[c]) \in Busy
    BY <1>2, TaskKinds
  <2>2. Has(task[c], Busy)
    BY <1>2, <2>1, TailHas
  <2> QED
    BY <2>2 DEF Linked, Calm
<1>4. m \in Client!InboxMsg /\ m.from = c /\ m.op = "deregister"
  BY DEF Client!InboxMsg
<1> HIDE DEF m
<1>5. m \notin Reg(c) /\ m \notin Work(c) /\ m \notin Starts(c) /\ m \notin Needs(c)
      /\ m \notin Flips(c)
  BY <1>4, OwnKinds
<1>6. inbox' = inbox \/ (up /\ inbox' = Append(inbox, m))
  BY <1>1, <1>4, Sends, SendNothing
<1>7. CASE inbox' = inbox
  BY <1>1, <1>3, <1>7, ViewSame, Departed
<1>8. CASE up /\ inbox' = Append(inbox, m)
  <2>1. /\ Has(inbox', Reg(c)) <=> Has(inbox, Reg(c))
        /\ InOrder(inbox, Work(c), Reg(c)) => InOrder(inbox', Work(c), Reg(c))
        /\ InOrder(inbox, Reg(c), Work(c)) => InOrder(inbox', Reg(c), Work(c))
    BY <1>2, <1>4, <1>5, <1>8, AppendHas
  <2>2. Tracked(c)' = Tracked(c) /\ Tracked(c) \in BOOLEAN
    BY DEF Tracked, Registered, TypeOK, HandlerType
  <2>3. Starts(c) \in SUBSET Flips(c)
    BY InboxKinds
  <2>4. Alternates(inbox, Flips(c), Starts(c), Needs(c), Tracked(c))
          => Alternates(inbox', Flips(c), Starts(c), Needs(c), Tracked(c))
    BY <1>2, <1>4, <1>5, <1>8, <2>2, <2>3, AlternatesAppend
  <2>5. Orders(c)'
    BY <1>1, <2>1, <2>2, <2>4 DEF Linked, Orders, Regular, Ignored, Registered
  <2> QED
    BY <1>1, <1>3, <1>8, <2>5, Departed
<1> QED
  BY <1>6, <1>7, <1>8

(* capabilitesCallback does: the session is started again, by a message    *)
(* behind the others.                                                      *)
LEMMA CapsOwn ==
    ASSUME TypeOK, NEW c \in Clients, Client!CapabilitiesCallback(c), UNCHANGED daemonOnly,
        Linked(c)
    PROVE  /\ Linked(c)'
           /\ Paced(c) => Paced(c)'
           /\ Wanted(c) => Wanted(c)'
<1> USE DEF daemonOnly, Client!appVars
<1> DEFINE r == impl[c]
           q == Tail(task[c])
           s == [op |-> "start", interval |-> r.interval]
           m == [from |-> c, op |-> "callbacks", mask |-> r.mask]
<1>1. /\ Client!Processes(c, "caps")
      /\ UNCHANGED <<alive, app, wish, listened, up>>
      /\ impl'[c] = [r EXCEPT !.reg = TRUE, !.session = FALSE]
      /\ task'[c] = q \o (IF r.session THEN <<s>> ELSE <<>>)
      /\ IF r.mask # {} THEN Client!Send(<<m>>) ELSE Client!Send(<<>>)
  BY DEF Client!CapabilitiesCallback, Client!Update, TypeOK, Client!NoMask
<1>2. /\ task[c] \in Seq(Client!TaskMsg) /\ task[c] # <<>> /\ q \in Seq(Client!TaskMsg)
      /\ Head(task[c]) \in Client!TaskMsg /\ Head(task[c]).op = "caps" /\ alive[c]
      /\ inbox \in Seq(Client!InboxMsg)
  BY <1>1, TaskHead DEF TypeOK
<1>3. /\ r \in Client!ImplType
      /\ impl'[c].reg = TRUE /\ impl'[c].session = FALSE
      /\ impl'[c].interval = r.interval /\ impl'[c].mask = r.mask
  BY <1>1 DEF TypeOK, Client!ImplType
<1>4. s \in Client!TaskMsg /\ s.op = "start" /\ s.interval = r.interval
  BY <1>3 DEF Client!TaskMsg, Client!ImplType
<1>5. r.mask # {} => m \in Client!InboxMsg
  BY <1>3 DEF Client!InboxMsg, Client!ImplType, Client!NoMask
<1>6. m.from = c /\ m.op = "callbacks" /\ MaskOf(m) = r.mask
  BY DEF MaskOf
<1> HIDE DEF s, m, q
<1>7. task'[c] = IF r.session THEN Append(q, s) ELSE q
  <2>1. q \o <<s>> = Append(q, s)
    BY <1>2, <1>4, AppendIsConcat
  <2>2. q \o <<>> = q
    BY <1>2, ConcatEmptySeq
  <2> QED
    BY <1>1, <2>1, <2>2
<1>8. /\ Head(task[c]) \in Caps /\ Head(task[c]) \notin Ready /\ Head(task[c]) \notin Register
      /\ Head(task[c]) \notin Moves
      /\ s \in Moves /\ s \notin Caps /\ s \notin Ready /\ s \notin Register
      /\ s \in Passives <=> r.interval = 0
  BY <1>2, <1>4, TaskKinds
<1>9. Queued(c)
  BY DEF Linked
<1>10. /\ Has(task[c], Caps) /\ ~Has(q, Caps) /\ ~Has(task[c], Register)
       /\ Has(q, Ready) <=> Has(task[c], Ready)
       /\ ~Has(q, Register)
       /\ InOrder(q, Ready, Register) /\ InOrder(q, Caps, Ready) /\ InOrder(q, Register, Caps)
       /\ AtMostOne(q, Caps)
       /\ Has(q, Passives) => Has(task[c], Passives)
       /\ Has(q, Busy) => Has(task[c], Busy)
  BY <1>2, <1>8, <1>9, TailHas DEF Queued, q
<1>11. /\ ~Has(task'[c], Caps) /\ ~Has(task'[c], Register)
       /\ Has(task'[c], Ready) <=> Has(task[c], Ready)
       /\ InOrder(task'[c], Ready, Register) /\ InOrder(task'[c], Caps, Ready)
       /\ InOrder(task'[c], Register, Caps) /\ AtMostOne(task'[c], Caps)
       /\ Has(task'[c], Passives) => Has(task[c], Passives) \/ (r.session /\ r.interval = 0)
       /\ ~r.session /\ Has(task'[c], Busy) => Has(task[c], Busy)
  <2>1. CASE r.session
    <3>1. task'[c] = Append(q, s)
      BY <1>7, <2>1
    <3> QED
      BY <1>2, <1>4, <1>8, <1>10, <2>1, <3>1, AppendHas
  <2>2. CASE ~r.session
    <3>1. task'[c] = q
      BY <1>7, <2>2
    <3> QED
      BY <1>10, <2>2, <3>1
  <2> QED
    BY <2>1, <2>2
<1>12. Queued(c)'
  BY <1>1, <1>2, <1>11 DEF Queued
<1>13. r.mask # {} => /\ m \in Work(c) /\ m \notin Reg(c) /\ m \notin Bye(c) /\ m \notin Errands(c)
                      /\ m \notin Starts(c) /\ m \notin Needs(c) /\ m \notin Flips(c)
                         /\ m \notin Sets(c)
                      /\ m \in Shapes(c) /\ m \in ShapesTo(c, r.mask)
  BY <1>5, <1>6, OwnKinds
<1>14. \/ inbox' = inbox /\ (~up \/ r.mask = {})
       \/ up /\ r.mask # {} /\ inbox' = Append(inbox, m)
  BY <1>1, <1>5, Sends, SendNothing
<1>15. /\ Has(inbox', Reg(c)) <=> Has(inbox, Reg(c))
       /\ Has(inbox', Bye(c)) <=> Has(inbox, Bye(c))
       /\ Has(inbox', Errands(c)) <=> Has(inbox, Errands(c))
       /\ InOrder(inbox, Reg(c), Work(c)) => InOrder(inbox', Reg(c), Work(c))
       /\ ~Has(inbox, Reg(c)) => InOrder(inbox', Work(c), Reg(c))
  <2>1. ~Has(inbox, Reg(c)) => InOrder(inbox, Work(c), Reg(c))
    BY DEF Has, InOrder
  <2>2. CASE inbox' = inbox
    BY <2>1, <2>2
  <2>3. CASE r.mask # {} /\ inbox' = Append(inbox, m)
    BY <1>2, <1>5, <1>13, <2>1, <2>3, AppendHas
  <2> QED
    BY <1>14, <2>2, <2>3
<1>16. ~up => inbox' = inbox
  BY <1>14
<1>17. Enlisted(c)'
  BY <1>1, <1>2, <1>3, <1>10, <1>11, <1>15, <1>16 DEF Linked, Enlisted, Registered
<1>18. Registered(c) => ~Has(handler[c].answers, News)
  BY <1>10 DEF Linked, Enlisted
<1>19. Undisturbed(c)'
  BY <1>11, <1>18 DEF Undisturbed, Registered
<1>20. Orders(c)'
  <2>1. CASE Registered(c)
    <3>1. Regular(c)
      BY <2>1 DEF Linked, Orders, Ignored
    <3>2. Tracked(c)' = Tracked(c) /\ Tracked(c) \in BOOLEAN
      BY DEF Tracked, Registered, TypeOK, HandlerType
    <3>3. Starts(c) \in SUBSET Flips(c)
      BY InboxKinds
    <3>4. Alternates(inbox, Flips(c), Starts(c), Needs(c), Tracked(c))
      BY <3>1 DEF Regular
    <3>5. Alternates(inbox', Flips(c), Starts(c), Needs(c), Tracked(c))
      <4>1. CASE inbox' = inbox
        BY <3>4, <4>1
      <4>2. CASE r.mask # {} /\ inbox' = Append(inbox, m)
        BY <1>2, <1>5, <1>13, <3>2, <3>3, <3>4, <4>2, AlternatesAppend
      <4> QED
        BY <1>14, <4>1, <4>2
    <3> QED
      BY <1>15, <2>1, <3>1, <3>2, <3>5 DEF Orders, Regular, Registered
  <2>2. CASE ~Registered(c)
    <3>1. up => Has(task[c], Ready)
      BY <1>2, <1>10, <2>2 DEF Linked, Enlisted
    <3>2. ~Has(inbox, Reg(c))
      BY <3>1, EmptyHas DEF Linked, Enlisted
    <3> QED
      BY <1>1, <1>15, <2>2, <3>2 DEF Orders, Ignored, Registered
  <2> QED
    BY <2>1, <2>2
<1>21. Calm(c)'
  <2>1. suspended => ~r.session
    BY <1>2, <1>10 DEF Linked, Calm, Undisturbed
  <2> QED
    BY <1>1, <1>2, <1>3, <1>11, <1>15, <2>1 DEF Linked, Calm, Registered
<1>22. Served(c)'
  BY DEF Linked, Served, Registered
<1>23. Listens(c)'
  BY <1>1, <1>3, <1>11 DEF Linked, Listens
<1>24. ASSUME Registered(c)
       PROVE  up /\ handler[c].tracking \in BOOLEAN
           /\ ~Finally(inbox, Flips(c), Starts(c), handler[c].tracking)
  <2>1. up /\ handler[c].tracking \in BOOLEAN
    BY <1>24 DEF Linked, Enlisted, TypeOK, HandlerType, Registered
  <2>2. CASE r.reg
    BY <1>2, <1>10, <1>24, <2>1, <2>2 DEF Linked, Undisturbed, Agreed, Asks
  <2>3. CASE ~r.reg
    <3>1. ~Has(inbox, Work(c)) /\ ~handler[c].tracking
      BY <1>2, <1>24, <2>3 DEF Linked, Enlisted
    <3>2. ~Has(inbox, Starts(c))
      BY <3>1 DEF Has, Work, Starts, From
    <3> QED
      BY <2>1, <3>1, <3>2 DEF Finally, Has
  <2> QED
    BY <2>1, <2>2, <2>3
<1>25. Agreed(c)'
  <2> SUFFICES ASSUME Registered(c) PROVE Agreed(c)'
    BY DEF Agreed, Registered
  <2>1. ~Asks(c)'
    BY <1>3 DEF Asks
  <2>2. CASE r.mask = {}
    <3>1. inbox' = inbox
      BY <1>14, <2>2
    <3>2. CASE r.reg
      BY <1>1, <1>2, <1>3, <1>24, <2>1, <3>1, <3>2 DEF Linked, Agreed
    <3>3. CASE ~r.reg
      <4>1. ~Has(inbox, Work(c)) /\ handler[c].mask = {}
        BY <1>2, <3>3 DEF Linked, Enlisted
      <4>2. ~Has(inbox, Shapes(c))
        BY <4>1 DEF Has, Work, Shapes, From
      <4>3. Finally(inbox, Shapes(c), ShapesTo(c, r.mask), handler[c].mask = r.mask)
        BY <2>2, <4>1, <4>2 DEF Finally
      <4> QED
        BY <1>1, <1>3, <1>24, <2>1, <3>1, <4>3 DEF Agreed
    <3> QED
      BY <3>2, <3>3
  <2>3. CASE r.mask # {}
    <3>1. inbox' = Append(inbox, m)
      BY <1>14, <1>24, <2>3
    <3>2. \A now \in BOOLEAN :
            /\ Finally(inbox', Flips(c), Starts(c), now)
               <=> Finally(inbox, Flips(c), Starts(c), now)
            /\ Finally(inbox', Shapes(c), ShapesTo(c, r.mask), now)
      BY <1>5, <1>13, <2>3, <3>1, OwnFinally
    <3>3. (handler[c].mask = r.mask) \in BOOLEAN
      OBVIOUS
    <3> QED
      BY <1>1, <1>3, <1>24, <2>1, <3>2, <3>3 DEF Agreed
  <2> QED
    BY <2>2, <2>3
<1>26. ASSUME Paced(c) PROVE Paced(c)'
  BY <1>3, <1>26 DEF Paced, Registered, Asks
<1>27. ASSUME Wanted(c) PROVE Wanted(c)'
  <2>1. InOrder(task[c], Moves, Caps)
    BY <1>2, <1>27 DEF Wanted
  <2>2. ~Has(task[c], Moves)
    BY <1>2, <1>8, <2>1, TailHas
  <2>3. ~Has(q, Moves)
    BY <1>2, <2>2, TailHas DEF q
  <2>4. Current(c) = wish[c]
    <3>1. ~Has(task[c], MovesTo(wish[c]))
      BY <2>2 DEF Has, MovesTo
    <3>2. Finally(task[c], Moves, MovesTo(wish[c]), Current(c) = wish[c])
      BY <1>2, <1>27 DEF Wanted
    <3> QED
      BY <3>1, <3>2 DEF Finally, Has
  <2>5. Current(c)' = <<>>
    BY <1>3 DEF Current
  <2>6. InOrder(task'[c], Moves, Caps)
    BY <1>11 DEF InOrder, Has
  <2>7. CASE r.session
    <3>1. wish[c] = <<r.interval>>
      BY <2>4, <2>7 DEF Current
    <3>2. s \in MovesTo(wish[c]) /\ MovesTo(wish[c]) \in SUBSET Moves
      BY <1>4, <1>8, <3>1, TaskKinds, MovesKinds DEF WishOf
    <3>3. task'[c] = Append(q, s)
      BY <1>7, <2>7
    <3>4. \A now \in BOOLEAN : Finally(task'[c], Moves, MovesTo(wish[c]), now)
      BY <1>2, <1>4, <1>8, <3>2, <3>3, FinallyAppend
    <3> QED
      BY <1>1, <2>6, <3>4 DEF Wanted
  <2>8. CASE ~r.session
    <3>1. wish[c] = <<>> /\ task'[c] = q
      BY <1>7, <2>4, <2>8 DEF Current
    <3>2. Finally(task'[c], Moves, MovesTo(wish[c]), TRUE)
      BY <2>3, <3>1 DEF Finally
    <3>3. ((Current(c) = wish[c])') = TRUE
      BY <1>1, <2>5, <3>1
    <3> QED
      BY <1>1, <2>6, <3>2, <3>3 DEF Wanted
  <2> QED
    BY <2>7, <2>8
<1> QED
  BY <1>12, <1>17, <1>19, <1>20, <1>21, <1>22, <1>23, <1>25, <1>26, <1>27 DEF Linked

(* Every step of a client's task keeps what holds of the client ...        *)
LEMMA TaskOwn ==
    ASSUME TypeOK, NEW c \in Clients, TaskStep(c), Linked(c)
    PROVE  /\ Linked(c)'
           /\ Paced(c) => Paced(c)'
           /\ Wanted(c) => Wanted(c)'
<1>1. UNCHANGED daemonOnly /\ Client!TaskStep(c)
  BY DEF TaskStep
<1> QED
  BY <1>1, ResponseOwn, CallbacksOwn, StartOwn, StopOwn, RegisterOwn, ReadyOwn, DestroyOwn, CapsOwn
  DEF Client!TaskStep

(* ... and leaves the others alone.                                        *)
LEMMA TaskOthers ==
    ASSUME TypeOK, NEW c \in Clients, TaskStep(c), NEW d \in Clients, d # c,
           d \in maint.purging => ~alive[d]
    PROVE  Untouched(d)
<1>1. UNCHANGED daemonOnly /\ Client!TaskStep(c)
  BY DEF TaskStep
<1> DEFINE Rest(e) == /\ alive'[e] = alive[e] /\ impl'[e] = impl[e] /\ task'[e] = task[e]
                      /\ app'[e] = app[e] /\ wish'[e] = wish[e] /\ listened'[e] = listened[e]
                      /\ UNCHANGED up
<1>2. Rest(d)
  BY <1>1 DEF Client!TaskStep, Client!ClientRegisterReq, Client!UpdateCallbacksReq,
     Client!StartTrackingReq, Client!StopTrackingReq, Client!DestroyReq, Client!Gone,
     Client!CapabilitiesCallback, Client!HalReady, Client!Response, Client!Pop, Client!Update,
     Client!appVars, TypeOK
<1> DEFINE Sent == \/ inbox' = inbox
                   \/ (up /\ \E m \in Client!InboxMsg : m.from = c /\ inbox' = Append(inbox, m))
<1>3. Sent
  <2>0. ASSUME NEW m \in Client!InboxMsg, m.from = c, Client!Send(<<m>>) PROVE Sent
    BY <2>0, Sends
  <2>1. ASSUME Client!ClientRegisterReq(c) PROVE Sent
    <3>1. [from |-> c, op |-> "register"] \in Client!InboxMsg
      BY DEF Client!InboxMsg
    <3> QED
      BY <2>0, <2>1, <3>1 DEF Client!ClientRegisterReq
  <2>2. ASSUME Client!UpdateCallbacksReq(c) PROVE Sent
    <3>1. Head(task[c]).mask \in Masks
      BY <2>2, TaskHead DEF Client!UpdateCallbacksReq, Client!TaskMsg
    <3>2. [from |-> c, op |-> "callbacks", mask |-> Head(task[c]).mask] \in Client!InboxMsg
      BY <3>1 DEF Client!InboxMsg
    <3> QED
      BY <2>0, <2>2, <3>2, SendNothing DEF Client!UpdateCallbacksReq
  <2>3. ASSUME Client!StartTrackingReq(c) PROVE Sent
    <3> DEFINE i == Head(task[c]).interval
    <3>1. i \in Intervals \cup {0}
      BY <2>3, TaskHead DEF Client!StartTrackingReq, Client!TaskMsg
    <3>2. /\ i # 0 => [from |-> c, op |-> "start", interval |-> i] \in Client!InboxMsg
          /\ Client!UpdateMessage(c, impl[c].interval, i) \in Client!InboxMsg
          /\ Client!UpdateMessage(c, impl[c].interval, i).from = c
      BY <3>1 DEF Client!InboxMsg, Client!UpdateMessage, Client!Passive
    <3> QED
      BY <2>0, <2>3, <3>2, SendNothing DEF Client!StartTrackingReq, Client!Passive
  <2>4. ASSUME Client!StopTrackingReq(c) PROVE Sent
    <3>1. [from |-> c, op |-> "stop"] \in Client!InboxMsg
      BY DEF Client!InboxMsg
    <3> QED
      BY <2>0, <2>4, <3>1, SendNothing DEF Client!StopTrackingReq
  <2>5. ASSUME Client!DestroyReq(c) PROVE Sent
    <3>1. [from |-> c, op |-> "deregister"] \in Client!InboxMsg
      BY DEF Client!InboxMsg
    <3> QED
      BY <2>0, <2>5, <3>1, SendNothing DEF Client!DestroyReq
  <2>6. ASSUME Client!CapabilitiesCallback(c) PROVE Sent
    <3>1. impl[c].mask # {}
          => [from |-> c, op |-> "callbacks", mask |-> impl[c].mask] \in Client!InboxMsg
      BY DEF Client!InboxMsg, TypeOK, Client!ImplType, Client!NoMask
    <3> QED
      BY <2>0, <2>6, <3>1, SendNothing DEF Client!CapabilitiesCallback, Client!NoMask
  <2>7. ASSUME Client!HalReady(c) \/ Client!Response(c) PROVE Sent
    BY <2>7 DEF Client!HalReady, Client!Response
  <2> QED
    BY <1>1, <2>1, <2>2, <2>3, <2>4, <2>5, <2>6, <2>7 DEF Client!TaskStep
<1> QED
  BY <1>1, <1>2, <1>3 DEF daemonOnly, Untouched
-----------------------------------------------------------------------------
(* A handler that pushes a message id and asks for the answer stays in     *)
(* step, and so does one that answers.                                     *)
LEMMA MatchedPush ==
    ASSUME NEW h \in HandlerType, NEW g \in HandlerType, NEW op \in Operations, Matched(h),
           g.answers = Append(h.answers, [op |-> "answer"]), g.pending = Append(h.pending, op)
    PROVE  Matched(g)
<1> DEFINE a == h.answers
           p == h.pending
           n == Len(a)
           k == First(h)
<1>1. /\ a \in Seq(AnswerMsg) /\ p \in Seq(Operations) /\ [op |-> "answer"] \in AnswerMsg
  BY DEF HandlerType, AnswerMsg
<1>2. /\ n \in Nat /\ Len(p) \in Nat /\ k \in {0, 1} /\ n = Len(p) + k
      /\ \A i \in 1..n : a[i].op = "caps" => i = 1
  <2>1. n \in Nat /\ Len(p) \in Nat
    BY <1>1
  <2>2. k \in {0, 1}
    BY DEF First
  <2> QED
    BY <2>1, <2>2 DEF Matched
<1>3. /\ Len(g.answers) = n + 1 /\ Len(g.pending) = Len(p) + 1
      /\ \A i \in 1..n : g.answers[i] = a[i]
      /\ g.answers[n + 1] = [op |-> "answer"]
  BY <1>1, AppendProperties
<1>4. First(g) = k
  <2>1. CASE n = 0
    <3>1. a = <<>> /\ k = 0
      BY <1>1, <2>1, EmptySeq DEF First
    <3>2. g.answers[1].op # "caps"
      BY <1>3, <2>1
    <3> QED
      BY <3>1, <3>2 DEF First
  <2>2. CASE n # 0
    <3>1. 1 \in 1..n /\ a # <<>> /\ g.answers # <<>>
      BY <1>1, <1>2, <1>3, <2>2, EmptySeq
    <3> QED
      BY <1>3, <3>1 DEF First
  <2> QED
    BY <2>1, <2>2
<1> HIDE DEF a, p, n, k
<1>5. \A i \in 1..n + 1 : g.answers[i].op = "caps" => i = 1
  <2> TAKE i \in 1..n + 1
  <2>1. i \in 1..n \/ i = n + 1
    BY <1>2
  <2> QED
    BY <1>2, <1>3, <2>1
<1>6. n + 1 = (Len(p) + 1) + k
  BY <1>2
<1> QED
  BY <1>3, <1>4, <1>5, <1>6 DEF Matched

(* An answer takes a message id.                                           *)
LEMMA MatchedPop ==
    ASSUME NEW h \in HandlerType, NEW g \in HandlerType, Matched(h), h.answers # <<>>,
           Head(h.answers).op # "caps", g.answers = Tail(h.answers)
    PROVE  /\ h.pending # <<>>
           /\ g.pending = Tail(h.pending) => Matched(g)
           /\ ~Has(h.answers, News)
<1> DEFINE a == h.answers
           p == h.pending
           n == Len(a)
<1>1. a \in Seq(AnswerMsg) /\ p \in Seq(Operations)
  BY DEF HandlerType
<1>2. n \in Nat /\ n >= 1 /\ Head(a) = a[1] /\ Len(p) \in Nat
  BY <1>1, EmptySeq, LenProperties, HeadTailProperties
<1>3. First(h) = 0
  BY <1>2 DEF First
<1>4. n = Len(p) /\ \A i \in 1..n : a[i].op = "caps" => i = 1
  BY <1>2, <1>3 DEF Matched
<1>5. \A i \in 1..n : a[i].op # "caps"
  BY <1>2, <1>4
<1>6. p # <<>>
  BY <1>1, <1>2, <1>4, EmptySeq
<1>7. ASSUME g.pending = Tail(p) PROVE Matched(g)
  <2>1. /\ Len(g.answers) = n - 1 /\ Len(g.pending) = n - 1
        /\ \A i \in 1..n - 1 : g.answers[i] = a[i + 1]
    BY <1>1, <1>2, <1>4, <1>6, <1>7, HeadTailProperties
  <2>2. \A i \in 1..n - 1 : i + 1 \in 1..n
    BY <1>2
  <2>3. \A i \in 1..n - 1 : g.answers[i].op # "caps"
    BY <1>5, <2>1, <2>2
  <2>4. First(g) = 0
    <3>1. CASE n = 1
      <4>1. Len(g.answers) = 0 /\ g.answers \in Seq(AnswerMsg)
        BY <2>1, <3>1 DEF HandlerType
      <4>2. g.answers = <<>>
        BY <4>1, EmptySeq
      <4> QED
        BY <4>2 DEF First
    <3>2. CASE n # 1
      <4> HIDE DEF n
      <4>1. 1 \in 1..n - 1
        BY <1>2, <3>2
      <4> QED
        BY <2>3, <4>1 DEF First
    <3> QED
      BY <3>1, <3>2
  <2> QED
    BY <1>2, <2>1, <2>3, <2>4 DEF Matched
<1>8. ~Has(a, News)
  <2>1. DOMAIN a = 1..n
    BY <1>1
  <2> QED
    BY <1>5, <2>1 DEF Has, News
<1> QED
  BY <1>6, <1>7, <1>8

(* News of the capabilities take none.                                     *)
LEMMA MatchedNews ==
    ASSUME NEW h \in HandlerType, NEW g \in HandlerType, Matched(h), h.answers # <<>>,
           Head(h.answers).op = "caps", g.answers = Tail(h.answers), g.pending = h.pending
    PROVE  Matched(g) /\ ~Has(g.answers, News)
<1> DEFINE a == h.answers
           p == h.pending
           n == Len(a)
<1>1. a \in Seq(AnswerMsg) /\ p \in Seq(Operations)
  BY DEF HandlerType
<1>2. n \in Nat /\ n >= 1 /\ Head(a) = a[1] /\ Len(p) \in Nat
  BY <1>1, EmptySeq, LenProperties, HeadTailProperties
<1>3. First(h) = 1
  BY <1>2 DEF First
<1>4. n = Len(p) + 1 /\ \A i \in 1..n : a[i].op = "caps" => i = 1
  BY <1>2, <1>3 DEF Matched
<1>5. /\ Len(g.answers) = Len(p)
      /\ \A i \in 1..Len(p) : g.answers[i] = a[i + 1]
  <2>1. /\ Len(g.answers) = n - 1
        /\ \A i \in 1..n - 1 : g.answers[i] = a[i + 1]
    BY <1>1, <1>2, HeadTailProperties
  <2>2. n - 1 = Len(p)
    BY <1>2, <1>4
  <2> QED
    BY <2>1, <2>2
<1>6. \A i \in 1..Len(p) : g.answers[i].op # "caps"
  <2> TAKE i \in 1..Len(p)
  <2>1. i + 1 \in 1..n /\ i + 1 # 1
    BY <1>2, <1>4
  <2> QED
    BY <1>4, <1>5, <2>1
<1>7. g.answers \in Seq(AnswerMsg) /\ DOMAIN g.answers = 1..Len(p)
  BY <1>5 DEF HandlerType
<1>8. First(g) = 0
  <2>1. CASE Len(p) = 0
    <3>1. g.answers = <<>>
      BY <1>5, <1>7, <2>1, EmptySeq
    <3> QED
      BY <3>1 DEF First
  <2>2. CASE Len(p) # 0
    <3>1. 1 \in 1..Len(p)
      BY <1>2, <2>2
    <3> QED
      BY <1>6, <3>1 DEF First
  <2> QED
    BY <2>1, <2>2
<1>9. Matched(g)
  BY <1>2, <1>5, <1>6, <1>8 DEF Matched
<1>10. ~Has(g.answers, News)
  BY <1>6, <1>7 DEF Has, News
<1> QED
  BY <1>9, <1>10

(* A handler that has only news to tell is in step.                        *)
LEMMA MatchedFresh ==
    ASSUME NEW g \in HandlerType, g.pending = <<>>, Len(g.answers) = 1, g.answers[1].op = "caps"
    PROVE  Matched(g) /\ Has(g.answers, News)
<1>1. g.answers \in Seq(AnswerMsg) /\ g.answers # <<>> /\ DOMAIN g.answers = 1..1
      /\ Len(g.pending) = 0
  BY EmptySeq DEF HandlerType
<1>2. First(g) = 1
  BY <1>1 DEF First
<1>3. \A i \in 1..1 : i = 1
  OBVIOUS
<1>4. Matched(g)
  BY <1>1, <1>2, <1>3 DEF Matched
<1>5. g.answers[1] \in AnswerMsg
  BY <1>1
<1> QED
  BY <1>1, <1>4, <1>5 DEF Has, News
-----------------------------------------------------------------------------
(* The receiver takes a message of client c.                               *)
Takes(c) ==
    /\ up /\ inbox # <<>> /\ Head(inbox).from = c /\ inbox' = Tail(inbox)
    /\ alive'[c] = alive[c] /\ impl'[c] = impl[c] /\ task'[c] = task[c] /\ app'[c] = app[c]
    /\ wish'[c] = wish[c] /\ listened'[c] = listened[c]
    /\ UNCHANGED <<up, suspended, maint>>

(* The kinds of message on their way, with one taken.                      *)
LEMMA TakesFacts ==
    ASSUME TypeOK, NEW c \in Clients, Takes(c)
    PROVE  /\ inbox \in Seq(Client!InboxMsg) /\ inbox # <<>> /\ Head(inbox) \in Client!InboxMsg
           /\ Has(inbox', Reg(c)) => Has(inbox, Reg(c))
           /\ Has(inbox', Bye(c)) => Has(inbox, Bye(c))
           /\ Has(inbox', Work(c)) => Has(inbox, Work(c))
           /\ Has(inbox', Errands(c)) => Has(inbox, Errands(c))
           /\ Head(inbox) \in Reg(c) => Has(inbox, Reg(c))
           /\ Head(inbox) \in Bye(c) => Has(inbox, Bye(c))
           /\ Head(inbox) \in Work(c) => Has(inbox, Work(c))
           /\ Head(inbox) \in Errands(c) => Has(inbox, Errands(c))
           /\ Head(inbox) \notin Reg(c) => (Has(inbox', Reg(c)) <=> Has(inbox, Reg(c)))
           /\ InOrder(inbox, Reg(c), Work(c)) => InOrder(inbox', Reg(c), Work(c))
           /\ InOrder(inbox, Work(c), Reg(c)) => InOrder(inbox', Work(c), Reg(c))
           /\ InOrder(inbox, Reg(c), Work(c)) /\ Head(inbox) \in Work(c) => ~Has(inbox, Reg(c))
           /\ InOrder(inbox, Work(c), Reg(c)) /\ Head(inbox) \in Reg(c) => ~Has(inbox, Work(c))
           /\ ~Has(inbox', Reg(c)) => InOrder(inbox', Work(c), Reg(c))
<1>1. inbox \in Seq(Client!InboxMsg) /\ inbox # <<>> /\ Head(inbox) \in Client!InboxMsg
      /\ inbox' = Tail(inbox)
  BY DEF TypeOK, Takes
<1>2. ~Has(inbox', Reg(c)) => InOrder(inbox', Work(c), Reg(c))
  BY DEF Has, InOrder
<1> QED
  BY <1>1, <1>2, TailHas

(* A message of a client the daemon does not know changes nothing.         *)
LEMMA TakesIgnored ==
    ASSUME TypeOK, NEW c \in Clients, Linked(c), Takes(c), ~Registered(c), handler'[c] = handler[c],
           Head(inbox).op # "register"
    PROVE  /\ Linked(c)' /\ Paced(c)'
           /\ Wanted(c) => Wanted(c)'
<1> USE DEF Takes
<1>1. /\ Head(inbox) \in Client!InboxMsg /\ Head(inbox) \notin Reg(c)
      /\ Head(inbox) \in Work(c) \/ Head(inbox) \in Bye(c)
  <2>1. Head(inbox) \in Client!InboxMsg
    BY TakesFacts
  <2>2. Head(inbox).op \in {"register", "deregister", "stop", "callbacks", "start", "update"}
    BY <2>1 DEF Client!InboxMsg
  <2> QED
    BY <2>1, <2>2, OwnKinds
<1>2. Orders(c)'
  <2>1. CASE Ignored(c)
    BY <2>1, TakesFacts DEF Orders, Ignored, Registered
  <2>2. CASE Regular(c) /\ Head(inbox) \in Work(c)
    <3>1. InOrder(inbox', Work(c), Reg(c))
      BY <1>1, <2>2, TakesFacts DEF Regular
    <3> QED
      BY <3>1 DEF Orders, Ignored, Registered
  <2>3. CASE Regular(c) /\ Head(inbox) \in Bye(c) /\ ~Ignored(c)
    <3>1. ~alive[c]
      BY <2>3 DEF Linked, Orders
    <3>2. Head(inbox) \notin Flips(c) /\ Head(inbox).op = "deregister" /\ Tracked(c) = FALSE
          /\ Tracked(c)' = FALSE
      BY <1>1, <2>3, OwnKinds DEF Tracked, Registered
    <3>3. Starts(c) \in SUBSET Flips(c)
      BY InboxKinds
    <3>4. Alternates(inbox', Flips(c), Starts(c), Needs(c), Tracked(c))
      <4>1. Alternates(inbox, Flips(c), Starts(c), Needs(c), Tracked(c)) /\ Tracked(c) \in BOOLEAN
        BY <2>3, <3>2 DEF Regular
      <4>2. inbox \in Seq(Client!InboxMsg) /\ inbox # <<>> /\ inbox' = Tail(inbox)
        BY DEF TypeOK
      <4> QED
        BY <3>2, <3>3, <4>1, <4>2, AlternatesTail
    <3> QED
      BY <2>3, <3>1, <3>2, <3>4, TakesFacts DEF Orders, Regular
  <2> QED
    BY <1>1, <2>1, <2>2, <2>3 DEF Linked, Orders
<1>3. Enlisted(c)'
  BY <1>1, TakesFacts DEF Linked, Enlisted, Registered
<1>4. Queued(c)' /\ Undisturbed(c)' /\ Served(c)' /\ Listens(c)' /\ Agreed(c)' /\ Paced(c)'
  BY DEF Linked, Queued, Undisturbed, Served, Listens, Agreed, Paced, Registered
<1>5. Calm(c)'
  BY TakesFacts DEF Linked, Calm, Registered
<1>6. ASSUME Wanted(c) PROVE Wanted(c)'
  BY <1>6 DEF Wanted, Current
<1> QED
  BY <1>2, <1>3, <1>4, <1>5, <1>6 DEF Linked

(* What a request finds: no session to start, a running one to change.     *)
LEMMA Finds ==
    ASSUME TypeOK, NEW c \in Clients, Linked(c), Takes(c), Registered(c)
    PROVE  /\ handler[c] \in HandlerType
           /\ Head(inbox).op = "start" => ~handler[c].session
           /\ Head(inbox).op \in {"stop", "update"} => handler[c].session /\ handler[c].tracking
           /\ Head(inbox).op \in {"start", "stop", "update"} => ~suspended
           /\ Matched(handler[c])
           /\ handler[c].session <=> (handler[c].tracking /\ ~suspended)
<1>1. inbox \in Seq(Client!InboxMsg) /\ inbox # <<>> /\ Head(inbox) \in Client!InboxMsg
      /\ Head(inbox).from = c
  BY TakesFacts DEF Takes
<1>2. handler[c] \in HandlerType /\ Tracked(c) = handler[c].tracking /\ Tracked(c) \in BOOLEAN
  BY DEF TypeOK, HandlerType, Registered, Tracked
<1>3. Alternates(inbox, Flips(c), Starts(c), Needs(c), Tracked(c))
  BY DEF Linked, Orders, Ignored, Regular
<1>4. (Head(inbox) \in Starts(c) => ~Tracked(c)) /\ (Head(inbox) \in Needs(c) => Tracked(c))
  <2>1. Starts(c) \in SUBSET Flips(c)
    BY InboxKinds
  <2>2. CASE Head(inbox) \in Flips(c)
    <3> DEFINE then == Head(inbox) \in Starts(c)
    <3>1. then \in BOOLEAN /\ (then <=> Head(inbox) \in Starts(c))
      OBVIOUS
    <3> HIDE DEF then
    <3> QED
      BY <1>1, <1>2, <1>3, <2>1, <2>2, <3>1, AlternatesTail
  <2>3. CASE Head(inbox) \notin Flips(c)
    BY <1>1, <1>2, <1>3, <2>1, <2>3, AlternatesTail
  <2> QED
    BY <2>2, <2>3
<1>5. Head(inbox).op \in {"start", "stop", "update"} => ~suspended
  BY <1>1, OwnKinds, TakesFacts DEF Linked, Calm
<1>6. Matched(handler[c]) /\ (handler[c].session <=> (handler[c].tracking /\ ~suspended))
  BY DEF Linked, Served
<1> QED
  BY <1>1, <1>2, <1>4, <1>5, <1>6, OwnKinds

(* A request the handler serves.                                           *)
LEMMA TakesWork ==
    ASSUME TypeOK, NEW c \in Clients, Linked(c), Takes(c), Registered(c), NEW g \in HandlerType,
           handler'[c] = g, Head(inbox).op \in {"start", "stop", "update", "callbacks"},
           g.caps = handler[c].caps, Has(g.answers, News) <=> Has(handler[c].answers, News),
           g.tracking = IF Head(inbox).op \in {"start", "stop"} THEN Head(inbox).op = "start"
                        ELSE handler[c].tracking,
           g.mask = IF Head(inbox).op \in {"stop", "callbacks"} THEN MaskOf(Head(inbox))
                    ELSE handler[c].mask,
           g.session <=> (g.tracking /\ ~suspended), Matched(g)
    PROVE  /\ Linked(c)'
           /\ Wanted(c) => Wanted(c)'
           /\ /\ Paced(c) /\ g.engine = g.interval
              /\ g.interval = IF Head(inbox).op \in {"start", "update"} THEN Head(inbox).interval
                              ELSE handler[c].interval
              => Paced(c)'
<1> DEFINE m == Head(inbox)
           h == handler[c]
<1>1. inbox \in Seq(Client!InboxMsg) /\ inbox # <<>> /\ m \in Client!InboxMsg /\ m.from = c
      /\ inbox' = Tail(inbox)
  BY TakesFacts DEF Takes
<1>2. /\ m \in Work(c) /\ m \notin Reg(c) /\ m \notin Bye(c)
      /\ m \in Starts(c) <=> m.op = "start"
      /\ m \in Flips(c) <=> m.op \in {"start", "stop"}
      /\ m \in Sets(c) <=> m.op \in {"start", "update"}
      /\ m \in Shapes(c) <=> m.op \in {"stop", "callbacks"}
      /\ \A i : m \in SetsTo(c, i) <=> m \in Sets(c) /\ m.interval = i
      /\ \A x : m \in ShapesTo(c, x) <=> m \in Shapes(c) /\ MaskOf(m) = x
  BY <1>1, OwnKinds
<1>3. /\ Registered(c)' /\ h \in HandlerType
      /\ h.tracking \in BOOLEAN /\ g.tracking \in BOOLEAN
  BY HandlerAssumption DEF Registered, TypeOK, HandlerType
<1>4. Regular(c) /\ ~Has(inbox, Reg(c)) /\ ~Has(inbox', Reg(c))
  <2>1. Regular(c)
    BY DEF Linked, Orders, Ignored
  <2> QED
    BY <1>2, <2>1, TakesFacts DEF Regular
<1>5. alive[c] => impl[c].reg
  BY <1>2, TakesFacts DEF Linked, Enlisted
<1>6. Orders(c)'
  <2>1. Tracked(c) = h.tracking /\ Tracked(c)' = g.tracking
    BY <1>3 DEF Tracked, Registered
  <2>2. Starts(c) \in SUBSET Flips(c)
    BY InboxKinds
  <2>3. Alternates(inbox, Flips(c), Starts(c), Needs(c), h.tracking)
    BY <1>4, <2>1 DEF Regular
  <2>4. Alternates(inbox', Flips(c), Starts(c), Needs(c), g.tracking)
    BY <1>1, <1>2, <1>3, <2>2, <2>3, AlternatesTail
  <2>5. InOrder(inbox', Reg(c), Work(c))
    BY <1>4, TakesFacts DEF Regular
  <2> QED
    BY <1>3, <1>4, <2>1, <2>4, <2>5 DEF Orders, Regular
<1>7. Enlisted(c)'
  BY <1>3, <1>4, <1>5, TakesFacts DEF Linked, Enlisted, Takes
<1>8. Undisturbed(c)'
  BY <1>3 DEF Linked, Undisturbed, Takes
<1>9. Served(c)'
  BY <1>3 DEF Served, Takes
<1>10. Queued(c)' /\ Listens(c)'
  BY DEF Linked, Queued, Listens, Takes
<1>11. Calm(c)'
  BY <1>3, TakesFacts DEF Linked, Calm, Takes
<1>12. Agreed(c)'
  <2> SUFFICES ASSUME alive[c] PROVE Agreed(c)'
    BY DEF Agreed, Takes
  <2>1. /\ Finally(inbox, Flips(c), Starts(c), h.tracking) <=> Asks(c)
        /\ impl[c].reg /\ ~listened[c] =>
             Finally(inbox, Shapes(c), ShapesTo(c, impl[c].mask), h.mask = impl[c].mask)
    BY DEF Linked, Agreed
  <2>2. Finally(inbox', Flips(c), Starts(c), g.tracking)
        <=> Finally(inbox, Flips(c), Starts(c), h.tracking)
    <3>1. Starts(c) \in SUBSET Flips(c)
      BY InboxKinds
    <3> QED
      BY <1>1, <1>2, <1>3, <3>1, FinallyTail
  <2> DEFINE now == h.mask = impl[c].mask
             then == g.mask = impl[c].mask
  <2>3. Finally(inbox', Shapes(c), ShapesTo(c, impl[c].mask), then)
          <=> Finally(inbox, Shapes(c), ShapesTo(c, impl[c].mask), now)
    <3>1. ShapesTo(c, impl[c].mask) \in SUBSET Shapes(c)
      BY InboxKinds
    <3>2. /\ m \in Shapes(c) => (then <=> m \in ShapesTo(c, impl[c].mask))
          /\ m \notin Shapes(c) => (then <=> now)
      BY <1>2
    <3>3. now \in BOOLEAN /\ then \in BOOLEAN
      OBVIOUS
    <3> HIDE DEF now, then
    <3> QED
      BY <1>1, <3>1, <3>2, <3>3, FinallyTail
  <2> QED
    BY <2>1, <2>2, <2>3 DEF Agreed, Asks, Takes
<1>13. ASSUME Wanted(c) PROVE Wanted(c)'
  BY <1>13 DEF Wanted, Current, Takes
<1>14. ASSUME Paced(c), g.engine = g.interval,
              g.interval = IF m.op \in {"start", "update"} THEN m.interval ELSE h.interval
       PROVE  Paced(c)'
  <2> DEFINE now == h.interval = impl[c].interval
             then == g.interval = impl[c].interval
  <2>1. Finally(inbox', Sets(c), SetsTo(c, impl[c].interval), then)
          <=> Finally(inbox, Sets(c), SetsTo(c, impl[c].interval), now)
    <3>1. SetsTo(c, impl[c].interval) \in SUBSET Sets(c)
      BY InboxKinds
    <3>2. /\ m \in Sets(c) => (then <=> m \in SetsTo(c, impl[c].interval))
          /\ m \notin Sets(c) => (then <=> now)
      BY <1>2, <1>14
    <3>3. now \in BOOLEAN /\ then \in BOOLEAN
      OBVIOUS
    <3> HIDE DEF now, then
    <3> QED
      BY <1>1, <3>1, <3>2, <3>3, FinallyTail
  <2> QED
    BY <1>14, <2>1 DEF Paced, Asks, Takes
<1> QED
  BY <1>6, <1>7, <1>8, <1>9, <1>10, <1>11, <1>12, <1>13, <1>14 DEF Linked

(* A registered client that is gone loses its handler.                     *)
LEMMA Removed ==
    ASSUME TypeOK, NEW c \in Clients, Linked(c), Registered(c), ~alive[c], handler'[c] = NoHandler,
           alive'[c] = alive[c], impl'[c] = impl[c], task'[c] = task[c], app'[c] = app[c],
           listened'[c] = listened[c], UNCHANGED <<up, suspended>>,
           \/ inbox' = inbox
           \/ inbox # <<>> /\ Head(inbox) \in Bye(c) /\ inbox' = Tail(inbox)
    PROVE  Linked(c)' /\ Paced(c)' /\ Wanted(c)'
<1>1. ~Registered(c)'
  BY DEF Registered
<1>2. inbox \in Seq(Client!InboxMsg) /\ up
  BY DEF TypeOK, Linked, Enlisted
<1>3. /\ Has(inbox', Reg(c)) => Has(inbox, Reg(c))
      /\ Has(inbox', Errands(c)) => Has(inbox, Errands(c))
      /\ InOrder(inbox, Reg(c), Work(c)) => InOrder(inbox', Reg(c), Work(c))
      /\ Alternates(inbox, Flips(c), Starts(c), Needs(c), FALSE)
           => Alternates(inbox', Flips(c), Starts(c), Needs(c), FALSE)
  <2>1. CASE inbox' = inbox
    BY <2>1
  <2>2. CASE inbox # <<>> /\ Head(inbox) \in Bye(c) /\ inbox' = Tail(inbox)
    <3>1. Head(inbox) \notin Flips(c) /\ Starts(c) \in SUBSET Flips(c)
      BY <2>2, InboxKinds DEF Bye, Flips, From
    <3> QED
      BY <1>2, <2>2, <3>1, TailHas, AlternatesTail
  <2> QED
    BY <2>1, <2>2
<1>4. Orders(c)'
  <2>1. Regular(c)
    BY DEF Linked, Orders, Ignored
  <2>2. CASE Has(inbox, Reg(c))
    <3>1. Tracked(c) = FALSE /\ Tracked(c)' = FALSE
      BY <1>1, <2>1, <2>2 DEF Tracked, Regular
    <3> QED
      BY <1>1, <1>3, <2>1, <3>1 DEF Orders, Regular
  <2>3. CASE ~Has(inbox, Reg(c))
    <3>1. ~Has(inbox', Reg(c))
      BY <1>3, <2>3
    <3>2. InOrder(inbox', Work(c), Reg(c))
      BY <3>1 DEF InOrder, Has
    <3> QED
      BY <1>1, <3>2 DEF Orders, Ignored
  <2> QED
    BY <2>2, <2>3
<1>5. Enlisted(c)'
  BY <1>1, <1>2, <1>3 DEF Linked, Enlisted
<1>6. Queued(c)' /\ Listens(c)'
  BY DEF Linked, Queued, Listens
<1>7. Calm(c)'
  BY <1>3 DEF Linked, Calm
<1> QED
  BY <1>1, <1>4, <1>5, <1>6, <1>7 DEF Linked, Undisturbed, Served, Agreed, Paced, Wanted

(* A client that is registered already is refused: nothing changes.        *)
LEMMA TakesRefused ==
    ASSUME TypeOK, NEW c \in Clients, Linked(c), Takes(c), Registered(c), handler'[c] = handler[c],
           Head(inbox).op = "register"
    PROVE  /\ Linked(c)'
           /\ Paced(c) => Paced(c)'
           /\ Wanted(c) => Wanted(c)'
<1>1. /\ inbox \in Seq(Client!InboxMsg) /\ inbox # <<>> /\ Head(inbox) \in Client!InboxMsg
      /\ Head(inbox).from = c /\ inbox' = Tail(inbox)
  BY TakesFacts DEF Takes
<1>2. Head(inbox) \notin Flips(c) /\ Head(inbox) \notin Sets(c) /\ Head(inbox) \notin Shapes(c)
  BY <1>1, OwnKinds
<1>3. Registered(c)' /\ handler[c].tracking \in BOOLEAN /\ Tracked(c) \in BOOLEAN
      /\ Tracked(c)' = Tracked(c)
  BY DEF Registered, Tracked, TypeOK, HandlerType
<1>4. Starts(c) \in SUBSET Flips(c)
  BY InboxKinds
<1>5. Orders(c)'
  <2>1. Regular(c)
    BY DEF Linked, Orders, Ignored
  <2>2. Alternates(inbox', Flips(c), Starts(c), Needs(c), Tracked(c))
    BY <1>1, <1>2, <1>3, <1>4, <2>1, AlternatesTail DEF Regular
  <2> QED
    BY <1>3, <2>1, <2>2, TakesFacts DEF Orders, Regular
<1>6. Enlisted(c)'
  BY <1>3, TakesFacts DEF Linked, Enlisted, Takes
<1>7. Queued(c)' /\ Undisturbed(c)' /\ Served(c)' /\ Listens(c)'
  BY <1>3 DEF Linked, Queued, Undisturbed, Served, Listens, Takes
<1>8. Calm(c)'
  BY <1>3, TakesFacts DEF Linked, Calm, Takes
<1>9. \A now \in BOOLEAN :
        /\ Finally(inbox', Flips(c), Starts(c), now) <=> Finally(inbox, Flips(c), Starts(c), now)
        /\ \A x : Finally(inbox', Shapes(c), ShapesTo(c, x), now)
           <=> Finally(inbox, Shapes(c), ShapesTo(c, x), now)
        /\ \A i : Finally(inbox', Sets(c), SetsTo(c, i), now)
           <=> Finally(inbox, Sets(c), SetsTo(c, i), now)
  <2> TAKE now \in BOOLEAN
  <2>1. Finally(inbox', Flips(c), Starts(c), now) <=> Finally(inbox, Flips(c), Starts(c), now)
    BY <1>1, <1>2, <1>4, FinallyTail
  <2>2. ASSUME NEW x PROVE Finally(inbox', Shapes(c), ShapesTo(c, x), now)
               <=> Finally(inbox, Shapes(c), ShapesTo(c, x), now)
    <3>1. ShapesTo(c, x) \in SUBSET Shapes(c)
      BY InboxKinds
    <3> QED
      BY <1>1, <1>2, <3>1, FinallyTail
  <2>3. ASSUME NEW i PROVE Finally(inbox', Sets(c), SetsTo(c, i), now)
               <=> Finally(inbox, Sets(c), SetsTo(c, i), now)
    <3>1. SetsTo(c, i) \in SUBSET Sets(c)
      BY InboxKinds
    <3> QED
      BY <1>1, <1>2, <3>1, FinallyTail
  <2> QED
    BY <2>1, <2>2, <2>3
<1>10. Agreed(c)'
  BY <1>3, <1>9 DEF Linked, Agreed, Asks, Takes
<1>11. ASSUME Paced(c) PROVE Paced(c)'
  BY <1>3, <1>9, <1>11 DEF Paced, Asks, Takes
<1>12. ASSUME Wanted(c) PROVE Wanted(c)'
  BY <1>12 DEF Wanted, Current, Takes
<1> QED
  BY <1>5, <1>6, <1>7, <1>8, <1>10, <1>11, <1>12 DEF Linked

(* A client that is not gets a new handler.  What it sent before, if it is *)
(* alive, was ignored already: no request is on its way.                   *)
LEMMA TakesNew ==
    ASSUME TypeOK, NEW c \in Clients, Linked(c), Takes(c), ~Registered(c),
           handler'[c] = Daemon!NewHandler, Head(inbox).op = "register"
    PROVE  /\ Linked(c)' /\ Paced(c)'
           /\ Wanted(c) => Wanted(c)'
<1> DEFINE g == Daemon!NewHandler
<1>1. /\ inbox \in Seq(Client!InboxMsg) /\ inbox # <<>> /\ Head(inbox) \in Client!InboxMsg
      /\ Head(inbox).from = c /\ inbox' = Tail(inbox)
  BY TakesFacts DEF Takes
<1>2. /\ Head(inbox) \in Reg(c) /\ Head(inbox) \in Errands(c) /\ Head(inbox) \notin Flips(c)
      /\ Has(inbox, Reg(c)) /\ Has(inbox, Errands(c))
  <2>1. Head(inbox) \in Reg(c) /\ Head(inbox) \in Errands(c) /\ Head(inbox) \notin Flips(c)
    BY <1>1, OwnKinds
  <2> QED
    BY <2>1, TakesFacts
<1>3. /\ g \in HandlerType /\ g.tracking = FALSE /\ g.session = FALSE /\ g.mask = {} /\ g.caps = 0
      /\ g.engine = g.interval /\ g.pending = <<>> /\ Len(g.answers) = 1 /\ g.answers[1].op = "caps"
  <2>1. g \in HandlerType
    BY NewHandlerType DEF TypeOK
  <2> QED
    BY <2>1 DEF Daemon!NewHandler
<1>4. Matched(g) /\ Has(g.answers, News)
  <2> HIDE DEF g
  <2> QED
    BY <1>3, MatchedFresh
<1>5. handler'[c] = g /\ Registered(c)' /\ Tracked(c) = FALSE /\ Tracked(c)' = FALSE
  BY <1>3, HandlerAssumption DEF Registered, Tracked
<1> HIDE DEF g
<1>6. ~suspended /\ ~Has(task[c], Ready) /\ ~Has(task[c], Caps)
  <2>1. ~suspended /\ ~Has(task[c], Ready)
    BY <1>2 DEF Linked, Calm, Enlisted
  <2>2. CASE alive[c]
    BY <2>1, <2>2 DEF Linked, Enlisted, Takes
  <2>3. CASE ~alive[c]
    BY <2>1, <2>3, EmptyHas DEF Linked, Queued
  <2> QED
    BY <2>1, <2>2, <2>3
<1>7. alive[c] => ~impl[c].reg /\ ~Has(inbox, Work(c)) /\ ~Has(inbox', Work(c))
  <2> SUFFICES ASSUME alive[c] PROVE ~impl[c].reg /\ ~Has(inbox, Work(c)) /\ ~Has(inbox', Work(c))
    OBVIOUS
  <2>1. ~impl[c].reg
    BY <1>6 DEF Linked, Enlisted, Takes
  <2>2. InOrder(inbox, Work(c), Reg(c))
    BY DEF Linked, Orders, Ignored
  <2> QED
    BY <1>2, <2>1, <2>2, TakesFacts
<1>8. Starts(c) \in SUBSET Flips(c) /\ Starts(c) \subseteq Work(c) /\ Needs(c) \subseteq Work(c)
  BY InboxKinds DEF Starts, Work, Needs, From
<1>9. Orders(c)'
  <2>1. CASE ~Has(inbox', Work(c))
    <3>1. InOrder(inbox', Reg(c), Work(c)) /\ ~Has(inbox', Starts(c)) /\ ~Has(inbox', Needs(c))
      BY <1>8, <2>1 DEF InOrder, Has
    <3>2. Alternates(inbox', Flips(c), Starts(c), Needs(c), Tracked(c)')
      BY <3>1, AlternatesNone
    <3> QED
      BY <1>5, <3>1, <3>2 DEF Orders, Regular
  <2>2. CASE Regular(c)
    <3>1. Alternates(inbox, Flips(c), Starts(c), Needs(c), Tracked(c)) /\ Tracked(c) \in BOOLEAN
      BY <1>5, <2>2 DEF Regular
    <3>2. Alternates(inbox', Flips(c), Starts(c), Needs(c), Tracked(c))
      BY <1>1, <1>2, <1>8, <3>1, AlternatesTail
    <3>3. InOrder(inbox', Reg(c), Work(c))
      BY <2>2, TakesFacts DEF Regular
    <3> QED
      BY <1>5, <3>2, <3>3 DEF Orders, Regular
  <2>3. Ignored(c) => ~Has(inbox', Work(c))
    BY <1>2, TakesFacts DEF Ignored
  <2> QED
    BY <2>1, <2>2, <2>3 DEF Linked, Orders
<1>10. Enlisted(c)'
  BY <1>3, <1>4, <1>5, <1>6, <1>7, TakesFacts DEF Linked, Enlisted, Takes
<1>11. Undisturbed(c)' /\ Queued(c)' /\ Listens(c)'
  BY <1>7 DEF Linked, Undisturbed, Queued, Listens, Takes
<1>12. Served(c)'
  BY <1>3, <1>4, <1>5 DEF Served
<1>13. Calm(c)'
  BY <1>6 DEF Calm, Takes
<1>14. Agreed(c)'
  <2> SUFFICES ASSUME alive[c] PROVE Agreed(c)'
    BY DEF Agreed, Takes
  <2>1. ~Has(inbox', Starts(c)) /\ ~impl'[c].reg
    BY <1>7, <1>8 DEF Has, Takes
  <2>2. ~Finally(inbox', Flips(c), Starts(c), FALSE)
    BY <2>1, FinallyImplies
  <2>3. handler'[c].tracking = FALSE
    BY <1>3, <1>5
  <2>4. ~Finally(inbox', Flips(c), Starts(c), handler'[c].tracking)
    BY <2>2, <2>3
  <2> QED
    BY <2>1, <2>4 DEF Agreed, Asks
<1>15. Paced(c)'
  BY <1>3, <1>5, <1>7 DEF Paced, Asks, Takes
<1>16. ASSUME Wanted(c) PROVE Wanted(c)'
  BY <1>16 DEF Wanted, Current, Takes
<1> QED
  BY <1>9, <1>10, <1>11, <1>12, <1>13, <1>14, <1>15, <1>16 DEF Linked

(* What the operations make of a handler that they reach the location API  *)
(* with.                                                                   *)
LEMMA Asking ==
    ASSUME NEW h \in HandlerType, NEW g \in HandlerType, NEW op \in Operations, Matched(h),
           g.answers = Append(h.answers, [op |-> "answer"]), g.pending = Append(h.pending, op)
    PROVE  Matched(g) /\ (Has(g.answers, News) <=> Has(h.answers, News))
<1>1. Matched(g)
  BY MatchedPush
<1>2. /\ [op |-> "answer"] \in AnswerMsg /\ [op |-> "answer"] \notin News
      /\ h.answers \in Seq(AnswerMsg)
  BY DEF AnswerMsg, News, HandlerType
<1> QED
  BY <1>1, <1>2, AppendHas

(* To be in step is a matter of the answers and the message ids.           *)
LEMMA MatchedSame ==
    ASSUME NEW h, NEW g, g.answers = h.answers, g.pending = h.pending, Matched(h)
    PROVE  Matched(g)
<1>1. First(g) = First(h)
  BY DEF First
<1> QED
  BY <1>1 DEF Matched

(* startTracking of a session that is not running.                         *)
LEMMA Starting ==
    ASSUME NEW h \in HandlerType, NEW i \in Nat, ~h.session, Matched(h), NEW g,
           g = Daemon!Push([Daemon!HandlerStart(h, i) EXCEPT !.tracking = TRUE], "start")
    PROVE  /\ g \in HandlerType /\ g.tracking = TRUE /\ g.session = TRUE /\ g.mask = h.mask
              /\ g.caps = h.caps
           /\ g.interval = Daemon!GetSupportedTbf(i) /\ g.engine = g.interval
           /\ Matched(g) /\ (Has(g.answers, News) <=> Has(h.answers, News))
<1> DEFINE f == Daemon!HandlerStart(h, i)
           k == [f EXCEPT !.tracking = TRUE]
<1>1. f \in HandlerType
  BY HandlerOps
<1>2. k \in HandlerType
  BY <1>1 DEF HandlerType
<1>3. g \in HandlerType
  BY <1>2, PushType DEF Operations
<1>4. f = [h EXCEPT !.session = TRUE, !.interval = Daemon!GetSupportedTbf(i),
                    !.engine = Daemon!GetSupportedTbf(i),
                    !.answers = Append(h.answers, [op |-> "answer"])]
  BY DEF Daemon!HandlerStart, Daemon!Asked, HandlerType
<1>5. /\ f.session = TRUE /\ f.interval = Daemon!GetSupportedTbf(i)
         /\ f.engine = Daemon!GetSupportedTbf(i)
      /\ f.answers = Append(h.answers, [op |-> "answer"]) /\ f.pending = h.pending
         /\ f.mask = h.mask /\ f.caps = h.caps
  BY <1>4 DEF HandlerType
<1> HIDE DEF f
<1>6. /\ k.tracking = TRUE /\ k.session = f.session /\ k.interval = f.interval
         /\ k.engine = f.engine
      /\ k.answers = f.answers /\ k.pending = f.pending /\ k.mask = f.mask /\ k.caps = f.caps
  BY <1>1 DEF HandlerType
<1>7. g = Daemon!Push(k, "start")
  BY DEF f
<1> HIDE DEF k
<1>8. /\ g.tracking = k.tracking /\ g.session = k.session /\ g.interval = k.interval
         /\ g.engine = k.engine
      /\ g.answers = k.answers /\ g.pending = Append(k.pending, "start") /\ g.mask = k.mask
         /\ g.caps = k.caps
  BY <1>2, <1>7 DEF HandlerType, Daemon!Push
<1>9. "start" \in Operations
  BY DEF Operations
<1>10. g.answers = Append(h.answers, [op |-> "answer"]) /\ g.pending = Append(h.pending, "start")
  BY <1>5, <1>6, <1>8
<1>11. Matched(g) /\ (Has(g.answers, News) <=> Has(h.answers, News))
  BY <1>3, <1>9, <1>10, Asking
<1> QED
  BY <1>3, <1>5, <1>6, <1>8, <1>11

(* startTracking with the preserved options.                               *)
LEMMA Restarting ==
    ASSUME NEW h \in HandlerType, ~h.session, Matched(h), NEW g,
           g = Daemon!Push(Daemon!HandlerRestart(h), "start")
    PROVE  /\ g \in HandlerType /\ g.tracking = h.tracking /\ g.session = TRUE
              /\ g.mask = h.mask /\ g.caps = h.caps
           /\ g.interval = h.interval /\ g.engine = h.interval
           /\ Matched(g) /\ (Has(g.answers, News) <=> Has(h.answers, News))
<1> DEFINE f == Daemon!HandlerRestart(h)
<1>1. f \in HandlerType
  <2>1. 0 \in Nat
    OBVIOUS
  <2> QED
    BY <2>1, HandlerOps
<1>2. g \in HandlerType
  BY <1>1, PushType DEF Operations
<1>3. f = [h EXCEPT !.session = TRUE, !.engine = h.interval,
                    !.answers = Append(h.answers, [op |-> "answer"])]
  BY DEF Daemon!HandlerRestart, Daemon!Asked, HandlerType
<1>4. /\ f.session = TRUE /\ f.interval = h.interval /\ f.engine = h.interval
         /\ f.tracking = h.tracking
      /\ f.answers = Append(h.answers, [op |-> "answer"]) /\ f.pending = h.pending
         /\ f.mask = h.mask /\ f.caps = h.caps
  BY <1>3 DEF HandlerType
<1> HIDE DEF f
<1>5. g = Daemon!Push(f, "start")
  BY DEF f
<1>6. /\ g.tracking = f.tracking /\ g.session = f.session /\ g.interval = f.interval
         /\ g.engine = f.engine
      /\ g.answers = f.answers /\ g.pending = Append(f.pending, "start") /\ g.mask = f.mask
         /\ g.caps = f.caps
  BY <1>1, <1>5 DEF HandlerType, Daemon!Push
<1>7. "start" \in Operations
  BY DEF Operations
<1>8. g.answers = Append(h.answers, [op |-> "answer"]) /\ g.pending = Append(h.pending, "start")
  BY <1>4, <1>6
<1>9. Matched(g) /\ (Has(g.answers, News) <=> Has(h.answers, News))
  BY <1>2, <1>7, <1>8, Asking
<1> QED
  BY <1>2, <1>4, <1>6, <1>9

(* stopTracking of a running session.                                      *)
LEMMA Stopping ==
    ASSUME NEW h \in HandlerType, h.session, Matched(h), NEW g,
        g = Daemon!Push(Daemon!HandlerStop(h), "stop")
    PROVE  /\ g \in HandlerType /\ g.tracking = h.tracking /\ g.session = FALSE
              /\ g.mask = h.mask /\ g.caps = h.caps
           /\ g.interval = h.interval /\ g.engine = h.engine
           /\ Matched(g) /\ (Has(g.answers, News) <=> Has(h.answers, News))
<1> DEFINE f == Daemon!HandlerStop(h)
<1>1. f \in HandlerType
  <2>1. 0 \in Nat
    OBVIOUS
  <2> QED
    BY <2>1, HandlerOps
<1>2. g \in HandlerType
  BY <1>1, PushType DEF Operations
<1>3. f = [h EXCEPT !.session = FALSE, !.answers = Append(h.answers, [op |-> "answer"])]
  BY DEF Daemon!HandlerStop, Daemon!Asked, HandlerType
<1>4. /\ f.session = FALSE /\ f.interval = h.interval /\ f.engine = h.engine
         /\ f.tracking = h.tracking
      /\ f.answers = Append(h.answers, [op |-> "answer"]) /\ f.pending = h.pending
         /\ f.mask = h.mask /\ f.caps = h.caps
  BY <1>3 DEF HandlerType
<1> HIDE DEF f
<1>5. g = Daemon!Push(f, "stop")
  BY DEF f
<1>6. /\ g.tracking = f.tracking /\ g.session = f.session /\ g.interval = f.interval
         /\ g.engine = f.engine
      /\ g.answers = f.answers /\ g.pending = Append(f.pending, "stop") /\ g.mask = f.mask
         /\ g.caps = f.caps
  BY <1>1, <1>5 DEF HandlerType, Daemon!Push
<1>7. "stop" \in Operations
  BY DEF Operations
<1>8. g.answers = Append(h.answers, [op |-> "answer"]) /\ g.pending = Append(h.pending, "stop")
  BY <1>4, <1>6
<1>9. Matched(g) /\ (Has(g.answers, News) <=> Has(h.answers, News))
  BY <1>2, <1>7, <1>8, Asking
<1> QED
  BY <1>2, <1>4, <1>6, <1>9

(* updateTrackingOptions of a running session.                             *)
LEMMA Updating ==
    ASSUME NEW h \in HandlerType, NEW m, m.interval \in Nat, h.session, Matched(h), NEW g,
           g = Daemon!Push(Daemon!HandlerUpdate(h, m.interval), "update")
    PROVE  /\ g \in HandlerType /\ g.tracking = h.tracking /\ g.session = TRUE
              /\ g.mask = h.mask /\ g.caps = h.caps
           /\ g.engine = Daemon!GetSupportedTbf(m.interval)
           /\ Matched(g)
<1> DEFINE f == Daemon!HandlerUpdate(h, m.interval)
<1>1. f \in HandlerType
  BY HandlerOps
<1>2. g \in HandlerType
  BY <1>1, PushType DEF Operations
<1>3. f = [h EXCEPT !.interval = m.interval, !.engine = Daemon!GetSupportedTbf(m.interval),
                    !.answers = Append(h.answers, [op |-> "answer"])]
  BY DEF Daemon!HandlerUpdate, Daemon!Asked, HandlerType
<1>4. /\ f.session = h.session /\ f.interval = m.interval
         /\ f.engine = Daemon!GetSupportedTbf(m.interval) /\ f.tracking = h.tracking
      /\ f.answers = Append(h.answers, [op |-> "answer"]) /\ f.pending = h.pending
         /\ f.mask = h.mask /\ f.caps = h.caps
  BY <1>3 DEF HandlerType
<1> HIDE DEF f
<1>5. g = Daemon!Push(f, "update")
  BY DEF f
<1>6. /\ g.tracking = f.tracking /\ g.session = f.session /\ g.interval = f.interval
         /\ g.engine = f.engine
      /\ g.answers = f.answers /\ g.pending = Append(f.pending, "update") /\ g.mask = f.mask
         /\ g.caps = f.caps
  BY <1>1, <1>5 DEF HandlerType, Daemon!Push
<1>7. "update" \in Operations
  BY DEF Operations
<1>8. g.answers = Append(h.answers, [op |-> "answer"]) /\ g.pending = Append(h.pending, "update")
  BY <1>4, <1>6
<1>9. Matched(g)
  BY <1>2, <1>7, <1>8, Asking
<1>10. h.session = TRUE
  BY DEF HandlerType
<1> QED
  BY <1>2, <1>4, <1>6, <1>9, <1>10

(* It keeps the interval as it came, and adds no news.                     *)
LEMMA UpdatingRest ==
    ASSUME NEW h \in HandlerType, NEW i, h.session
    PROVE  /\ Daemon!Push(Daemon!HandlerUpdate(h, i), "update").interval = i
           /\ Has(Daemon!Push(Daemon!HandlerUpdate(h, i), "update").answers, News)
              <=> Has(h.answers, News)
<1> DEFINE g == Daemon!Push(Daemon!HandlerUpdate(h, i), "update")
<1>1. g.interval = i /\ g.answers = Append(h.answers, [op |-> "answer"])
  BY DEF Daemon!Push, Daemon!HandlerUpdate, Daemon!Asked, HandlerType
<1>2. [op |-> "answer"] \in AnswerMsg /\ [op |-> "answer"] \notin News
      /\ h.answers \in Seq(AnswerMsg)
  BY DEF AnswerMsg, News, HandlerType
<1> HIDE DEF g
<1>3. Has(g.answers, News) <=> Has(h.answers, News)
  BY <1>1, <1>2, AppendHas
<1> QED
  BY <1>1, <1>3 DEF g

(* One step of the receiver takes one message and leaves the other clients *)
(* alone.                                                                  *)
LEMMA ReceiverTakes ==
    ASSUME TypeOK, OnlyCalls, Receiver
    PROVE  /\ Daemon!Sender \in Clients /\ Takes(Daemon!Sender)
           /\ \A d \in Clients : d # Daemon!Sender => Untouched(d)
<1>1. UNCHANGED clientOnly /\ Daemon!Receiver /\ maint.purging = {}
  BY DEF Receiver, MayPurge, OnlyCalls
<1>2. \E op : Daemon!Receives(op)
  BY <1>1 DEF Daemon!Receiver, Daemon!NewClient, Daemon!DeleteClient, Daemon!StartTracking,
     Daemon!StopTracking, Daemon!UpdateTrackingOptions, Daemon!UpdateSubscription, Daemon!Handles
<1>3. Daemon!Sender \in Clients
  BY <1>2, Taken
<1>4. /\ UNCHANGED <<up, task, alive, suspended, maint>>
      /\ \A d \in Clients : d # Daemon!Sender => handler'[d] = handler[d]
  BY <1>1, <1>3 DEF Daemon!Receiver, Daemon!NewClient, Daemon!DeleteClient, Daemon!StartTracking,
     Daemon!StopTracking, Daemon!UpdateTrackingOptions, Daemon!UpdateSubscription, Daemon!Handles,
     Daemon!Set, Daemon!DeleteClientbyName, TypeOK
<1> QED
  BY <1>1, <1>2, <1>3, <1>4 DEF Takes, Untouched, clientOnly, Daemon!Receives, Daemon!Sender

(* What it does to the client it hears of.                                 *)
Kept(c) ==
    /\ Linked(c)'
    /\ Supported /\ Paced(c) => Paced(c)'
    /\ Wanted(c) => Wanted(c)'

(* newClient.                                                              *)
LEMMA NewClientKept ==
    ASSUME TypeOK, OnlyCalls, Receiver, Daemon!NewClient, NEW c \in Clients, c = Daemon!Sender,
        Linked(c)
    PROVE  Kept(c)
<1>1. Takes(c)
  BY ReceiverTakes
<1>2. Head(inbox).op = "register"
  BY DEF Daemon!NewClient, Daemon!Receives
<1>3. IF Registered(c) THEN handler'[c] = handler[c] ELSE handler'[c] = Daemon!NewHandler
  BY <1>1 DEF Daemon!NewClient, Daemon!Registered, Registered, Daemon!Set, TypeOK
<1> QED
  BY <1>1, <1>2, <1>3, TakesRefused, TakesNew DEF Kept

(* deleteClient: a client that says so is gone.                            *)
LEMMA DeleteClientKept ==
    ASSUME TypeOK, OnlyCalls, Receiver, Daemon!DeleteClient, NEW c \in Clients,
        c = Daemon!Sender, Linked(c)
    PROVE  Kept(c)
<1>1. Takes(c)
  BY ReceiverTakes
<1>2. Head(inbox).op = "deregister"
  BY DEF Daemon!DeleteClient, Daemon!Receives
<1>3. IF Registered(c) THEN handler'[c] = NoHandler ELSE handler'[c] = handler[c]
  BY <1>1 DEF Daemon!DeleteClient, Daemon!DeleteClientbyName, Daemon!Registered, Registered,
    Daemon!Set, TypeOK
<1>4. Head(inbox) \in Bye(c) /\ ~alive[c]
  <2>1. Head(inbox) \in Client!InboxMsg /\ Head(inbox).from = c
    BY <1>1, TakesFacts DEF Takes
  <2>2. Head(inbox) \in Bye(c)
    BY <1>2, <2>1, OwnKinds
  <2>3. Has(inbox, Bye(c))
    BY <1>1, <2>2, TakesFacts
  <2> QED
    BY <1>1, <2>2, <2>3 DEF Linked, Enlisted
<1>5. CASE Registered(c)
  <2>1. Linked(c)' /\ Paced(c)' /\ Wanted(c)'
    BY <1>1, <1>3, <1>4, <1>5, Removed DEF Takes
  <2> QED
    BY <2>1 DEF Kept
<1>6. CASE ~Registered(c)
  <2>1. Linked(c)' /\ Paced(c)' /\ (Wanted(c) => Wanted(c)')
    BY <1>1, <1>2, <1>3, <1>6, TakesIgnored
  <2> QED
    BY <2>1 DEF Kept
<1> QED
  BY <1>5, <1>6

(* The four requests.                                                      *)
LEMMA HandlesKept ==
    ASSUME TypeOK, OnlyCalls, Receiver, NEW op \in {"start", "stop", "update", "callbacks"}, NEW g,
           Daemon!Handles(op, g), NEW c \in Clients, c = Daemon!Sender, Linked(c),
           Registered(c) =>
             LET h == handler[c]
                 m == Head(inbox)
             IN /\ g \in HandlerType
                /\ g.caps = h.caps /\ (Has(g.answers, News) <=> Has(h.answers, News))
                /\ g.tracking = IF op \in {"start", "stop"} THEN op = "start" ELSE h.tracking
                /\ g.mask = IF op \in {"stop", "callbacks"} THEN MaskOf(m) ELSE h.mask
                /\ g.session <=> (g.tracking /\ ~suspended)
                /\ Matched(g)
                /\ Supported /\ h.engine = h.interval =>
                     /\ g.engine = g.interval
                     /\ g.interval = IF op \in {"start", "update"} THEN m.interval ELSE h.interval
    PROVE  Kept(c)
<1>1. Takes(c)
  BY ReceiverTakes
<1>2. Head(inbox).op = op
  BY DEF Daemon!Handles, Daemon!Receives
<1>3. IF Registered(c) THEN handler'[c] = g ELSE handler'[c] = handler[c]
  BY <1>1 DEF Daemon!Handles, Daemon!Registered, Registered, Daemon!Set, TypeOK
<1>4. CASE Registered(c)
  <2>1. /\ g \in HandlerType
        /\ g.caps = handler[c].caps /\ (Has(g.answers, News) <=> Has(handler[c].answers, News))
        /\ g.tracking = IF op \in {"start", "stop"} THEN op = "start" ELSE handler[c].tracking
        /\ g.mask = IF op \in {"stop", "callbacks"} THEN MaskOf(Head(inbox)) ELSE handler[c].mask
        /\ g.session <=> (g.tracking /\ ~suspended)
        /\ Matched(g)
        /\ Supported /\ handler[c].engine = handler[c].interval =>
             /\ g.engine = g.interval
             /\ g.interval = IF op \in {"start", "update"} THEN Head(inbox).interval
                             ELSE handler[c].interval
    BY <1>4
  <2>2. /\ Linked(c)'
        /\ Wanted(c) => Wanted(c)'
        /\ /\ Paced(c) /\ g.engine = g.interval
           /\ g.interval = IF Head(inbox).op \in {"start", "update"} THEN Head(inbox).interval
                           ELSE handler[c].interval
           => Paced(c)'
    BY <1>1, <1>2, <1>3, <1>4, <2>1, TakesWork
  <2>3. Paced(c) => handler[c].engine = handler[c].interval
    BY <1>4 DEF Paced
  <2> QED
    BY <1>2, <2>1, <2>2, <2>3 DEF Kept
<1>5. CASE ~Registered(c)
  <2>1. Linked(c)' /\ Paced(c)' /\ (Wanted(c) => Wanted(c)')
    BY <1>1, <1>2, <1>3, <1>5, TakesIgnored
  <2> QED
    BY <2>1 DEF Kept
<1> QED
  BY <1>4, <1>5

(* The interval of a request is one an application asks for.               *)
LEMMA AskedInterval ==
    ASSUME NEW m \in Client!InboxMsg, m.op \in {"start", "update"}
    PROVE  m.interval \in Nat /\ (Supported => Daemon!GetSupportedTbf(m.interval) = m.interval)
<1>1. m.interval \in Intervals \ {0}
  BY DEF Client!InboxMsg
<1> QED
  BY <1>1, ClientDaemonAssumption DEF Supported

(* Whatever the message, what holds of its sender still does.              *)
LEMMA ReceiverKept ==
    ASSUME TypeOK, OnlyCalls, Receiver, NEW c \in Clients, c = Daemon!Sender, Linked(c)
    PROVE  Kept(c)
<1> DEFINE h == handler[c]
           m == Head(inbox)
<1>1. Takes(c) /\ m \in Client!InboxMsg
  BY ReceiverTakes, TakesFacts
<1>2. ASSUME Registered(c)
      PROVE  /\ h \in HandlerType /\ Matched(h)
             /\ m.op = "start" => ~h.session
             /\ m.op \in {"stop", "update"} => h.session /\ h.tracking
             /\ m.op \in {"start", "stop", "update"} => ~suspended
             /\ h.session <=> (h.tracking /\ ~suspended)
  <2> QED
    BY <1>1, <1>2, Finds
<1>3. ASSUME Daemon!StartTracking PROVE Kept(c)
  <2> DEFINE g == Daemon!Push([Daemon!HandlerStart(h, m.interval) EXCEPT !.tracking = TRUE], "start")
  <2>1. Daemon!Handles("start", g)
    BY <1>3 DEF Daemon!StartTracking
  <2>2. m.op = "start"
    BY <2>1 DEF Daemon!Handles, Daemon!Receives
  <2>3. m.interval \in Nat /\ (Supported => Daemon!GetSupportedTbf(m.interval) = m.interval)
    BY <1>1, <2>2, AskedInterval
  <2>4. ASSUME Registered(c)
        PROVE  /\ g \in HandlerType /\ g.tracking = TRUE /\ g.session = TRUE
               /\ g.mask = h.mask /\ g.caps = h.caps
               /\ g.interval = Daemon!GetSupportedTbf(m.interval) /\ g.engine = g.interval
               /\ Matched(g) /\ (Has(g.answers, News) <=> Has(h.answers, News)) /\ ~suspended
    <3>1. h \in HandlerType /\ Matched(h) /\ ~h.session /\ ~suspended
      BY <1>2, <2>2, <2>4
    <3> HIDE DEF h, m
    <3> QED
      BY <2>3, <3>1, Starting
  <2> HIDE DEF g
  <2> QED
    BY <2>1, <2>2, <2>3, <2>4, HandlesKept
<1>4. ASSUME Daemon!StopTracking PROVE Kept(c)
  <2> DEFINE k == [h EXCEPT !.tracking = FALSE, !.mask = {}]
             g == Daemon!Push(Daemon!HandlerStop(k), "stop")
  <2>1. Daemon!Handles("stop", g)
    BY <1>4 DEF Daemon!StopTracking
  <2>2. m.op = "stop"
    BY <2>1 DEF Daemon!Handles, Daemon!Receives
  <2>3. ASSUME Registered(c)
        PROVE  /\ k \in HandlerType /\ k.session = h.session /\ k.tracking = FALSE /\ k.mask = {}
               /\ k.caps = h.caps /\ k.interval = h.interval /\ k.engine = h.engine
               /\ k.answers = h.answers /\ k.pending = h.pending
    BY <1>2, <2>3 DEF HandlerType
  <2> HIDE DEF k
  <2>4. ASSUME Registered(c)
        PROVE  /\ g \in HandlerType /\ g.tracking = FALSE /\ g.session = FALSE
               /\ g.mask = {} /\ g.caps = h.caps
               /\ g.interval = h.interval /\ g.engine = h.engine
               /\ Matched(g) /\ (Has(g.answers, News) <=> Has(h.answers, News))
    <3>1. Matched(k) /\ k \in HandlerType /\ k.session
      <4>1. k.answers = h.answers /\ k.pending = h.pending /\ k \in HandlerType
            /\ k.session = h.session
        BY <2>3, <2>4
      <4>2. Matched(h) /\ h.session
        BY <1>2, <2>2, <2>4
      <4> QED
        BY <4>1, <4>2, MatchedSame
    <3>2. /\ g \in HandlerType /\ g.tracking = k.tracking /\ g.session = FALSE
             /\ g.mask = k.mask /\ g.caps = k.caps
          /\ g.interval = k.interval /\ g.engine = k.engine
          /\ Matched(g) /\ (Has(g.answers, News) <=> Has(k.answers, News))
      BY <3>1, Stopping
    <3> QED
      BY <2>3, <2>4, <3>2
  <2>5. MaskOf(m) = {}
    BY <2>2 DEF MaskOf
  <2> HIDE DEF g
  <2> QED
    BY <2>1, <2>2, <2>4, <2>5, HandlesKept
<1>5. ASSUME Daemon!UpdateTrackingOptions PROVE Kept(c)
  <2> DEFINE g == Daemon!Push(Daemon!HandlerUpdate(h, m.interval), "update")
  <2>1. Daemon!Handles("update", g)
    BY <1>5 DEF Daemon!UpdateTrackingOptions
  <2>2. m.op = "update"
    BY <2>1 DEF Daemon!Handles, Daemon!Receives
  <2>3. m.interval \in Nat /\ (Supported => Daemon!GetSupportedTbf(m.interval) = m.interval)
    BY <1>1, <2>2, AskedInterval
  <2>4. ASSUME Registered(c)
        PROVE  /\ g \in HandlerType /\ g.tracking = h.tracking /\ g.session = TRUE
               /\ g.mask = h.mask /\ g.caps = h.caps
               /\ g.interval = m.interval /\ g.engine = Daemon!GetSupportedTbf(m.interval)
               /\ Matched(g) /\ (Has(g.answers, News) <=> Has(h.answers, News))
               /\ ~suspended /\ h.tracking
    <3>1. h \in HandlerType /\ Matched(h) /\ h.session /\ ~suspended /\ h.tracking
      BY <1>2, <2>2, <2>4
    <3>a. h \in HandlerType /\ Matched(h) /\ h.session
      BY <3>1
    <3> HIDE DEF h, m
    <3>2. m.interval \in Nat /\ g = Daemon!Push(Daemon!HandlerUpdate(h, m.interval), "update")
      BY <2>3
    <3> HIDE DEF g
    <3>3. /\ g \in HandlerType /\ g.tracking = h.tracking /\ g.session = TRUE
          /\ g.mask = h.mask /\ g.caps = h.caps
          /\ g.engine = Daemon!GetSupportedTbf(m.interval) /\ Matched(g)
      BY <3>a, <3>2, Updating
    <3>4. g.interval = m.interval /\ (Has(g.answers, News) <=> Has(h.answers, News))
      BY <3>a, UpdatingRest DEF g
    <3> QED
      BY <3>1, <3>3, <3>4
  <2> HIDE DEF g
  <2> QED
    BY <2>1, <2>2, <2>3, <2>4, HandlesKept
<1>6. ASSUME Daemon!UpdateSubscription PROVE Kept(c)
  <2> DEFINE g == [h EXCEPT !.mask = m.mask]
  <2>1. Daemon!Handles("callbacks", g)
    BY <1>6 DEF Daemon!UpdateSubscription
  <2>2. m.op = "callbacks"
    BY <2>1 DEF Daemon!Handles, Daemon!Receives
  <2>3. m.mask \in Masks /\ MaskOf(m) = m.mask
    BY <1>1, <2>2 DEF Client!InboxMsg, MaskOf
  <2>4. ASSUME Registered(c)
        PROVE  /\ g \in HandlerType /\ g.tracking = h.tracking /\ g.session = h.session
               /\ g.mask = m.mask /\ g.caps = h.caps
               /\ g.interval = h.interval /\ g.engine = h.engine
               /\ g.answers = h.answers /\ g.pending = h.pending
    BY <1>2, <2>3, <2>4 DEF HandlerType
  <2>5. ASSUME Registered(c) PROVE Matched(g)
    <3>1. Matched(h) /\ g.answers = h.answers /\ g.pending = h.pending
      BY <1>2, <2>4, <2>5
    <3> HIDE DEF g, h
    <3> QED
      BY <3>1, MatchedSame
  <2> HIDE DEF g
  <2> QED
    BY <1>2, <2>1, <2>2, <2>3, <2>4, <2>5, HandlesKept
<1> QED
  BY <1>3, <1>4, <1>5, <1>6, NewClientKept, DeleteClientKept DEF Receiver, Daemon!Receiver
-----------------------------------------------------------------------------
(* The adapters answer the handler of client c.                            *)
Tells(c) ==
    /\ up /\ alive'[c] = alive[c] /\ impl'[c] = impl[c] /\ app'[c] = app[c]
    /\ wish'[c] = wish[c] /\ listened'[c] = listened[c]
    /\ UNCHANGED <<up, suspended, maint, inbox>>

(* An answer is about one registered client.                               *)
LEMMA AnswerTells ==
    ASSUME TypeOK, OnlyCalls, NEW c \in Clients, Answer(c)
    PROVE  /\ Tells(c) /\ Registered(c) /\ handler[c] \in HandlerType /\ handler[c].answers # <<>>
           /\ \A d \in Clients : d # c => Untouched(d)
<1>1. UNCHANGED clientOnly /\ Daemon!Answer(c) /\ maint.purging = {}
  BY DEF Answer, MayPurge, OnlyCalls
<1>2. up /\ Registered(c) /\ UNCHANGED <<up, alive, inbox, suspended, maint>>
  BY <1>1 DEF Daemon!Answer, Daemon!OnResponseCb, Daemon!OnCapabilitiesCallback,
    Daemon!Registered, Registered
<1>3. \A d \in Clients : d # c => handler'[d] = handler[d] /\ task'[d] = task[d]
  BY <1>1 DEF Daemon!Answer, Daemon!OnResponseCb, Daemon!OnCapabilitiesCallback, Daemon!SendOrPurge,
     Daemon!DeleteClientbyName, Daemon!Set, TypeOK
<1>4. handler[c] \in HandlerType
  BY <1>2 DEF TypeOK, Registered
<1>5. handler[c].answers # <<>>
  <2>1. CASE Daemon!OnResponseCb(c)
    BY <2>1 DEF Daemon!OnResponseCb
  <2>2. CASE \E i \in 1..Len(handler[c].answers) : TRUE
    BY <2>2
  <2> QED
    BY <1>1, <2>1, <2>2 DEF Daemon!Answer, Daemon!OnCapabilitiesCallback
<1> QED
  BY <1>1, <1>2, <1>3, <1>4, <1>5 DEF Tells, Untouched, clientOnly

(* A live client is told, or the handler has nothing new to tell.          *)
LEMMA Told ==
    ASSUME TypeOK, NEW c \in Clients, Linked(c), Tells(c), Registered(c), NEW g \in HandlerType,
           handler'[c] = g, g.tracking = handler[c].tracking, g.session = handler[c].session,
           g.mask = handler[c].mask, g.interval = handler[c].interval, g.engine = handler[c].engine,
           Matched(g), ~Has(g.answers, News),
           \/ task'[c] = task[c] /\ ~(handler[c].caps = 0 /\ Has(handler[c].answers, News))
           \/ /\ alive[c]
              /\ \E m \in Client!TaskMsg :
                   /\ task'[c] = Append(task[c], m)
                   /\ \/ m.op = "response" /\ ~Has(handler[c].answers, News)
                      \/ m.op = "caps" /\ Has(handler[c].answers, News)
    PROVE  Kept(c)
<1>1. handler[c] \in HandlerType /\ Registered(c)' /\ Tracked(c)' = Tracked(c)
      /\ task[c] \in Seq(Client!TaskMsg)
  BY HandlerAssumption DEF Registered, Tracked, TypeOK
<1>2. Orders(c)'
  BY <1>1 DEF Linked, Orders, Regular, Ignored, Tells
<1>3. Served(c)'
  BY <1>1 DEF Linked, Served, Tells
<1>4. Agreed(c)'
  BY <1>1 DEF Linked, Agreed, Asks, Tells
<1>5. ASSUME Paced(c) PROVE Paced(c)'
  BY <1>1, <1>5 DEF Paced, Asks, Tells
<1>6. CASE task'[c] = task[c] /\ ~(handler[c].caps = 0 /\ Has(handler[c].answers, News))
  <2>1. Queued(c)' /\ Listens(c)'
    BY <1>6 DEF Linked, Queued, Listens, Tells
  <2>2. Enlisted(c)'
    BY <1>1, <1>6 DEF Linked, Enlisted, Tells
  <2>3. Undisturbed(c)' /\ Calm(c)'
    BY <1>1, <1>6 DEF Linked, Undisturbed, Calm, Tells
  <2>4. ASSUME Wanted(c) PROVE Wanted(c)'
    BY <1>6, <2>4 DEF Wanted, Current, Tells
  <2> QED
    BY <1>2, <1>3, <1>4, <1>5, <2>1, <2>2, <2>3, <2>4 DEF Kept, Linked
<1>7. ASSUME alive[c], NEW m \in Client!TaskMsg, task'[c] = Append(task[c], m),
             \/ m.op = "response" /\ ~Has(handler[c].answers, News)
             \/ m.op = "caps" /\ Has(handler[c].answers, News)
      PROVE  Kept(c)
  <2>1. /\ m \notin Ready /\ m \notin Register /\ m \notin Moves /\ m \notin Busy
           /\ m \notin Passives
        /\ m \in Caps <=> m.op = "caps"
    BY <1>7, TaskKinds
  <2>2. ~Has(task[c], Ready) /\ (m \in Caps => ~Has(task[c], Caps))
    BY <1>7, <2>1 DEF Linked, Enlisted
  <2>3. /\ Has(task'[c], Ready) <=> Has(task[c], Ready)
        /\ Has(task'[c], Register) <=> Has(task[c], Register)
        /\ Has(task'[c], Caps) <=> (Has(task[c], Caps) \/ m \in Caps)
        /\ Has(task'[c], Moves) <=> Has(task[c], Moves)
        /\ Has(task'[c], Busy) <=> Has(task[c], Busy)
        /\ Has(task'[c], Passives) <=> Has(task[c], Passives)
    BY <1>1, <1>7, <2>1, AppendHas
  <2>4. Queued(c)'
    <3>1. Queued(c)
      BY DEF Linked
    <3> QED
      BY <1>1, <1>7, <2>1, <2>2, <3>1, AppendHas DEF Queued, Tells
  <2>5. Enlisted(c)'
    BY <1>1, <1>7, <2>1, <2>2, <2>3 DEF Linked, Enlisted, Tells
  <2>6. Undisturbed(c)'
    <3>1. InOrder(task[c], Caps, Moves) /\ (m \in Caps => ~Has(task[c], Moves))
          => InOrder(task'[c], Caps, Moves)
      BY <1>1, <1>7, <2>1, AppendHas
    <3>2. ~Has(task[c], Caps) => InOrder(task[c], Caps, Moves)
      BY DEF Has, InOrder
    <3> QED
      BY <1>1, <1>7, <2>1, <2>2, <2>3, <3>1, <3>2 DEF Linked, Undisturbed, Tells
  <2>7. Calm(c)' /\ Listens(c)'
    BY <1>1, <2>3 DEF Linked, Calm, Listens, Tells
  <2>8. ASSUME Wanted(c) PROVE Wanted(c)'
    <3>1. MovesTo(wish[c]) \in SUBSET Moves
      BY MovesKinds
    <3>2. \A now \in BOOLEAN : Finally(task'[c], Moves, MovesTo(wish[c]), now)
                                 <=> Finally(task[c], Moves, MovesTo(wish[c]), now)
      BY <1>1, <1>7, <2>1, <3>1, FinallyAppend
    <3>3. Finally(task'[c], Moves, MovesTo(wish[c]), Current(c) = wish[c])
            <=> Finally(task[c], Moves, MovesTo(wish[c]), Current(c) = wish[c])
      BY <3>2
    <3>4. InOrder(task[c], Moves, Caps) => InOrder(task'[c], Moves, Caps)
      BY <1>1, <1>7, <2>1, AppendHas
    <3> QED
      BY <1>7, <2>8, <3>3, <3>4 DEF Wanted, Current, Tells
  <2> QED
    BY <1>2, <1>3, <1>4, <1>5, <2>4, <2>5, <2>6, <2>7, <2>8 DEF Kept, Linked
<1> QED
  BY <1>6, <1>7

(* What holds of a client holds when its handler has been answered.        *)
LEMMA AnswerKept ==
    ASSUME TypeOK, OnlyCalls, NEW c \in Clients, Answer(c), Linked(c)
    PROVE  Kept(c)
<1> DEFINE h == handler[c]
<1>1. Tells(c) /\ Registered(c) /\ h \in HandlerType /\ h.answers # <<>>
  BY AnswerTells
<1>2. Matched(h)
  BY <1>1 DEF Linked, Served
<1>3. /\ h.answers \in Seq(AnswerMsg) /\ h.pending \in Seq(Operations)
      /\ Tail(h.answers) \in Seq(AnswerMsg) /\ Head(h.answers) \in AnswerMsg
  BY <1>1 DEF HandlerType
<1>4. ASSUME ~alive[c], handler'[c] = NoHandler, task' = task PROVE Kept(c)
  <2>1. Linked(c)' /\ Paced(c)' /\ Wanted(c)'
    BY <1>1, <1>4, Removed DEF Tells
  <2> QED
    BY <2>1 DEF Kept
<1>5. ASSUME NEW m \in Client!TaskMsg, NEW g, Daemon!SendOrPurge(c, m, g)
      PROVE  /\ ~alive[c] => handler'[c] = NoHandler /\ task' = task
             /\ alive[c] => handler'[c] = g /\ task'[c] = Append(task[c], m)
  BY <1>1, <1>5 DEF Daemon!SendOrPurge, Daemon!DeleteClientbyName, Daemon!Registered, Registered,
    Daemon!Set, TypeOK
<1>6. ASSUME Daemon!OnResponseCb(c) PROVE Kept(c)
  <2> DEFINE f == [h EXCEPT !.answers = Tail(@)]
             g == [f EXCEPT !.pending = Tail(@)]
             m == [op |-> "response", to |-> Head(f.pending)]
  <2>1. Head(h.answers).op # "caps"
    BY <1>6 DEF Daemon!OnResponseCb
  <2>2. f \in HandlerType /\ f.pending = h.pending /\ f.answers = Tail(h.answers)
    BY <1>1, <1>3 DEF HandlerType
  <2>3. h.pending # <<>> /\ ~Has(h.answers, News)
    BY <1>1, <1>2, <2>1, <2>2, MatchedPop
  <2>4. Tail(h.pending) \in Seq(Operations) /\ Head(h.pending) \in Operations
    BY <1>3, <2>3
  <2>5. /\ g \in HandlerType /\ g.answers = Tail(h.answers) /\ g.pending = Tail(h.pending)
        /\ g.tracking = h.tracking /\ g.session = h.session /\ g.mask = h.mask
           /\ g.interval = h.interval
        /\ g.engine = h.engine /\ g.caps = h.caps
    BY <1>1, <1>3, <2>4 DEF HandlerType
  <2>6. m \in Client!TaskMsg /\ m.op = "response"
    BY <2>2, <2>4 DEF Client!TaskMsg, Operations
  <2>7. Daemon!SendOrPurge(c, m, g)
    BY <1>6, <2>2, <2>3 DEF Daemon!OnResponseCb
  <2> HIDE DEF f, g, m
  <2>8. Matched(g) /\ ~Has(g.answers, News)
    <3>1. Matched(g)
      BY <1>1, <1>2, <2>1, <2>5, MatchedPop
    <3>2. Has(g.answers, News) => Has(h.answers, News)
      BY <1>1, <1>3, <2>5, TailHas
    <3> QED
      BY <2>3, <3>1, <3>2
  <2>9. CASE alive[c]
    <3>1. handler'[c] = g /\ task'[c] = Append(task[c], m)
      BY <1>5, <2>6, <2>7, <2>9
    <3> QED
      BY <1>1, <2>3, <2>5, <2>6, <2>8, <2>9, <3>1, Told
  <2> QED
    BY <1>4, <1>5, <2>6, <2>7, <2>9
<1>7. ASSUME Daemon!OnCapabilitiesCallback(c) PROVE Kept(c)
  <2> DEFINE a == h.answers
             v == Head(a).value
             m == [op |-> "caps"]
             f(i) == [h EXCEPT !.answers = SubSeq(a, 1, i - 1) \o SubSeq(a, i + 1, Len(a)),
                               !.caps = a[i].value]
             g == f(1)
  <2>0. PICK i \in 1..Len(a) :
          /\ a[i].op = "caps"
          /\ IF f(i).caps = h.caps THEN Daemon!Set(c, f(i)) /\ UNCHANGED <<task, cleanups>>
             ELSE Daemon!SendOrPurge(c, m, f(i))
    BY <1>7 DEF Daemon!OnCapabilitiesCallback
  <2>a. i = 1 /\ a[1] = Head(a) /\ 1 \in 1..Len(a)
    BY <1>1, <1>2, <1>3, <2>0 DEF Matched
  <2>b. SubSeq(a, 1, 1 - 1) \o SubSeq(a, 1 + 1, Len(a)) = Tail(a)
    BY <1>3, <2>a, Without
  <2>1. Head(h.answers).op = "caps"
    BY <2>0, <2>a
  <2>2. v \in 1..MaxCaps /\ MaxCaps \in Nat
    BY <1>3, <2>1, ClientDaemonAssumption DEF AnswerMsg
  <2>3. v \in 0..MaxCaps /\ v # 0
    BY <2>2
  <2>4. /\ g \in HandlerType /\ g.answers = Tail(h.answers) /\ g.pending = h.pending
        /\ g.tracking = h.tracking /\ g.session = h.session /\ g.mask = h.mask
           /\ g.interval = h.interval
        /\ g.engine = h.engine /\ g.caps = v
    BY <1>1, <1>3, <2>3, <2>a, <2>b DEF HandlerType
  <2>5. m \in Client!TaskMsg /\ m.op = "caps"
    BY DEF Client!TaskMsg
  <2>6. IF v = h.caps THEN Daemon!Set(c, g)
        /\ UNCHANGED <<task, cleanups>> ELSE Daemon!SendOrPurge(c, m, g)
    BY <2>0, <2>4, <2>a
  <2>7. Has(h.answers, News)
    <3>1. Head(h.answers) \in News
      BY <1>3, <2>1 DEF News
    <3> QED
      BY <1>1, <1>3, <3>1, TailHas
  <2> HIDE DEF g, m, v, f
  <2>8. Matched(g) /\ ~Has(g.answers, News)
    BY <1>1, <1>2, <2>1, <2>4, MatchedNews
  <2>9. CASE v = h.caps
    <3>1. handler'[c] = g /\ task' = task
      BY <2>6, <2>9 DEF Daemon!Set, TypeOK
    <3>2. ~(h.caps = 0 /\ Has(h.answers, News))
      BY <2>3, <2>9
    <3> QED
      BY <1>1, <2>4, <2>8, <3>1, <3>2, Told
  <2>10. CASE v # h.caps /\ alive[c]
    <3>1. handler'[c] = g /\ task'[c] = Append(task[c], m)
      BY <1>5, <2>5, <2>6, <2>10
    <3> QED
      BY <1>1, <2>4, <2>5, <2>7, <2>8, <2>10, <3>1, Told
  <2> QED
    BY <1>4, <1>5, <2>5, <2>6, <2>9, <2>10
<1> QED
  BY <1>6, <1>7 DEF Answer, Daemon!Answer
-----------------------------------------------------------------------------
(* The maintenance deletes a client that is gone.                          *)
LEMMA MaintenanceKept ==
    ASSUME TypeOK, StillThere, NEW c \in Clients, Maintenance(c), Linked(c)
    PROVE  Untouched(c) \/ Kept(c)
<1>1. UNCHANGED clientOnly /\ Daemon!Maintenance(c)
  BY DEF Maintenance
<1>2. ASSUME Daemon!Ping(c) PROVE Untouched(c)
  <2>1. c \in maint'.purging => ~alive[c]
    BY <1>2 DEF Daemon!Ping
  <2> QED
    BY <1>1, <1>2, <2>1 DEF Daemon!Ping, Untouched, clientOnly
<1>3. ASSUME Daemon!FinishPurge(c) PROVE Kept(c)
  <2>1. Registered(c) /\ ~alive[c]
    BY <1>3 DEF Daemon!FinishPurge, StillThere, Linked, Enlisted
  <2>2. handler'[c] = NoHandler
    BY <1>3 DEF Daemon!FinishPurge, Daemon!Set, TypeOK
  <2>3. Linked(c)' /\ Paced(c)' /\ Wanted(c)'
    BY <1>1, <1>3, <2>1, <2>2, Removed DEF Daemon!FinishPurge, clientOnly
  <2> QED
    BY <2>3 DEF Kept
<1> QED
  BY <1>1, <1>2, <1>3 DEF Daemon!Maintenance

(* It leaves the other clients alone.                                      *)
LEMMA MaintenanceOthers ==
    ASSUME TypeOK, NEW c \in Clients, Maintenance(c), NEW d \in Clients, d # c
    PROVE  Untouched(d)
<1>1. UNCHANGED clientOnly /\ Daemon!Maintenance(c)
  BY DEF Maintenance
<1>2. d \notin maint'.purging
  BY <1>1 DEF Daemon!Maintenance, Daemon!Ping, Daemon!FinishPurge, TypeOK
<1> QED
  BY <1>1, <1>2 DEF Daemon!Maintenance, Daemon!Ping, Daemon!FinishPurge, Untouched, clientOnly,
    Daemon!Set, TypeOK

(* So does its start, all of them.                                         *)
LEMMA MaintenanceStarts ==
    ASSUME MaintenanceStart, NEW d
    PROVE  Untouched(d)
<1>1. d \notin maint'.purging
  BY DEF MaintenanceStart, Daemon!MaintenanceStart
<1> QED
  BY <1>1 DEF MaintenanceStart, Daemon!MaintenanceStart, Untouched, clientOnly
-----------------------------------------------------------------------------
(* The daemon comes up: every live client hears of it, and none has        *)
(* registered yet.                                                         *)
LEMMA DaemonStartKept ==
    ASSUME TypeOK, OnlyCalls, DaemonStart, NEW c \in Clients, Linked(c)
    PROVE  Kept(c)
<1> DEFINE m == [op |-> "ready"]
<1>1. /\ ~up /\ up' = TRUE /\ ~ToRegister(c)
      /\ task'[c] = IF alive[c] THEN Append(task[c], m) ELSE task[c]
      /\ UNCHANGED <<alive, inbox, handler, suspended, maint, clientOnly>>
  BY DEF DaemonStart, OnlyCalls, Daemon!DaemonStart, Daemon!daemonVars
<1>2. m \in Client!TaskMsg /\ m.op = "ready"
  BY DEF Client!TaskMsg
<1> HIDE DEF m
<1>3. /\ m \in Ready /\ m \notin Register /\ m \notin Caps /\ m \notin Moves /\ m \notin Passives
  BY <1>2, TaskKinds
<1>4. task[c] \in Seq(Client!TaskMsg) /\ ~Has(task[c], Register)
  <2>1. task[c] \in Seq(Client!TaskMsg)
    BY DEF TypeOK
  <2>2. DOMAIN task[c] = 1..Len(task[c])
    BY <2>1
  <2> QED
    BY <1>1, <2>1, <2>2 DEF ToRegister, Has, Register, Tasks
<1>5. ~Registered(c) /\ ~Registered(c)' /\ inbox' = <<>> /\ ~suspended'
  BY <1>1 DEF Linked, Enlisted, Registered
<1>6. \A P : ~Has(inbox', P)
  BY <1>5, EmptyHas
<1>7. CASE alive[c]
  <2>1. task'[c] = Append(task[c], m)
    BY <1>1, <1>7
  <2>2. Has(task'[c], Ready) /\ ~Has(task'[c], Register)
        /\ (Has(task'[c], Passives) <=> Has(task[c], Passives))
    BY <1>2, <1>3, <1>4, <2>1, AppendHas
  <2>3. Queued(c)'
    <3>1. Queued(c)
      BY DEF Linked
    <3> QED
      BY <1>1, <1>2, <1>3, <1>4, <1>7, <2>1, <3>1, AppendHas DEF Queued
  <2>4. Enlisted(c)'
    BY <1>1, <1>5, <1>6, <2>2 DEF Linked, Enlisted
  <2>5. Listens(c)'
    BY <1>1, <2>2 DEF Linked, Listens, clientOnly
  <2>6. ASSUME Wanted(c) PROVE Wanted(c)'
    <3>1. MovesTo(wish[c]) \in SUBSET Moves
      BY MovesKinds
    <3>2. \A now \in BOOLEAN : Finally(task'[c], Moves, MovesTo(wish[c]), now)
                                 <=> Finally(task[c], Moves, MovesTo(wish[c]), now)
      BY <1>2, <1>3, <1>4, <2>1, <3>1, FinallyAppend
    <3>3. Finally(task'[c], Moves, MovesTo(wish[c]), Current(c) = wish[c])
            <=> Finally(task[c], Moves, MovesTo(wish[c]), Current(c) = wish[c])
      BY <3>2
    <3>4. InOrder(task[c], Moves, Caps) => InOrder(task'[c], Moves, Caps)
      BY <1>2, <1>3, <1>4, <2>1, AppendHas
    <3> QED
      BY <1>1, <1>7, <2>6, <3>3, <3>4 DEF Wanted, Current, clientOnly
  <2> QED
    BY <2>3, <2>4, <2>5, <2>6, <1>1, <1>5 DEF Kept, Linked, Undisturbed, Orders, Ignored,
      Regular, Tracked,
       Registered, Calm, Served, Agreed, Paced
<1>8. CASE ~alive[c]
  <2>1. task'[c] = task[c] /\ task[c] = <<>>
    BY <1>1, <1>8 DEF Linked, Queued
  <2>2. \A P : ~Has(task'[c], P)
    BY <2>1, EmptyHas
  <2>3. Queued(c)' /\ Listens(c)'
    BY <1>1, <2>1 DEF Linked, Queued, Listens, clientOnly
  <2>4. Enlisted(c)'
    BY <1>1, <1>5, <1>6, <1>8, <2>2 DEF Linked, Enlisted
  <2> QED
    BY <2>3, <2>4, <1>1, <1>5, <1>8 DEF Kept, Linked, Undisturbed, Orders, Ignored, Regular,
      Tracked,
       Registered, Calm, Served, Agreed, Paced, Wanted
<1> QED
  BY <1>7, <1>8

(* The daemon dies.                                                        *)
LEMMA DaemonCrashKept ==
    ASSUME TypeOK, DaemonCrash, NEW c \in Clients, Linked(c)
    PROVE  Kept(c)
<1>1. /\ up' = FALSE /\ inbox' = <<>> /\ suspended' = FALSE /\ ~Registered(c)'
      /\ c \notin maint'.purging /\ UNCHANGED <<alive, task, clientOnly>>
  BY DEF DaemonCrash, Daemon!DaemonCrash, Daemon!Idle, Registered
<1>2. (\A P : ~Has(inbox', P)) /\ InOrder(inbox', Work(c), Reg(c))
  BY <1>1, EmptyHas
<1>3. Queued(c)' /\ Listens(c)'
  BY <1>1 DEF Linked, Queued, Listens, clientOnly
<1>4. Enlisted(c)'
  BY <1>1, <1>2 DEF Linked, Enlisted, clientOnly
<1>5. Orders(c)'
  BY <1>1, <1>2 DEF Orders, Ignored
<1>6. Calm(c)' /\ Undisturbed(c)' /\ Served(c)' /\ Agreed(c)' /\ Paced(c)'
  BY <1>1 DEF Calm, Undisturbed, Served, Agreed, Paced
<1>7. ASSUME Wanted(c) PROVE Wanted(c)'
  BY <1>1, <1>7 DEF Wanted, Current, clientOnly
<1> QED
  BY <1>3, <1>4, <1>5, <1>6, <1>7 DEF Kept, Linked
-----------------------------------------------------------------------------
(* A step that changes the handlers in place.                              *)
Stays(c) ==
    /\ up /\ alive'[c] = alive[c] /\ impl'[c] = impl[c] /\ task'[c] = task[c] /\ app'[c] = app[c]
    /\ wish'[c] = wish[c] /\ listened'[c] = listened[c] /\ UNCHANGED <<up, maint, inbox>>
    /\ Registered(c)' <=> Registered(c)
    /\ Registered(c) => /\ handler'[c].tracking = handler[c].tracking
                        /\ handler'[c].mask = handler[c].mask /\ handler'[c].caps = handler[c].caps
                        /\ handler'[c].interval = handler[c].interval
                        /\ \/ handler'[c].engine = handler[c].engine
                           \/ handler'[c].engine = handler'[c].interval

(* What holds of a client holds if its handler is still in order.          *)
LEMMA StaysKept ==
    ASSUME NEW c, Linked(c), Stays(c), Served(c)', Calm(c)', Undisturbed(c)',
           Registered(c) => \/ Has(handler'[c].answers, News) <=> Has(handler[c].answers, News)
                            \/ Has(handler'[c].answers, News) /\ ~Has(task[c], Caps)
    PROVE  Kept(c)
<1>1. Queued(c)' /\ Listens(c)'
  BY DEF Linked, Queued, Listens, Stays
<1>2. Enlisted(c)'
  BY DEF Linked, Enlisted, Stays
<1>3. Orders(c)'
  <2>1. Tracked(c)' = Tracked(c)
    BY DEF Tracked, Stays
  <2> QED
    BY <2>1 DEF Linked, Orders, Ignored, Regular, Stays
<1>4. Agreed(c)'
  BY DEF Linked, Agreed, Asks, Stays
<1>5. ASSUME Paced(c) PROVE Paced(c)'
  BY <1>5 DEF Paced, Asks, Stays
<1>6. ASSUME Wanted(c) PROVE Wanted(c)'
  BY <1>6 DEF Wanted, Current, Stays
<1> QED
  BY <1>1, <1>2, <1>3, <1>4, <1>5, <1>6 DEF Kept, Linked

(* Nothing is on its way: a live client is registered and knows it.        *)
LEMMA QuietFacts ==
    ASSUME TypeOK, NEW c \in Clients, Linked(c), Quiet(c), up
    PROVE  /\ task[c] = <<>> /\ app[c] = <<>>
           /\ \A P : ~Has(task[c], P)
           /\ \A ops : ~Has(inbox, From(c, ops))
           /\ Registered(c) => handler[c].answers = <<>> /\ ~Has(handler[c].answers, News)
           /\ alive[c] => Registered(c) /\ impl[c].reg
<1>1. task[c] = <<>> /\ app[c] = <<>> /\ (Registered(c) => handler[c].answers = <<>>)
  BY DEF Quiet, Registered
<1>2. (\A P : ~Has(task[c], P)) /\ (Registered(c) => ~Has(handler[c].answers, News))
  BY <1>1, EmptyHas
<1>3. \A ops : ~Has(inbox, From(c, ops))
  <2>1. inbox \in Seq(Client!InboxMsg)
    BY DEF TypeOK
  <2>2. DOMAIN inbox = 1..Len(inbox)
    BY <2>1
  <2> QED
    BY <2>2 DEF Quiet, Has, From
<1>4. ~Has(inbox, Reg(c))
  BY <1>3 DEF Reg
<1>5. alive[c] => Registered(c) /\ impl[c].reg
  BY <1>2, <1>4 DEF Linked, Enlisted
<1> QED
  BY <1>1, <1>2, <1>3, <1>5

(* suspendAllTrackingSessions stops the sessions that track, all of which  *)
(* run.                                                                    *)
LEMMA SuspendKept ==
    ASSUME TypeOK, OnlyCalls, QuietPower, Daemon!Suspend, UNCHANGED clientOnly,
        NEW c \in Clients, Linked(c)
    PROVE  Kept(c)
<1> DEFINE h == handler[c]
           g == Daemon!Push(Daemon!HandlerStop(h), "stop")
<1>1. ~suspended /\ Quiet(c) /\ up /\ suspended' = TRUE
      /\ UNCHANGED <<up, task, alive, inbox, maint, clientOnly>>
  BY DEF QuietPower, OnlyCalls, Daemon!Suspend
<1>2. handler'[c] = IF Registered(c) /\ h.tracking THEN g ELSE h
  BY DEF Daemon!Suspend, Daemon!ForTracking, Daemon!Registered, Registered
<1>3. Calm(c)'
  <2>1. ~Has(inbox, Errands(c)) /\ ~Has(task[c], Busy) /\ app[c] = <<>>
        /\ (alive[c] => Registered(c) /\ impl[c].reg)
    BY <1>1, QuietFacts DEF Errands
  <2>2. Registered(c) => Registered(c)'
    <3>1. CASE h.tracking /\ Registered(c)
      <4>1. h \in HandlerType /\ h.session /\ Matched(h)
        BY <1>1, <3>1 DEF TypeOK, Registered, Linked, Served
      <4> HIDE DEF h
      <4>2. g \in HandlerType
        BY <4>1, Stopping
      <4> QED
        BY <1>2, <3>1, <4>2, HandlerAssumption DEF Registered
    <3> QED
      BY <1>2, <3>1 DEF Registered
  <2> QED
    BY <1>1, <2>1, <2>2 DEF Calm, clientOnly
<1>4. CASE Registered(c) /\ h.tracking
  <2>1. h \in HandlerType /\ h.session /\ Matched(h)
    BY <1>1, <1>4 DEF TypeOK, Registered, Linked, Served
  <2>2. handler'[c] = g
    BY <1>2, <1>4
  <2>3. /\ g \in HandlerType /\ g.tracking = h.tracking /\ g.session = FALSE
           /\ g.mask = h.mask /\ g.caps = h.caps
        /\ g.interval = h.interval /\ g.engine = h.engine
        /\ Matched(g) /\ (Has(g.answers, News) <=> Has(h.answers, News))
    <3> HIDE DEF h
    <3> QED
      BY <2>1, Stopping
  <2> HIDE DEF g
  <2>4. Registered(c)'
    BY <2>2, <2>3, HandlerAssumption DEF Registered
  <2>5. Stays(c)
    BY <1>1, <1>4, <2>2, <2>3, <2>4 DEF Stays, clientOnly
  <2>6. Served(c)'
    BY <1>1, <2>2, <2>3 DEF Served
  <2>7. Undisturbed(c)'
    BY <1>4, <2>2, <2>3, <2>5 DEF Linked, Undisturbed, Stays
  <2> QED
    BY <1>3, <2>2, <2>3, <2>5, <2>6, <2>7, StaysKept
<1>5. CASE ~(Registered(c) /\ h.tracking)
  <2>1. handler'[c] = h
    BY <1>2, <1>5
  <2>2. Stays(c)
    BY <1>1, <2>1 DEF Stays, clientOnly, Registered
  <2>3. Served(c)'
    BY <1>1, <1>5, <2>1 DEF Linked, Served, Registered
  <2>4. Undisturbed(c)'
    BY <2>1, <2>2 DEF Linked, Undisturbed, Stays
  <2> QED
    BY <1>3, <2>1, <2>2, <2>3, <2>4, StaysKept
<1> QED
  BY <1>4, <1>5

(* resumeAllTrackingSessions starts the sessions that track, none of which *)
(* runs.                                                                   *)
LEMMA ResumeKept ==
    ASSUME TypeOK, OnlyCalls, suspended, Daemon!Resume, UNCHANGED clientOnly, NEW c \in Clients,
        Linked(c)
    PROVE  Kept(c)
<1> DEFINE h == handler[c]
           g == Daemon!Push(Daemon!HandlerRestart(h), "start")
<1>1. up /\ suspended' = FALSE /\ UNCHANGED <<up, task, alive, inbox, maint, clientOnly>>
  BY DEF Daemon!Resume
<1>2. handler'[c] = IF Registered(c) /\ h.tracking THEN g ELSE h
  BY DEF Daemon!Resume, Daemon!ForTracking, Daemon!Registered, Registered
<1>3. Calm(c)'
  BY <1>1 DEF Calm
<1>4. CASE Registered(c) /\ h.tracking
  <2>1. h \in HandlerType /\ ~h.session /\ Matched(h)
    BY <1>1, <1>4 DEF TypeOK, Registered, Linked, Served
  <2>2. handler'[c] = g
    BY <1>2, <1>4
  <2>3. /\ g \in HandlerType /\ g.tracking = h.tracking /\ g.session = TRUE /\ g.mask = h.mask
           /\ g.caps = h.caps
        /\ g.interval = h.interval /\ g.engine = h.interval
        /\ Matched(g) /\ (Has(g.answers, News) <=> Has(h.answers, News))
    <3> HIDE DEF h
    <3> QED
      BY <2>1, Restarting
  <2> HIDE DEF g
  <2>4. Registered(c)'
    BY <2>2, <2>3, HandlerAssumption DEF Registered
  <2>5. Stays(c)
    BY <1>1, <1>4, <2>2, <2>3, <2>4 DEF Stays, clientOnly
  <2>6. Served(c)'
    BY <1>1, <1>4, <2>2, <2>3 DEF Served
  <2>7. Undisturbed(c)'
    BY <1>4, <2>2, <2>3, <2>5 DEF Linked, Undisturbed, Stays
  <2> QED
    BY <1>3, <2>2, <2>3, <2>5, <2>6, <2>7, StaysKept
<1>5. CASE ~(Registered(c) /\ h.tracking)
  <2>1. handler'[c] = h
    BY <1>2, <1>5
  <2>2. Stays(c)
    BY <1>1, <2>1 DEF Stays, clientOnly, Registered
  <2>3. Served(c)'
    BY <1>1, <1>5, <2>1 DEF Linked, Served, Registered
  <2>4. Undisturbed(c)'
    BY <2>1, <2>2 DEF Linked, Undisturbed, Stays
  <2> QED
    BY <1>3, <2>1, <2>2, <2>3, <2>4, StaysKept
<1> QED
  BY <1>4, <1>5

(* Other capabilities, while nothing is under way.                         *)
LEMMA CapabilitiesKept ==
    ASSUME TypeOK, OnlyCalls, NewCapabilities, NEW c \in Clients, Linked(c)
    PROVE  Kept(c)
<1> DEFINE h == handler[c]
           m == [op |-> "caps", value |-> caps + 1]
           g == [h EXCEPT !.answers = Append(@, m)]
<1>1. /\ NoSession(c) /\ Quiet(c) /\ up /\ caps + 1 \in 1..MaxCaps
      /\ UNCHANGED <<up, task, alive, inbox, suspended, maint, clientOnly>>
  BY ClientDaemonAssumption DEF NewCapabilities, OnlyCalls, Daemon!BroadcastCapabilities, TypeOK
<1>2. handler'[c] = IF Registered(c) THEN g ELSE NoHandler
  BY DEF NewCapabilities, Daemon!BroadcastCapabilities, Daemon!Registered, Registered
<1>3. /\ \A P : ~Has(task[c], P)
      /\ Registered(c) => h.answers = <<>> /\ ~Has(h.answers, News)
      /\ alive[c] => Registered(c) /\ impl[c].reg
  BY <1>1, QuietFacts
<1>4. CASE Registered(c)
  <2>1. h \in HandlerType /\ Matched(h) /\ (h.session <=> (h.tracking /\ ~suspended))
        /\ h.answers = <<>>
    BY <1>3, <1>4 DEF TypeOK, Registered, Linked, Served
  <2>2. m \in AnswerMsg /\ m.op = "caps"
    BY <1>1 DEF AnswerMsg
  <2>3. Append(h.answers, m) = <<m>> /\ <<m>> \in Seq(AnswerMsg) /\ Len(<<m>>) = 1 /\ <<m>>[1] = m
    BY <2>1, <2>2
  <2> HIDE DEF m
  <2>4. /\ g \in HandlerType /\ g.tracking = h.tracking /\ g.session = h.session /\ g.mask = h.mask
        /\ g.caps = h.caps /\ g.interval = h.interval /\ g.engine = h.engine
        /\ g.answers = <<m>> /\ g.pending = h.pending
    BY <2>1, <2>3 DEF HandlerType
  <2>5. h.pending = <<>>
    <3>1. First(h) = 0 /\ Len(h.answers) = 0 /\ h.pending \in Seq(Operations)
      BY <2>1 DEF First, HandlerType
    <3>2. Len(h.pending) \in Nat /\ 0 = Len(h.pending) + 0
      BY <2>1, <3>1 DEF Matched
    <3>3. Len(h.pending) = 0
      BY <3>2
    <3> QED
      BY <3>1, <3>3, EmptySeq
  <2>6. handler'[c] = g
    BY <1>2, <1>4
  <2> HIDE DEF g, h
  <2>7. Matched(g) /\ Has(g.answers, News)
    BY <2>2, <2>3, <2>4, <2>5, MatchedFresh
  <2>8. Registered(c)'
    BY <2>4, <2>6, HandlerAssumption DEF Registered
  <2>9. Stays(c)
    BY <1>1, <1>4, <2>4, <2>6, <2>8 DEF Stays, clientOnly, h
  <2>10. Served(c)' /\ Calm(c)'
    BY <1>1, <2>1, <2>4, <2>6, <2>7, <2>8, <2>9 DEF Linked, Served, Calm, Stays
  <2>11. Undisturbed(c)'
    BY <1>1, <1>3, <2>9 DEF Undisturbed, Stays, NoSession
  <2> QED
    BY <1>3, <2>6, <2>7, <2>9, <2>10, <2>11, StaysKept
<1>5. CASE ~Registered(c)
  <2>1. handler'[c] = handler[c]
    BY <1>2, <1>5 DEF Registered
  <2>2. Stays(c)
    BY <1>1, <2>1 DEF Stays, clientOnly, Registered
  <2>3. Served(c)' /\ Undisturbed(c)'
    BY <1>5, <2>2 DEF Served, Undisturbed, Stays
  <2>4. Calm(c)'
    BY <1>1, <2>2 DEF Linked, Calm, Stays
  <2> QED
    BY <1>5, <2>2, <2>3, <2>4, StaysKept
<1> QED
  BY <1>4, <1>5

(* At the start every client has yet to register.                          *)
LEMMA InitLinked == Init => \A c \in Clients : Linked(c) /\ Paced(c) /\ Wanted(c)
<1> SUFFICES ASSUME Init, NEW c \in Clients PROVE Linked(c) /\ Paced(c) /\ Wanted(c)
  OBVIOUS
<1> DEFINE m == [op |-> "register"]
<1>1. /\ alive[c] = TRUE /\ impl[c] = Client!NewImpl /\ task[c] = <<m>> /\ app[c] = <<>>
         /\ wish[c] = <<>>
      /\ listened[c] = FALSE /\ suspended = FALSE /\ inbox = <<>> /\ handler[c] = NoHandler
         /\ maint.purging = {}
  BY DEF Init, Client!ClientInit, Daemon!DaemonInit, Daemon!Idle
<1>2. m \in Client!TaskMsg /\ m.op = "register" /\ <<m>> = Append(<<>>, m)
      /\ <<>> \in Seq(Client!TaskMsg)
  BY DEF Client!TaskMsg
<1>3. m \in Register /\ m \notin Ready /\ m \notin Caps /\ m \notin Moves /\ m \notin Passives
  <2> HIDE DEF m
  <2> QED
    BY <1>2, TaskKinds
<1> HIDE DEF m
<1>4. /\ Has(task[c], Register) /\ ~Has(task[c], Ready) /\ ~Has(task[c], Caps)
         /\ ~Has(task[c], Passives)
      /\ ~Has(task[c], Moves)
  <2>1. DOMAIN <<m>> = {1} /\ <<m>>[1] = m
    OBVIOUS
  <2> QED
    BY <1>1, <1>3, <2>1 DEF Has
<1>5. Queued(c)
  BY <1>1, <1>4 DEF Queued, InOrder, AtMostOne, Has
<1>6. \A P, Q : ~Has(inbox, P) /\ InOrder(inbox, P, Q)
  BY <1>1, EmptyHas
<1>7. ~Registered(c)
  BY <1>1 DEF Registered
<1>8. Enlisted(c)
  BY <1>1, <1>4, <1>6, <1>7 DEF Enlisted, Client!NewImpl
<1>9. Orders(c)
  BY <1>6, <1>7 DEF Orders, Ignored
<1>10. Calm(c) /\ Undisturbed(c) /\ Served(c) /\ Agreed(c) /\ Paced(c)
  BY <1>1, <1>7 DEF Calm, Undisturbed, Served, Agreed, Paced
<1>11. Listens(c)
  BY <1>1, <1>4 DEF Listens, Client!NewImpl
<1>12. Wanted(c)
  <2>1. Current(c) = wish[c]
    BY <1>1 DEF Current, Client!NewImpl
  <2>2. Finally(task[c], Moves, MovesTo(wish[c]), Current(c) = wish[c])
    BY <1>4, <2>1 DEF Finally
  <2> QED
    BY <1>4, <2>2 DEF Wanted, InOrder, Has
<1> QED
  BY <1>5, <1>8, <1>9, <1>10, <1>11, <1>12 DEF Linked
-----------------------------------------------------------------------------
(* One step keeps what holds of every client.                              *)
LEMMA StepKept ==
    ASSUME TypeOK, StillThere, OnlyCalls, [Next]_vars, \A d \in Clients : Linked(d),
        NEW c \in Clients
    PROVE  /\ Linked(c)'
           /\ Supported /\ Paced(c) => Paced(c)'
           /\ "call" \notin Anytime /\ Wanted(c) => Wanted(c)'
<1> DEFINE Goal == /\ Linked(c)'
                   /\ Supported /\ Paced(c) => Paced(c)'
                   /\ "call" \notin Anytime /\ Wanted(c) => Wanted(c)'
<1>1. Linked(c) /\ (c \in maint.purging => ~alive[c])
  BY DEF Linked, Enlisted
<1>2. TypeOK'
  BY TypesStep
<1>3. Untouched(c) => Goal
  BY <1>1, Others
<1>4. Kept(c) => Goal
  BY DEF Kept
<1> SUFFICES Goal
  OBVIOUS
<1> HIDE DEF Goal
<1>5. CASE UNCHANGED vars
  BY <1>1, <1>3, <1>5 DEF vars, Untouched
<1>6. ASSUME NEW d \in Clients, AppStep(d) PROVE Goal
  <2>1. CASE d = c
    BY <1>1, <1>2, <1>6, <2>1, AppOwn DEF Goal
  <2>2. CASE d # c
    BY <1>1, <1>3, <1>6, <2>2, AppOthers
  <2> QED
    BY <2>1, <2>2
<1>7. ASSUME NEW d \in Clients, TaskStep(d) PROVE Goal
  <2>1. CASE d = c
    BY <1>1, <1>7, <2>1, TaskOwn DEF Goal
  <2>2. CASE d # c
    BY <1>1, <1>3, <1>7, <2>2, TaskOthers
  <2> QED
    BY <2>1, <2>2
<1>8. ASSUME NEW d \in Clients, Answer(d) PROVE Goal
  <2>1. CASE d = c
    BY <1>1, <1>4, <1>8, <2>1, AnswerKept
  <2>2. CASE d # c
    BY <1>3, <1>8, <2>2, AnswerTells
  <2> QED
    BY <2>1, <2>2
<1>9. ASSUME NEW d \in Clients, Maintenance(d) PROVE Goal
  <2>1. CASE d = c
    BY <1>1, <1>3, <1>4, <1>9, <2>1, MaintenanceKept
  <2>2. CASE d # c
    BY <1>3, <1>9, <2>2, MaintenanceOthers
  <2> QED
    BY <2>1, <2>2
<1>10. ASSUME Receiver PROVE Goal
  <2>1. CASE c = Daemon!Sender
    BY <1>1, <1>4, <1>10, <2>1, ReceiverKept
  <2>2. CASE c # Daemon!Sender
    BY <1>3, <1>10, <2>2, ReceiverTakes
  <2> QED
    BY <2>1, <2>2
<1>11. ASSUME PowerEvent PROVE Goal
  <2>1. UNCHANGED clientOnly
    BY <1>11 DEF PowerEvent
  <2>2. (QuietPower /\ Daemon!Suspend) \/ (suspended /\ Daemon!Resume)
    BY <1>11 DEF PowerEvent, OnlyCalls
  <2> QED
    BY <1>1, <1>4, <2>1, <2>2, SuspendKept, ResumeKept
<1>12. ASSUME DaemonStart \/ DaemonCrash \/ NewCapabilities PROVE Goal
  BY <1>1, <1>4, <1>12, DaemonStartKept, DaemonCrashKept, CapabilitiesKept
<1>13. ASSUME MaintenanceStart PROVE Goal
  BY <1>3, <1>13, MaintenanceStarts
<1> QED
  BY <1>5, <1>6, <1>7, <1>8, <1>9, <1>10, <1>11, <1>12, <1>13 DEF Next

(* The pending message ids of a handler in step.                           *)
LEMMA MatchedCounts ==
    ASSUME NEW h \in HandlerType, Matched(h)
    PROVE  Len(h.pending) = Cardinality({i \in 1..Len(h.answers) : h.answers[i].op # "caps"})
<1> DEFINE answers == h.answers
           k == First(h)
           l == Len(answers)
           p == Len(h.pending)
           asked == {i \in 1..l : answers[i].op # "caps"}
<1>1. l \in Nat /\ p \in Nat /\ k \in {0, 1}
  BY DEF HandlerType, First
<1>2. l = p + k /\ \A i \in 1..l : answers[i].op = "caps" => i = 1
  BY DEF Matched
<1>3. \A i \in 1..l : answers[i].op = "caps" <=> i <= k
  <2>1. k = 1 => l # 0 /\ answers[1].op = "caps"
    <3>1. k = 1 => answers # <<>> /\ answers[1].op = "caps"
      BY DEF First
    <3>2. answers \in Seq(AnswerMsg)
      BY DEF HandlerType
    <3>3. l = 0 => answers = <<>>
      BY <3>2, EmptySeq
    <3> QED
      BY <3>1, <3>3
  <2>2. k = 0 /\ l # 0 => answers[1].op # "caps"
    <3>1. l # 0 => answers # <<>>
      BY EmptySeq
    <3> QED
      BY <3>1 DEF First
  <2> HIDE DEF k, l, answers
  <2> QED
    BY <1>1, <1>2, <2>1, <2>2
<1> HIDE DEF k, l, p, answers
<1>4. asked = (k + 1)..l
  <2>1. \A i \in 1..l : i <= k <=> ~(i >= k + 1)
    BY <1>1
  <2>2. \A i \in (k + 1)..l : i \in 1..l /\ i >= k + 1
    BY <1>1
  <2>3. \A i \in 1..l : i >= k + 1 => i \in (k + 1)..l
    BY <1>1
  <2> QED
    BY <1>3, <2>1, <2>2, <2>3
<1>5. Cardinality((k + 1)..l) = IF k + 1 > l THEN 0 ELSE l - (k + 1) + 1
  <2>1. k + 1 \in Int /\ l \in Int
    BY <1>1
  <2> QED
    BY <2>1, FS_Interval
<1>6. (IF k + 1 > l THEN 0 ELSE l - (k + 1) + 1) = p
  BY <1>1, <1>2
<1> QED
  BY <1>4, <1>5, <1>6 DEF p, l, answers

(* No switch is queued: what holds now holds finally.                      *)
LEMMA FinallyNone ==
    ASSUME NEW q, NEW P, NEW Q \in SUBSET P, NEW now \in BOOLEAN, ~Has(q, P)
    PROVE  Finally(q, P, Q, now) <=> now
BY DEF Finally, Has

(* The message ids are in step with the answers.                           *)
LEMMA LinkedPending == TypeOK /\ (\A c \in Clients : Linked(c)) => PendingInStep
<1> SUFFICES ASSUME TypeOK, NEW c \in Clients, Linked(c), handler[c] # NoHandler
             PROVE  Len(handler[c].pending) = Cardinality(
                      {i \in 1..Len(handler[c].answers) : handler[c].answers[i].op # "caps"})
  BY DEF PendingInStep
<1>1. handler[c] \in HandlerType /\ Matched(handler[c])
  BY DEF TypeOK, Linked, Served, Registered
<1> QED
  BY <1>1, MatchedCounts

(* With nothing on its way, client and daemon agree.                       *)
LEMMA LinkedAgrees ==
    ASSUME Supported, TypeOK, \A c \in Clients : Linked(c) /\ Paced(c) /\ Wanted(c)
    PROVE  SessionAgrees
<1> SUFFICES ASSUME NEW c \in Clients, up, alive[c], Quiet(c)
             PROVE  LET h == handler[c]
                        active == wish[c] # <<>> /\ wish[c] # <<0>>
                    IN /\ h # NoHandler /\ impl[c].reg
                       /\ wish[c] = IF impl[c].session THEN <<impl[c].interval>> ELSE <<>>
                       /\ h.tracking <=> active
                       /\ h.session <=> (active /\ ~suspended)
                       /\ active => h.engine = Daemon!GetSupportedTbf(wish[c][1])
                       /\ ~listened[c] => Subscribed(c)
  BY DEF SessionAgrees
<1> DEFINE h == handler[c]
           active == wish[c] # <<>> /\ wish[c] # <<0>>
           r == impl[c]
<1>1. Linked(c) /\ Paced(c) /\ Wanted(c)
  OBVIOUS
<1>2. Registered(c) /\ r.reg /\ \A ops : ~Has(inbox, From(c, ops))
  BY <1>1, QuietFacts
<1>3. h # NoHandler /\ h \in HandlerType /\ r \in Client!ImplType
  BY <1>2 DEF Registered, TypeOK
<1>4. wish[c] = IF r.session THEN <<r.interval>> ELSE <<>>
  <2> DEFINE now == Current(c) = wish[c]
  <2>1. task[c] = <<>> /\ now \in BOOLEAN /\ Finally(task[c], Moves, MovesTo(wish[c]), now)
    BY <1>1 DEF Quiet, Wanted
  <2> HIDE DEF now
  <2>2. now
    BY <2>1, FinallyEmpty
  <2> QED
    BY <2>2 DEF now, Current
<1>5. active <=> r.session /\ r.interval # 0
  BY <1>4
<1>6. h.tracking <=> active
  <2>1. ~Has(inbox, Flips(c)) /\ Starts(c) \in SUBSET Flips(c)
    BY <1>2, InboxKinds DEF Flips
  <2>2. Finally(inbox, Flips(c), Starts(c), h.tracking) <=> Asks(c)
    BY <1>1, <1>2 DEF Linked, Agreed
  <2>3. h.tracking \in BOOLEAN
    BY <1>3 DEF HandlerType
  <2>4. Finally(inbox, Flips(c), Starts(c), h.tracking) <=> h.tracking
    BY <2>1, <2>3, FinallyNone
  <2> QED
    BY <1>2, <1>5, <2>2, <2>4 DEF Asks
<1>7. h.session <=> (active /\ ~suspended)
  BY <1>1, <1>2, <1>6 DEF Linked, Served
<1>8. active => h.engine = Daemon!GetSupportedTbf(wish[c][1])
  <2> SUFFICES ASSUME active PROVE h.engine = Daemon!GetSupportedTbf(wish[c][1])
    OBVIOUS
  <2>1. Asks(c) /\ wish[c][1] = r.interval /\ r.interval \in Intervals /\ r.interval # 0
    BY <1>2, <1>3, <1>4, <1>5 DEF Asks, Client!ImplType
  <2> DEFINE now == h.interval = r.interval
  <2>2. ~Has(inbox, Sets(c)) /\ SetsTo(c, r.interval) \in SUBSET Sets(c)
    BY <1>2, InboxKinds DEF Sets
  <2>3. h.engine = h.interval /\ Finally(inbox, Sets(c), SetsTo(c, r.interval), now)
        /\ now \in BOOLEAN
    BY <1>1, <1>2, <2>1 DEF Paced
  <2>4. now
    <3> HIDE DEF now
    <3> QED
      BY <2>2, <2>3, FinallyNone
  <2> QED
    BY <2>1, <2>3, <2>4 DEF Supported
<1>9. ~listened[c] => Subscribed(c)
  <2> SUFFICES ASSUME ~listened[c] PROVE Subscribed(c)
    OBVIOUS
  <2> DEFINE now == h.mask = r.mask
  <2>1. ~Has(inbox, Shapes(c)) /\ ShapesTo(c, r.mask) \in SUBSET Shapes(c)
    BY <1>2, InboxKinds DEF Shapes
  <2>2. Finally(inbox, Shapes(c), ShapesTo(c, r.mask), now) /\ now \in BOOLEAN
    BY <1>1, <1>2 DEF Linked, Agreed
  <2>3. now
    <3> HIDE DEF now
    <3> QED
      BY <2>1, <2>2, FinallyNone
  <2> QED
    BY <2>3 DEF Subscribed
<1> QED
  BY <1>2, <1>3, <1>4, <1>6, <1>7, <1>8, <1>9

(* For every number of clients, crashes, restarts, suspends and            *)
(* capabilities indications, and whatever the order of the answers, a      *)
(* handler has as many message ids in mPendingMessages as onResponseCb     *)
(* will get answers: every operation of LocHalDaemonClientHandler that     *)
(* pushes an id asks the location API, and every one that asks it pushes   *)
(* an id.  Calls may overlap a capabilities indication here; power events, *)
(* changes of the capabilities and second registrations do not overlap     *)
(* requests.                                                               *)
THEOREM PendingKept == OnlyCalls => (Spec => []PendingInStep)
<1> SUFFICES ASSUME OnlyCalls PROVE Spec => []PendingInStep
  OBVIOUS
<1> DEFINE Inv == TypeOK /\ StillThere /\ \A c \in Clients : Linked(c)
<1>1. Init => Inv
  BY InitType, InitLinked
<1>2. Inv /\ [Next]_vars => Inv'
  BY TypesStep, StillThereStep, StepKept DEF OnlyCalls
<1>3. Inv => PendingInStep
  BY LinkedPending
<1> QED
  BY <1>1, <1>2, <1>3, PTL DEF Spec

(* For every number of clients, crashes, restarts, suspends and            *)
(* capabilities indications, once the messages between them are delivered, *)
(* a live client and its LocHalDaemonClientHandler have the session the    *)
(* application asked for last: startTracking, updateTrackingOptions and    *)
(* stopTracking are neither lost nor repeated by a daemon that comes up    *)
(* late or again (HALREADY, then registration, capabilities and the        *)
(* session sent again). The intervals are those getSupportedTbf leaves as  *)
(* they are.                                                               *)
THEOREM SessionsAgree == Anytime = {} /\ Supported => (Spec => []SessionAgrees)
<1> SUFFICES ASSUME Anytime = {}, Supported PROVE Spec => []SessionAgrees
  OBVIOUS
<1> DEFINE Inv == TypeOK /\ StillThere /\ \A c \in Clients : Linked(c) /\ Paced(c) /\ Wanted(c)
<1>1. Init => Inv
  BY InitType, InitLinked
<1>2. Inv /\ [Next]_vars => Inv'
  <2> SUFFICES ASSUME Inv, [Next]_vars PROVE Inv'
    OBVIOUS
  <2>1. OnlyCalls /\ "purge" \notin Anytime /\ "call" \notin Anytime
    BY DEF OnlyCalls
  <2>2. TypeOK' /\ StillThere'
    BY <2>1, TypesStep, StillThereStep
  <2>3. ASSUME NEW c \in Clients PROVE Linked(c)' /\ Paced(c)' /\ Wanted(c)'
    BY <2>1, StepKept
  <2> QED
    BY <2>2, <2>3
<1>3. Inv => SessionAgrees
  BY LinkedAgrees
<1> QED
  BY <1>1, <1>2, <1>3, PTL DEF Spec
=============================================================================
