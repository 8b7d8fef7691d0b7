------------------------------ MODULE HalDaemon ------------------------------
(***************************************************************************)
(* The location HAL daemon, LocationApiService and its client handlers     *)
(* (LocHalDaemonClientHandler): registration, tracking sessions, power     *)
(* events and the maintenance that finds the clients that are gone.        *)
(*                                                                         *)
(* Three threads enter the daemon: the receiver of the daemon's socket,    *)
(* the adapters' worker with the answers of the location API, and the      *)
(* maintenance task.  LocationApiService::mMutex makes every handler one   *)
(* step, except the deletion by performMaintenance, which runs without it. *)
(*                                                                         *)
(* The adapters below the location API are external here: every start,     *)
(* stop and update is answered once, in any order, and a new handler is    *)
(* told the capabilities.  The adapter answers an update it need not send  *)
(* to the modem at once, before a start that waits for the modem           *)
(* (GnssAdapter.cpp:3263 and 3088), and an answer does not say to what, so *)
(* an answer to come is only that: any of them may be the next.            *)
(***************************************************************************)
EXTENDS Naturals, Sequences

CONSTANTS
    Clients,     \* the names of the clients' sockets
    NoHandler,   \* no entry in mClients
    MaxCrashes,  \* bound: crashes of the daemon
    MaxPower,    \* bound: power events
    MaxCaps      \* bound: values the capabilities take

VARIABLES
    up,         \* the daemon runs
    handler,    \* mClients: the handler of each client, or NoHandler
    inbox,      \* messages on their way to the daemon, in order
    task,       \* the queues of the clients' message tasks
    alive,      \* the clients that listen on their sockets
    suspended,  \* mPowerState is SUSPEND or SHUTDOWN
    caps,       \* what the engine can do
    maint,      \* performMaintenance: the names to check and the one to delete
    cleanups,   \* history: calls of cleanup() on the handler of each client
    crashes, powers  \* number of crashes and power events

daemonVars == <<handler, suspended, caps, maint, cleanups, crashes, powers>>

Idle == [left |-> {}, purging |-> {}]

(* getSupportedTbf: the intervals the engine supports.  The largest ones,  *)
(* which the code keeps from wrapping in i + 999, are left out: they are   *)
(* beyond TLC's integers.                                                  *)
GetSupportedTbf(i) ==
    IF i < 200 THEN 100
    ELSE IF i < 500 THEN 200
    ELSE IF i < 1000 THEN 500
    ELSE ((i + 999) \div 1000) * 1000

(* LocHalDaemonClientHandler(): creates its location API, which will tell  *)
(* it the capabilities.                                                    *)
NewHandler ==
    [tracking |-> FALSE,   \* mTracking
     session |-> FALSE,    \* mSessionId # 0
     interval |-> 0,       \* mOptions
     engine |-> 0,         \* the interval the location API was given last
     mask |-> {},          \* mSubscriptionMask
     caps |-> 0,           \* mCapabilityMask: what the client was told
     pending |-> <<>>,     \* mPendingMessages
     answers |-> <<[op |-> "caps", value |-> caps]>>]  \* callbacks to come

DaemonInit ==
    /\ up \in BOOLEAN /\ suspended = FALSE /\ caps = 1
    /\ handler = [c \in Clients |-> NoHandler]
    /\ inbox = <<>>
    /\ maint = Idle
    /\ cleanups = [c \in Clients |-> 0]
    /\ crashes = 0 /\ powers = 0

Registered(c) == handler[c] # NoHandler
Set(c, h) == handler' = [handler EXCEPT ![c] = h]
-----------------------------------------------------------------------------
(* The handler's tracking operations, on a handler h.  An operation that   *)
(* reaches the location API will be answered; the caller pushes the        *)
(* message id to answer with in any case.                                  *)

Asked(h) == [h EXCEPT !.answers = Append(@, [op |-> "answer"])]
Push(h, op) == [h EXCEPT !.pending = Append(@, op)]

(* startTracking(locOptions)                                               *)
HandlerStart(h, i) ==
    IF h.session THEN h
    ELSE Asked([h EXCEPT !.session = TRUE, !.interval = GetSupportedTbf(i),
                         !.engine = GetSupportedTbf(i)])

(* startTracking(), with the preserved options                             *)
HandlerRestart(h) ==
    IF h.session THEN h
    ELSE Asked([h EXCEPT !.session = TRUE, !.engine = h.interval])

(* stopTracking                                                            *)
HandlerStop(h) ==
    IF h.session THEN Asked([h EXCEPT !.session = FALSE]) ELSE h

(* updateTrackingOptions: mOptions keeps the interval as it came.          *)
HandlerUpdate(h, i) ==
    IF h.session
    THEN Asked([h EXCEPT !.interval = i, !.engine = GetSupportedTbf(i)])
    ELSE h
-----------------------------------------------------------------------------
(* The daemon's life.                                                      *)

(* LocationApiService() and LocHaldLocalIpcListener::onListenerReady: every*)
(* client whose socket exists is told.                                     *)
DaemonStart ==
    /\ ~up /\ up' = TRUE
    /\ task' = [c \in Clients |->
                  IF alive[c] THEN Append(task[c], [op |-> "ready"]) ELSE task[c]]
    /\ UNCHANGED <<alive, inbox, daemonVars>>

(* The process dies with everything it keeps and its socket.               *)
DaemonCrash ==
    /\ up /\ crashes < MaxCrashes
    /\ up' = FALSE /\ crashes' = crashes + 1
    /\ inbox' = <<>> /\ suspended' = FALSE /\ maint' = Idle
    /\ handler' = [c \in Clients |-> NoHandler]
    /\ cleanups' = [c \in Clients |-> 0]
    /\ UNCHANGED <<task, alive, caps, powers>>
-----------------------------------------------------------------------------
(* The receiver thread: one action per message, at the head of inbox.      *)

Receives(op) ==
    /\ up /\ inbox # <<>> /\ Head(inbox).op = op
    /\ inbox' = Tail(inbox)
Sender == Head(inbox).from

(* deleteClientbyName                                                      *)
DeleteClientbyName(c) ==
    IF Registered(c)
    THEN /\ Set(c, NoHandler)
         /\ cleanups' = [cleanups EXCEPT ![c] = @ + 1]
    ELSE UNCHANGED <<handler, cleanups>>

(* newClient: a name in use is refused without an answer.                  *)
NewClient ==
    /\ Receives("register")
    /\ IF Registered(Sender) THEN UNCHANGED <<handler, cleanups>>
       ELSE /\ Set(Sender, NewHandler)
            /\ cleanups' = [cleanups EXCEPT ![Sender] = 0]
    /\ UNCHANGED <<up, task, alive, suspended, caps, maint, crashes, powers>>

(* deleteClient                                                            *)
DeleteClient ==
    /\ Receives("deregister")
    /\ DeleteClientbyName(Sender)
    /\ UNCHANGED <<up, task, alive, suspended, caps, maint, crashes, powers>>

(* The handlers below log an unknown client and return.                    *)
Handles(op, h) ==
    /\ Receives(op)
    /\ IF Registered(Sender) THEN Set(Sender, h) ELSE UNCHANGED handler
    /\ UNCHANGED <<up, task, alive, suspended, caps, maint, cleanups, crashes, powers>>

(* startTracking                                                           *)
StartTracking ==
    Handles("start",
            Push([HandlerStart(handler[Sender], Head(inbox).interval)
                    EXCEPT !.tracking = TRUE], "start"))

MutantStopUnanswered ==  \* no message id is kept for the answer
    Handles("stop",
            HandlerStop([handler[Sender] EXCEPT !.tracking = FALSE, !.mask = {}]))

(* stopTracking, with unsubscribeLocationSessionCb: every callback bit of  *)
(* the model belongs to the session.                                       *)
StopTracking ==
    Handles("stop",
            Push(HandlerStop([handler[Sender] EXCEPT !.tracking = FALSE, !.mask = {}]),
                 "stop"))

(* updateTrackingOptions                                                   *)
UpdateTrackingOptions ==
    Handles("update",
            Push(HandlerUpdate(handler[Sender], Head(inbox).interval), "update"))

(* updateSubscription                                                      *)
UpdateSubscription ==
    Handles("callbacks", [handler[Sender] EXCEPT !.mask = Head(inbox).mask])

Receiver ==
    \/ NewClient \/ DeleteClient \/ StartTracking \/ StopTracking
    \/ UpdateTrackingOptions \/ UpdateSubscription
-----------------------------------------------------------------------------
(* The adapters' answers to the handler of client c.                       *)

(* sendMessage: it fails if the client no longer listens, and the client   *)
(* is then purged; h is the handler otherwise.                             *)
SendOrPurge(c, m, h) ==
    IF alive[c]
    THEN /\ task' = [task EXCEPT ![c] = Append(@, m)]
         /\ Set(c, h) /\ UNCHANGED cleanups
    ELSE /\ DeleteClientbyName(c) /\ UNCHANGED task

(* onResponseCb: answers with the oldest pending message id, whatever      *)
(* request the answer is for.                                              *)
OnResponseCb(c) ==
    /\ up /\ Registered(c) /\ handler[c].answers # <<>>
    /\ Head(handler[c].answers).op # "caps"
    /\ LET h == [handler[c] EXCEPT !.answers = Tail(@)]
       IN IF h.pending = <<>> THEN Set(c, h) /\ UNCHANGED <<task, cleanups>>
          ELSE SendOrPurge(c, [op |-> "response", to |-> Head(h.pending)],
                           [h EXCEPT !.pending = Tail(@)])
    /\ UNCHANGED <<up, alive, inbox, suspended, caps, maint, crashes, powers>>

(* onCapabilitiesCallback: tells the client only what is new.  The news    *)
(* may overtake the answers of requests that wait for the modem.           *)
OnCapabilitiesCallback(c) ==
    /\ up /\ Registered(c)
    /\ \E i \in 1..Len(handler[c].answers) :
         LET a == handler[c].answers
             h == [handler[c] EXCEPT !.answers = SubSeq(a, 1, i - 1) \o SubSeq(a, i + 1, Len(a)),
                                     !.caps = a[i].value]
         IN /\ a[i].op = "caps" /\ \A j \in 1..(i - 1) : a[j].op # "caps"
            /\ IF h.caps = handler[c].caps THEN Set(c, h) /\ UNCHANGED <<task, cleanups>>
               ELSE SendOrPurge(c, [op |-> "caps"], h)
    /\ UNCHANGED <<up, alive, inbox, suspended, caps, maint, crashes, powers>>

Answer(c) == OnResponseCb(c) \/ OnCapabilitiesCallback(c)

(* broadcastCapabilities: the engine comes up with other capabilities.     *)
BroadcastCapabilities ==
    /\ up /\ caps < MaxCaps /\ caps' = caps + 1
    /\ handler' = [c \in Clients |->
                     IF Registered(c)
                     THEN [handler[c] EXCEPT !.answers =
                             Append(@, [op |-> "caps", value |-> caps + 1])]
                     ELSE NoHandler]
    /\ UNCHANGED <<up, task, alive, inbox, suspended, maint, cleanups, crashes, powers>>
-----------------------------------------------------------------------------
(* onPowerEvent                                                            *)
ForTracking(Op(_)) ==
    handler' = [c \in Clients |->
                  IF Registered(c) /\ handler[c].tracking THEN Op(handler[c]) ELSE handler[c]]

(* suspendAllTrackingSessions                                              *)
Suspend ==
    /\ up /\ powers < MaxPower /\ powers' = powers + 1
    /\ suspended' = TRUE
    /\ ForTracking(LAMBDA h : Push(HandlerStop(h), "stop"))
    /\ UNCHANGED <<up, task, alive, inbox, caps, maint, cleanups, crashes>>

(* resumeAllTrackingSessions                                               *)
Resume ==
    /\ up /\ powers < MaxPower /\ powers' = powers + 1
    /\ suspended' = FALSE
    /\ ForTracking(LAMBDA h : Push(HandlerRestart(h), "start"))
    /\ UNCHANGED <<up, task, alive, inbox, caps, maint, cleanups, crashes>>
-----------------------------------------------------------------------------
(* performMaintenance                                                      *)

(* The timer fired: the names and senders are copied under the lock.       *)
MaintenanceStart ==
    /\ up /\ maint = Idle
    /\ maint' = [left |-> {c \in Clients : Registered(c)}, purging |-> {}]
    /\ UNCHANGED <<up, handler, task, alive, inbox, suspended, caps, cleanups, crashes, powers>>

MutantPingIgnores(c) ==  \* the result of the ping is not looked at
    /\ up /\ maint.purging = {} /\ c \in maint.left
    /\ maint' = [left |-> maint.left \ {c}, purging |-> {}]
    /\ UNCHANGED <<up, handler, task, alive, inbox, suspended, caps, cleanups, crashes, powers>>

(* Pings one client.  One that does not listen will be deleted, without    *)
(* the lock: deleteClientbyName looks its handler up now.                  *)
Ping(c) ==
    /\ up /\ maint.purging = {} /\ c \in maint.left
    /\ maint' = [left |-> maint.left \ {c},
                 purging |-> IF ~alive[c] /\ Registered(c) THEN {c} ELSE {}]
    /\ UNCHANGED <<up, handler, task, alive, inbox, suspended, caps, cleanups, crashes, powers>>

(* The rest of that deletion: erase the name, clean up the handler found   *)
(* before.                                                                 *)
FinishPurge(c) ==
    /\ up /\ c \in maint.purging
    /\ maint' = [maint EXCEPT !.purging = {}]
    /\ Set(c, NoHandler)
    /\ cleanups' = [cleanups EXCEPT ![c] = @ + 1]
    /\ UNCHANGED <<up, task, alive, inbox, suspended, caps, crashes, powers>>

Maintenance(c) == Ping(c) \/ FinishPurge(c)
=============================================================================
