--------------------------- MODULE LocationClient ---------------------------
(***************************************************************************)
(* The client library of the location HAL daemon, LocationClientApiImpl:   *)
(* position sessions of one application process.  The application's calls  *)
(* and the daemon's messages both become messages of the library's own     *)
(* message task (mMsgTask) and are processed there one by one.             *)
(*                                                                         *)
(* A session is described by its interval (minDistance is 0 throughout);   *)
(* interval 0 is a passive session, which only listens to the reports of   *)
(* other clients.  The callbacks of a session are the bits of a mask.  The *)
(* socket and the listener thread that fills task[c] are one FIFO queue.   *)
(* Batching, geofences and the one-shot queries are left out.              *)
(***************************************************************************)
EXTENDS Naturals, Sequences

CONSTANTS
    Clients,    \* the client processes
    Intervals,  \* the intervals an application asks for, 0 for passive
    Masks,      \* the callback masks an application registers, never empty
    MaxCalls,   \* bound: calls of one application
    Overlap     \* an application may call while the client is registering

VARIABLES
    alive,  \* the process exists and listens on its socket
    impl,   \* the fields of LocationClientApiImpl, see ImplType
    task,   \* the queue of mMsgTask
    app,    \* the interval startPositionSession has yet to post, or <<>>
    calls,  \* number of calls made
    wish,   \* history: the interval of the session asked for last, or <<>>
    listened,  \* history: a passive session was asked for
    inbox,  \* messages on their way to the daemon, in order
    up      \* the daemon listens on its socket

appVars == <<app, calls, wish, listened>>

Passive == 0
NoMask == {}

ImplType == [reg : BOOLEAN,                  \* mHalRegistered
             session : BOOLEAN,              \* mSessionId # INVALID
             interval : Intervals \cup {0},  \* mLocationOptions
             mask : Masks \cup {NoMask},     \* mCallbacksMask
             pending : BOOLEAN]              \* mPositionSessionResponseCbPending

(* The messages of mMsgTask: those of the application, of the daemon, and  *)
(* the library's own.                                                      *)
TaskMsg == [op : {"register", "stop", "destroy", "caps", "ready"}]
           \cup [op : {"callbacks"}, mask : Masks]
           \cup [op : {"start"}, interval : Intervals \cup {0}]
           \cup [op : {"response"}, to : {"start", "stop", "update"}]

(* The messages a client sends to the daemon.                              *)
InboxMsg == [from : Clients, op : {"register", "deregister", "stop"}]
            \cup [from : Clients, op : {"callbacks"}, mask : Masks]
            \cup [from : Clients, op : {"start", "update"},
                  interval : Intervals \ {0}]

NewImpl == [reg |-> FALSE, session |-> FALSE, interval |-> Passive,
            mask |-> NoMask, pending |-> FALSE]

(* LocationClientApiImpl(): once the listener thread listens it posts the  *)
(* registration (IpcListener::onListenerReady).                            *)
ClientInit ==
    /\ alive = [c \in Clients |-> TRUE]
    /\ impl = [c \in Clients |-> NewImpl]
    /\ task = [c \in Clients |-> <<[op |-> "register"]>>]
    /\ app = [c \in Clients |-> <<>>]
    /\ calls = [c \in Clients |-> 0]
    /\ wish = [c \in Clients |-> <<>>]
    /\ listened = [c \in Clients |-> FALSE]

(* sendMessage: a datagram to a daemon that does not run is lost, and the  *)
(* result is only logged.                                                  *)
Send(msgs) == inbox' = IF up THEN inbox \o msgs ELSE inbox
Post(c, m) == task' = [task EXCEPT ![c] = Append(@, m)]

(* A capabilities indication is queued.                                    *)
Registering(c) == \E i \in 1..Len(task[c]) : task[c][i].op = "caps"
MayCall(c) == alive[c] /\ (Overlap \/ ~Registering(c))
-----------------------------------------------------------------------------
(* What the application does.                                              *)

(* LocationClientApi::startPositionSession posts the callbacks, then the   *)
(* request; the listener thread may post in between.                       *)
StartPositionSession(c, interval, mask) ==
    /\ MayCall(c) /\ app[c] = <<>> /\ calls[c] < MaxCalls
    /\ calls' = [calls EXCEPT ![c] = @ + 1]
    /\ Post(c, [op |-> "callbacks", mask |-> mask])
    /\ app' = [app EXCEPT ![c] = <<interval>>]
    /\ UNCHANGED <<alive, impl, wish, listened, inbox, up>>

PostStartTracking(c) ==
    /\ MayCall(c) /\ app[c] # <<>>
    /\ Post(c, [op |-> "start", interval |-> Head(app[c])])
    /\ app' = [app EXCEPT ![c] = <<>>]
    /\ wish' = [wish EXCEPT ![c] = app[c]]
    /\ listened' = [listened EXCEPT ![c] = @ \/ Head(app[c]) = Passive]
    /\ UNCHANGED <<alive, impl, calls, inbox, up>>

(* LocationClientApi::stopPositionSession                                  *)
StopPositionSession(c) ==
    /\ MayCall(c) /\ app[c] = <<>> /\ calls[c] < MaxCalls
    /\ calls' = [calls EXCEPT ![c] = @ + 1]
    /\ Post(c, [op |-> "stop"])
    /\ wish' = [wish EXCEPT ![c] = <<>>]
    /\ UNCHANGED <<alive, impl, app, listened, inbox, up>>

(* LocationClientApiImpl::destroy                                          *)
Destroy(c) ==
    /\ alive[c] /\ app[c] = <<>> /\ calls[c] < MaxCalls
    /\ calls' = [calls EXCEPT ![c] = MaxCalls]
    /\ Post(c, [op |-> "destroy"])
    /\ UNCHANGED <<alive, impl, app, wish, listened, inbox, up>>

Gone(c) ==
    /\ alive' = [alive EXCEPT ![c] = FALSE]
    /\ task' = [task EXCEPT ![c] = <<>>]
    /\ app' = [app EXCEPT ![c] = <<>>]
    /\ impl' = [impl EXCEPT ![c] = NewImpl]
    /\ wish' = [wish EXCEPT ![c] = <<>>]
    /\ listened' = [listened EXCEPT ![c] = FALSE]

(* The process ends without saying so.                                     *)
ClientDies(c) ==
    /\ alive[c] /\ Gone(c)
    /\ UNCHANGED <<calls, inbox, up>>
-----------------------------------------------------------------------------
(* The message task.  Each action processes the message at the head.       *)

Processes(c, op) ==
    /\ alive[c] /\ task[c] # <<>> /\ Head(task[c]).op = op
Pop(c) == task' = [task EXCEPT ![c] = Tail(@)]
Update(c, r) == impl' = [impl EXCEPT ![c] = r]

(* ClientRegisterReq                                                       *)
ClientRegisterReq(c) ==
    /\ Processes(c, "register") /\ Pop(c)
    /\ Send(<<[from |-> c, op |-> "register"]>>)
    /\ UNCHANGED <<alive, impl, appVars, up>>

(* UpdateCallbacksReq: sends the mask only when it changed, and only to a  *)
(* daemon it is registered with.                                           *)
UpdateCallbacksReq(c) ==
    /\ Processes(c, "callbacks") /\ Pop(c)
    /\ LET m == Head(task[c]).mask
           changed == m # impl[c].mask
       IN /\ Update(c, [impl[c] EXCEPT !.pending = TRUE, !.mask = m])
          /\ Send(IF changed /\ impl[c].reg
                  THEN <<[from |-> c, op |-> "callbacks", mask |-> m]>> ELSE <<>>)
    /\ UNCHANGED <<alive, appVars, up>>

MutantUpdatePassive(c, old, new) ==  \* a passive session is sent as an interval
    [from |-> c, op |-> IF old = Passive THEN "start" ELSE "update", interval |-> new]

(* updateTrackingOptionsSync: the message that takes a session from one    *)
(* interval to another; to or from passive, the daemon's session is        *)
(* stopped or started.                                                     *)
UpdateMessage(c, old, new) ==
    IF new = Passive THEN [from |-> c, op |-> "stop"]
    ELSE [from |-> c, op |-> IF old = Passive THEN "start" ELSE "update", interval |-> new]

(* StartTrackingReq                                                        *)
StartTrackingReq(c) ==
    /\ Processes(c, "start") /\ Pop(c)
    /\ LET i == Head(task[c]).interval
           r == impl[c]
           s == [r EXCEPT !.interval = i, !.session = TRUE]
           kept == r.reg /\ r.session /\ i = r.interval
       IN /\ Update(c, IF kept THEN [r EXCEPT !.pending = FALSE] ELSE s)
          /\ Send(IF ~r.reg \/ kept \/ (~r.session /\ i = Passive) THEN <<>>
                  ELSE IF ~r.session
                  THEN <<[from |-> c, op |-> "start", interval |-> i]>>
                  ELSE <<UpdateMessage(c, r.interval, i)>>)
    /\ UNCHANGED <<alive, appVars, up>>

(* StopTrackingReq                                                         *)
StopTrackingReq(c) ==
    /\ Processes(c, "stop") /\ Pop(c)
    /\ LET r == impl[c]
       IN /\ Update(c, IF r.session
                       THEN [r EXCEPT !.session = FALSE, !.interval = Passive, !.mask = NoMask]
                       ELSE r)
          /\ Send(IF r.session /\ r.reg /\ r.interval # Passive
                  THEN <<[from |-> c, op |-> "stop"]>> ELSE <<>>)
    /\ UNCHANGED <<alive, appVars, up>>

(* DestroyReq: deregisters only if the registration was confirmed.         *)
DestroyReq(c) ==
    /\ Processes(c, "destroy")
    /\ Send(IF impl[c].reg THEN <<[from |-> c, op |-> "deregister"]>> ELSE <<>>)
    /\ Gone(c)
    /\ UNCHANGED <<calls, up>>

MutantCapabilitiesForget(c) ==  \* the session is not started again
    /\ Processes(c, "caps") /\ Pop(c)
    /\ Update(c, [impl[c] EXCEPT !.reg = TRUE, !.session = FALSE])
    /\ Send(IF impl[c].mask # NoMask
            THEN <<[from |-> c, op |-> "callbacks", mask |-> impl[c].mask]>> ELSE <<>>)
    /\ UNCHANGED <<alive, appVars, up>>

(* capabilitesCallback, the answer to a registration and the news of a     *)
(* changed capability: a session is started again, by a new message at the *)
(* end of the queue.                                                       *)
CapabilitiesCallback(c) ==
    /\ Processes(c, "caps")
    /\ LET r == impl[c]
       IN /\ Update(c, [r EXCEPT !.reg = TRUE, !.session = FALSE])
          /\ task' = [task EXCEPT ![c] = Tail(@) \o
                        (IF r.session THEN <<[op |-> "start", interval |-> r.interval]>>
                                      ELSE <<>>)]
          /\ Send(IF r.mask # NoMask
                  THEN <<[from |-> c, op |-> "callbacks", mask |-> r.mask]>> ELSE <<>>)
    /\ UNCHANGED <<alive, appVars, up>>

(* E_LOCAPI_HAL_READY: the daemon restarted; register again.               *)
HalReady(c) ==
    /\ Processes(c, "ready")
    /\ Update(c, [impl[c] EXCEPT !.reg = FALSE])
    /\ task' = [task EXCEPT ![c] = Append(Tail(@), [op |-> "register"])]
    /\ UNCHANGED <<alive, appVars, inbox, up>>

MutantResponseInverted(c) ==  \* only a stop ends the wait
    /\ Processes(c, "response") /\ Pop(c)
    /\ Update(c, [impl[c] EXCEPT !.pending = @ /\ Head(task[c]).to # "stop"])
    /\ UNCHANGED <<alive, appVars, inbox, up>>

(* The response to a request: invokePositionSessionResponseCb, except for  *)
(* a stop.                                                                 *)
Response(c) ==
    /\ Processes(c, "response") /\ Pop(c)
    /\ Update(c, [impl[c] EXCEPT !.pending = @ /\ Head(task[c]).to = "stop"])
    /\ UNCHANGED <<alive, appVars, inbox, up>>

TaskStep(c) ==
    \/ ClientRegisterReq(c) \/ UpdateCallbacksReq(c) \/ StartTrackingReq(c)
    \/ StopTrackingReq(c) \/ DestroyReq(c)
    \/ CapabilitiesCallback(c) \/ HalReady(c) \/ Response(c)

AppStep(c) ==
    \/ \E i \in Intervals, m \in Masks : StartPositionSession(c, i, m)
    \/ PostStartTracking(c)
    \/ StopPositionSession(c)
    \/ Destroy(c)
    \/ ClientDies(c)
=============================================================================
