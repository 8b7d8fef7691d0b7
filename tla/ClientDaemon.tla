----------------------------- MODULE ClientDaemon -----------------------------
(***************************************************************************)
(* The clients (LocationClient) and the location HAL daemon (HalDaemon)    *)
(* together: position sessions across crashes of the daemon, clients that  *)
(* leave or die, power events and changes of the capabilities.             *)
(*                                                                         *)
(* The code has no defence against some of what can happen here.  Anytime  *)
(* names what may happen at any time; the rest is kept apart from what it  *)
(* would disturb:                                                          *)
(*   "call"   a call overlaps the handling of a capabilities indication    *)
(*   "power"  power events while requests are under way, requests while    *)
(*            suspended, a resume without a suspend                        *)
(*   "caps"   the capabilities change while a client has or starts a       *)
(*            session                                                      *)
(*   "start"  the daemon comes up while a client is about to register on   *)
(*            its own, so that it will register twice                      *)
(*   "purge"  another thread deletes a client performMaintenance is about  *)
(*            to delete                                                    *)
(***************************************************************************)
EXTENDS Naturals, Sequences, FiniteSets

CONSTANTS Clients, Intervals, Masks, MaxCalls, NoHandler, MaxCrashes, MaxPower,
          MaxCaps, Anytime

ASSUME ClientDaemonAssumption ==
    /\ Intervals \subseteq Nat
    /\ {} \notin Masks
    /\ MaxCalls \in Nat /\ MaxCrashes \in Nat /\ MaxPower \in Nat
    /\ MaxCaps \in Nat \ {0}
    /\ Anytime \subseteq {"call", "power", "caps", "start", "purge"}

VARIABLES alive, impl, task, app, calls, wish, listened,
          up, handler, inbox, suspended, caps, maint, cleanups, crashes, powers

Client == INSTANCE LocationClient WITH Overlap <- "call" \in Anytime
Daemon == INSTANCE HalDaemon

(* A LocHalDaemonClientHandler, see NewHandler, and the callbacks it is    *)
(* still to get from the location API.                                     *)
Operations == {"start", "stop", "update"}
AnswerMsg == [op : {"caps"}, value : 1..MaxCaps] \cup [op : {"answer"}]
HandlerType == [tracking : BOOLEAN, session : BOOLEAN, interval : Nat, engine : Nat,
                mask : Masks \cup {{}}, caps : 0..MaxCaps,
                pending : Seq(Operations), answers : Seq(AnswerMsg)]
ASSUME HandlerAssumption == NoHandler \notin HandlerType

vars == <<alive, impl, task, app, calls, wish, listened,
          up, handler, inbox, suspended, caps, maint, cleanups, crashes, powers>>

Init == Client!ClientInit /\ Daemon!DaemonInit

daemonOnly == <<handler, suspended, caps, maint, cleanups, crashes, powers>>
clientOnly == <<impl, app, calls, wish, listened>>

(* Nothing is on its way between client c and its session.                 *)
Quiet(c) ==
    /\ task[c] = <<>> /\ app[c] = <<>>
    /\ \A i \in 1..Len(inbox) : inbox[i].from # c
    /\ handler[c] # NoHandler => handler[c].answers = <<>>
QuietPower == "power" \in Anytime \/ (~suspended /\ \A c \in Clients : Quiet(c))
CapsComing(c) ==
    /\ impl[c].reg /\ handler[c] # NoHandler
    /\ \E i \in 1..Len(handler[c].answers) : handler[c].answers[i].op = "caps"
NoSession(c) == ~impl[c].session /\ (handler[c] # NoHandler => ~handler[c].session)

AppStep(c) ==
    /\ "power" \in Anytime \/ ~suspended
    /\ "caps" \in Anytime \/ ~CapsComing(c)
    /\ Client!AppStep(c)
    /\ UNCHANGED daemonOnly
TaskStep(c) == Client!TaskStep(c) /\ UNCHANGED daemonOnly

ToRegister(c) == \E i \in 1..Len(task[c]) : task[c][i].op = "register"
DaemonStart ==
    /\ "start" \in Anytime \/ (\A c \in Clients : ~ToRegister(c))
    /\ Daemon!DaemonStart /\ UNCHANGED clientOnly
DaemonCrash == Daemon!DaemonCrash /\ UNCHANGED clientOnly
PowerEvent ==
    /\ \/ QuietPower /\ Daemon!Suspend
       \/ ("power" \in Anytime \/ suspended) /\ Daemon!Resume
    /\ UNCHANGED clientOnly
NewCapabilities ==
    /\ "caps" \in Anytime \/ (\A c \in Clients : NoSession(c) /\ Quiet(c))
    /\ Daemon!BroadcastCapabilities
    /\ UNCHANGED clientOnly

MayPurge == "purge" \in Anytime \/ maint.purging = {}
Receiver == MayPurge /\ Daemon!Receiver /\ UNCHANGED clientOnly
Answer(c) == MayPurge /\ Daemon!Answer(c) /\ UNCHANGED clientOnly
MaintenanceStart == Daemon!MaintenanceStart /\ UNCHANGED clientOnly
Maintenance(c) == Daemon!Maintenance(c) /\ UNCHANGED clientOnly

Next ==
    \/ \E c \in Clients : AppStep(c) \/ TaskStep(c) \/ Answer(c) \/ Maintenance(c)
    \/ DaemonStart \/ DaemonCrash \/ PowerEvent \/ NewCapabilities \/ Receiver \/ MaintenanceStart

Spec == Init /\ [][Next]_vars

(* The threads of both sides are scheduled, init restarts the daemon, the  *)
(* maintenance timer fires again and again.  Applications, power events,   *)
(* crashes and capability changes owe nothing.                             *)
Fairness ==
    /\ WF_vars(DaemonStart)
    /\ WF_vars(Receiver) /\ WF_vars(MaintenanceStart)
    /\ \A c \in Clients :
         /\ WF_vars(TaskStep(c)) /\ WF_vars(Answer(c)) /\ WF_vars(Maintenance(c))
         /\ WF_vars(Client!PostStartTracking(c) /\ UNCHANGED daemonOnly)
FairSpec == Spec /\ Fairness
-----------------------------------------------------------------------------
(* The state keeps its types.  A request that reaches the daemon has an    *)
(* interval to track with: a passive session is never sent as interval 0.  *)
TypeOK ==
    /\ alive \in [Clients -> BOOLEAN] /\ up \in BOOLEAN
    /\ impl \in [Clients -> Client!ImplType]
    /\ task \in [Clients -> Seq(Client!TaskMsg)] /\ inbox \in Seq(Client!InboxMsg)
    /\ app \in [Clients -> {<<>>} \cup {<<i>> : i \in Intervals}]
    /\ wish \in [Clients -> {<<>>} \cup {<<i>> : i \in Intervals}]
    /\ listened \in [Clients -> BOOLEAN]
    /\ handler \in [Clients -> HandlerType \cup {NoHandler}]
    /\ calls \in [Clients -> 0..MaxCalls]
    /\ suspended \in BOOLEAN /\ caps \in 1..MaxCaps
    /\ crashes \in 0..MaxCrashes /\ powers \in 0..MaxPower
    /\ maint \in [left : SUBSET Clients, purging : SUBSET Clients]
    /\ cleanups \in [Clients -> Nat]

(* A handler is cleaned up at most once, because deleteClientbyName looks  *)
(* it up, erases it and cleans it up under one lock: "the caller of this   *)
(* function already holds the lock" (LocHalDaemonClientHandler.cpp:376).   *)
(* The second call would find no location API and delete an object the     *)
(* first one gave to the destroy callback.                                 *)
CleanedUpOnce == \A c \in Clients : cleanups[c] <= 1

(* There is one pending message id for every answer to come: onResponseCb  *)
(* takes the oldest id of mPendingMessages for whatever was answered, so   *)
(* an operation that pushes an id without reaching the location API leaves *)
(* an id behind that every later answer is told by, and one that pushes    *)
(* none leaves a request without a response.  Whether the id is that of    *)
(* the request answered depends on the order of the answers, which the     *)
(* adapter does not keep.                                                  *)
PendingInStep ==
    \A c \in Clients : handler[c] # NoHandler =>
        Len(handler[c].pending) =
            Cardinality({i \in 1..Len(handler[c].answers) : handler[c].answers[i].op # "caps"})

Subscribed(c) == impl[c].session => handler[c].mask = impl[c].mask

(* Once everything sent has arrived, a live client and the daemon have the *)
(* session the application asked for last, whatever crashes and restarts   *)
(* came between the calls: the daemon tracks for the client exactly if     *)
(* that session is active, and unless the system is suspended the engine   *)
(* runs it, at the interval asked for as far as it is supported.  If it    *)
(* has never listened passively, the daemon sends it what its application  *)
(* registered last; the STOP_TRACKING that makes a session passive ends    *)
(* its subscription too.                                                   *)
SessionAgrees ==
    \A c \in Clients : (up /\ alive[c] /\ Quiet(c)) =>
        LET h == handler[c]
            active == wish[c] # <<>> /\ wish[c] # <<0>>
        IN /\ h # NoHandler /\ impl[c].reg
           /\ wish[c] = IF impl[c].session THEN <<impl[c].interval>> ELSE <<>>
           /\ h.tracking <=> active
           /\ h.session <=> (active /\ ~suspended)
           /\ active => h.engine = Daemon!GetSupportedTbf(wish[c][1])
           /\ ~listened[c] => Subscribed(c)

(* The daemon does not keep the handler of a client that is gone, whether  *)
(* it deregistered, left before its registration was confirmed, or died.   *)
DepartedIsPurged ==
    \A c \in Clients : (~alive[c]) ~> (handler[c] = NoHandler)

(* An application that starts an active session is told the outcome: its   *)
(* response callback does not stay pending, even if the daemon crashed     *)
(* with the request, unless the session is stopped or made passive.        *)
StartIsAnswered ==
    \A c \in Clients :
        (impl[c].pending /\ impl[c].session /\ impl[c].interval # 0) ~>
        (~impl[c].pending \/ ~impl[c].session \/ impl[c].interval = 0)
=============================================================================
