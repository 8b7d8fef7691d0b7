-------------------------------- MODULE Agps --------------------------------
(***************************************************************************)
(* The AGPS data-connection manager (gps/gnss/Agps.cpp) and the part of    *)
(* GnssAdapter.cpp that feeds it.  The modem asks for a data connection    *)
(* (an "ATL") under a connection handle; one state machine per network     *)
(* interface merges the requests of all handles into one connection that   *)
(* the Android framework opens and closes.                                 *)
(*                                                                         *)
(* Modem and framework calls are posted to the adapter's message queue and *)
(* handled there one at a time and in order (module MsgTask).  Two calls   *)
(* bypass that order: dataConnOpenCommand reports an unusable APN to the   *)
(* state machine on the framework's own thread, and where libloc_api_wds   *)
(* is present a successful open waits for a QMI WDS lookup whose answer    *)
(* comes back at the end of the queue.                                     *)
(*                                                                         *)
(* The first of them takes no lock, so it meets handlers half way.  Each   *)
(* event handler of the machine is a switch on mState and a branch, hence  *)
(* two steps here: the thread reads the state (Enter, FwOpensBadApn), and  *)
(* later runs the branch it chose then.  What two threads do to one        *)
(* std::list within their branches is beyond the model.                    *)
(***************************************************************************)
EXTENDS Sequences, Naturals, FiniteSets

CONSTANTS
    Handles,   \* the modem's connection handles
    AgpsTypes, \* the AGpsExtType values the modem uses, see NifOf
    UsePdnES,  \* USE_EMERGENCY_PDN_FOR_EMERGENCY_SUPL # 0 in gps.conf
    UseWds,    \* libloc_api_wds.so provides getPdnType
    BadApn,    \* the framework may report an APN that fails the length check
    MaxQueue   \* bound: no new request and no lost connection beyond this
               \* many queued messages or commands, nor beyond as many lookups
               \* a new connection

ASSUME AgpsAssumption ==
    /\ AgpsTypes \subseteq {"SUPL", "SUPL_ES", "WWAN_ANY"}
    /\ UsePdnES \in BOOLEAN /\ UseWds \in BOOLEAN /\ BadApn \in BOOLEAN
    /\ MaxQueue \in Nat

(* mAgnssNif and mInternetNif.                                             *)
Nifs == {"AGNSS", "INTERNET"}

VARIABLES
    mState,      \* AgpsState of each machine; "NULL" before it is created
    mAgpsType,   \* setType: the type of the latest request
    active,      \* mSubscriberList, the part with ~mIsInactive
    inactive,    \* mSubscriberList, the part with mIsInactive
    mQ,          \* the adapter's message queue
    at,          \* adapter thread: the states it read, inside a handler
    wds,         \* WDS lookups under way, per machine, oldest first
    fwCmds,      \* framework: commands of mFrameworkStatusV4Cb to carry out
    fwConn,      \* framework: is the data connection up
    fwBad,       \* framework: the state its thread read, while it reports
                 \* an APN the adapter refuses
    modem,       \* modem: what it believes of each handle
    overlap      \* history: both threads have been inside handlers at once

smVars == <<mState, mAgpsType, active, inactive>>
vars == <<mState, mAgpsType, active, inactive, mQ, at, wds, fwCmds, fwConn,
          fwBad, modem, overlap>>

AllTypes == {"SUPL", "SUPL_ES", "WWAN_ANY"}
SmStates == {"NULL", "RELEASED", "PENDING", "ACQUIRED", "RELEASING"}

(* A thread outside the machines' handlers has read no state.              *)
Readings == SmStates \cup {"none"}
Outside == [n \in Nifs |-> "none"]

ModemStates == {"idle", "requested", "granted", "closing"}
Commands == [cmd : {"REQUEST", "RELEASE"}, t : AllTypes]

(* What is posted to the adapter: the modem's calls and the framework's.   *)
AtlMsgs == [kind : {"requestATL"}, h : Handles, t : AllTypes]
           \cup [kind : {"releaseATL"}, h : Handles]
ConnMsgs == [kind : {"openSuccess", "atlPdn", "openFailed", "closed"}, t : AllTypes]

(* getAgpsStateMachine: which machine serves a type.                       *)
NifOf(t) == IF t = "WWAN_ANY" THEN "INTERNET" ELSE "AGNSS"

Subs(n) == active[n] \cup inactive[n]

(* releaseATL looks the handle up in mAgnssNif first.                      *)
SmOf(h) == IF h \in Subs("AGNSS") THEN "AGNSS" ELSE "INTERNET"

Init == /\ mState = [n \in Nifs |-> "NULL"]
        /\ mAgpsType = [n \in Nifs |-> IF n = "AGNSS" THEN "SUPL" ELSE "WWAN_ANY"]
        /\ active = [n \in Nifs |-> {}]
        /\ inactive = [n \in Nifs |-> {}]
        /\ mQ = <<>>
        /\ at = Outside
        /\ wds = [n \in Nifs |-> <<>>]
        /\ fwCmds = [n \in Nifs |-> <<>>]
        /\ fwConn = [n \in Nifs |-> FALSE]
        /\ fwBad = Outside
        /\ modem = [h \in Handles |-> "idle"]
        /\ overlap = FALSE

-----------------------------------------------------------------------------
(* The modem (external).  It uses a handle for one connection at a time: a *)
(* new request only after the last one was denied or closed.               *)

(* What an ATL status indication does to the modem's view of a handle.     *)
AfterStatus(event, view) ==
    IF event = "GRANTED" THEN IF view = "requested" THEN "granted" ELSE view
    ELSE "idle"

(* GnssAdapter::requestATL, called on the QMI thread, posts                *)
(* AgpsMsgRequestATL.                                                      *)
ModemRequests(h, t) ==
    /\ modem[h] = "idle"
    /\ Len(mQ) < MaxQueue /\ \A n \in Nifs : Len(fwCmds[n]) < MaxQueue
    /\ modem' = [modem EXCEPT ![h] = "requested"]
    /\ mQ' = Append(mQ, [kind |-> "requestATL", h |-> h, t |-> t])
    /\ UNCHANGED <<smVars, at, wds, fwCmds, fwConn, fwBad, overlap>>

(* GnssAdapter::releaseATL posts AgpsMsgReleaseATL.                        *)
ModemReleases(h) ==
    /\ modem[h] \in {"requested", "granted"}
    /\ modem' = [modem EXCEPT ![h] = "closing"]
    /\ mQ' = Append(mQ, [kind |-> "releaseATL", h |-> h])
    /\ UNCHANGED <<smVars, at, wds, fwCmds, fwConn, fwBad, overlap>>

-----------------------------------------------------------------------------
(* The state machine.                                                      *)

(* notifyAllSubscribers / notifyEventToSubscriber: the status callbacks to *)
(* the handles in hs.                                                      *)
Notify(event, hs) ==
    modem' = [h \in Handles |->
                IF h \in hs THEN AfterStatus(event, modem[h]) ELSE modem[h]]

(* requestOrReleaseDataConn: the command names the machine's current type. *)
Command(n, c, t) ==
    fwCmds' = [fwCmds EXCEPT ![n] = Append(@, [cmd |-> c, t |-> t])]

(* addSubscriber: a handle already in the list is left as it is.           *)
AddSubscriber(n, h) ==
    /\ active' = [active EXCEPT ![n] = IF h \in Subs(n) THEN @ ELSE @ \cup {h}]
    /\ UNCHANGED inactive

(* processAgpsEventSubscribe, on the state st that was read.               *)
Subscribe(st, n, h, t) ==
    \/ /\ st = "RELEASED"
       /\ AddSubscriber(n, h)
       /\ Command(n, "REQUEST", t)
       /\ mState' = [mState EXCEPT ![n] = "PENDING"]
       /\ UNCHANGED modem
    \/ /\ st \in {"PENDING", "RELEASING"}
       /\ AddSubscriber(n, h)
       /\ UNCHANGED <<mState, fwCmds, modem>>
    \/ /\ st = "ACQUIRED"
       /\ Notify("GRANTED", {h})
       /\ AddSubscriber(n, h)
       /\ UNCHANGED <<mState, fwCmds>>

(* Mutant of Unsubscribe: the connection is kept although the last active  *)
(* subscriber has gone.                                                    *)
MutantUnsubscribeKeeps(st, n, h) ==
    /\ active' = [active EXCEPT ![n] = @ \ {h}]
    /\ inactive' = [inactive EXCEPT ![n] = @ \cup {h}]
    /\ UNCHANGED <<mState, fwCmds, modem>>

(* Mutant of Unsubscribe: everybody is told at once, and the framework is  *)
(* not asked to close.                                                     *)
MutantUnsubscribeForgets(st, n, h) ==
    IF active[n] \ {h} = {}
    THEN /\ Notify("RELEASED", Subs(n))
         /\ mState' = [mState EXCEPT ![n] = "RELEASED"]
         /\ active' = [active EXCEPT ![n] = {}]
         /\ inactive' = [inactive EXCEPT ![n] = {}]
         /\ UNCHANGED fwCmds
    ELSE MutantUnsubscribeKeeps(st, n, h)

(* processAgpsEventUnsubscribe.  Every subscriber requestATL creates waits *)
(* for the close (mWaitForCloseComplete), so it only becomes inactive; it  *)
(* is notified and deleted when the connection has been closed.  In        *)
(* RELEASED it is notified and stays in the list.                          *)
Unsubscribe(st, n, h) ==
    \/ /\ st = "RELEASED"
       /\ Notify("RELEASED", {h})
       /\ UNCHANGED <<mState, active, inactive, fwCmds>>
    \/ /\ st \in {"PENDING", "ACQUIRED", "RELEASING"}
       /\ active' = [active EXCEPT ![n] = @ \ {h}]
       /\ inactive' = [inactive EXCEPT ![n] = @ \cup {h}]
       /\ IF st # "RELEASING" /\ active[n] \ {h} = {}
          THEN /\ mState' = [mState EXCEPT ![n] = "RELEASING"]
               /\ Command(n, "RELEASE", mAgpsType[n])
          ELSE UNCHANGED <<mState, fwCmds>>
       /\ UNCHANGED modem

(* processAgpsEventGranted: unexpected outside PENDING.                    *)
Granted(st, n) ==
    IF st = "PENDING"
    THEN /\ mState' = [mState EXCEPT ![n] = "ACQUIRED"]
         /\ Notify("GRANTED", active[n])
         /\ UNCHANGED <<active, inactive, fwCmds>>
    ELSE UNCHANGED <<mState, active, inactive, fwCmds, modem>>

(* Mutant of DropAll: the subscribers are deleted untold.                  *)
MutantDropAllSilent(n, event) ==
    /\ mState' = [mState EXCEPT ![n] = "RELEASED"]
    /\ active' = [active EXCEPT ![n] = {}]
    /\ inactive' = [inactive EXCEPT ![n] = {}]
    /\ UNCHANGED <<fwCmds, modem>>

(* All subscribers are told and deleted; the machine is RELEASED.          *)
DropAll(n, event) ==
    /\ mState' = [mState EXCEPT ![n] = "RELEASED"]
    /\ Notify(event, Subs(n))
    /\ active' = [active EXCEPT ![n] = {}]
    /\ inactive' = [inactive EXCEPT ![n] = {}]
    /\ UNCHANGED fwCmds

(* Mutant of CloseDone: the handles that joined while the connection was   *)
(* closing are forgotten in the list.                                      *)
MutantCloseDoneNoRequest(n) ==
    /\ Notify("RELEASED", inactive[n])
    /\ inactive' = [inactive EXCEPT ![n] = {}]
    /\ mState' = [mState EXCEPT ![n] = "RELEASED"]
    /\ UNCHANGED <<active, fwCmds>>
(* Mutant of CloseDone: the machine is put into AGPS_STATE_INVALID.        *)
MutantCloseDoneInvalid(n) ==
    /\ Notify("RELEASED", inactive[n])
    /\ inactive' = [inactive EXCEPT ![n] = {}]
    /\ mState' = [mState EXCEPT ![n] = "INVALID"]
    /\ UNCHANGED <<active, fwCmds>>

(* RELEASING ends: the inactive subscribers are told and deleted; those    *)
(* that joined meanwhile need a new connection.                            *)
CloseDone(n) ==
    /\ Notify("RELEASED", inactive[n])
    /\ inactive' = [inactive EXCEPT ![n] = {}]
    /\ UNCHANGED active
    /\ IF active[n] # {}
       THEN /\ mState' = [mState EXCEPT ![n] = "PENDING"]
            /\ Command(n, "REQUEST", mAgpsType[n])
       ELSE /\ mState' = [mState EXCEPT ![n] = "RELEASED"]
            /\ UNCHANGED fwCmds

(* Mutant of Released: a close nobody asked for is ignored.                *)
MutantReleasedAsked(st, n) ==
    \/ st = "RELEASING" /\ CloseDone(n)
    \/ /\ st # "RELEASING"
       /\ UNCHANGED <<mState, active, inactive, fwCmds, modem>>

(* processAgpsEventReleased.  RELEASED and PENDING ignore it.              *)
Released(st, n) ==
    \/ st = "ACQUIRED" /\ DropAll(n, "RELEASED")
    \/ st = "RELEASING" /\ CloseDone(n)
    \/ /\ st \in {"RELEASED", "PENDING"}
       /\ UNCHANGED <<mState, active, inactive, fwCmds, modem>>

(* processAgpsEventDenied.  RELEASED and ACQUIRED ignore it.               *)
Denied(st, n) ==
    \/ st = "PENDING" /\ DropAll(n, "DENIED")
    \/ st = "RELEASING" /\ CloseDone(n)
    \/ /\ st \in {"RELEASED", "ACQUIRED"}
       /\ UNCHANGED <<mState, active, inactive, fwCmds, modem>>

-----------------------------------------------------------------------------
(* AgpsManager, on the adapter thread: one message at a time.              *)

(* createAgpsStateMachines, posted by initAgpsCommand (the masks decide    *)
(* which of the two are made; one that exists is kept).                    *)
CreateAgpsStateMachines(ns) ==
    /\ at = Outside
    /\ \E n \in ns : mState[n] = "NULL"
    /\ mState' = [n \in Nifs |->
                    IF n \in ns /\ mState[n] = "NULL" THEN "RELEASED" ELSE mState[n]]
    /\ UNCHANGED <<mAgpsType, active, inactive, mQ, at, wds, fwCmds, fwConn,
                   fwBad, modem, overlap>>

(* The adapter thread takes the next message and reads the state its event *)
(* handler switches on.                                                    *)
Enter ==
    /\ mQ # <<>> /\ at = Outside
    /\ at' = mState
    /\ overlap' = (overlap \/ fwBad # Outside)
    /\ UNCHANGED <<smVars, mQ, wds, fwCmds, fwConn, fwBad, modem>>

(* The handler of a message of this kind runs to its end.                  *)
Handle(kind) ==
    /\ mQ # <<>> /\ Head(mQ).kind = kind
    /\ at # Outside
    /\ mQ' = Tail(mQ)
    /\ at' = Outside

EffectiveType(t) == IF ~UsePdnES /\ t = "SUPL_ES" THEN "SUPL" ELSE t

(* requestATL: with no machine for the type the request is denied at once. *)
RequestATL ==
    LET m == Head(mQ)
        t == EffectiveType(m.t)
        n == NifOf(t)
    IN  /\ Handle("requestATL")
        /\ IF at[n] = "NULL"
           THEN /\ Notify("DENIED", {m.h})
                /\ UNCHANGED <<smVars, fwCmds>>
           ELSE /\ mAgpsType' = [mAgpsType EXCEPT ![n] = t]
                /\ Subscribe(at[n], n, m.h, t)
        /\ UNCHANGED <<wds, fwConn, fwBad, overlap>>

(* releaseATL: a handle in no list is logged and dropped, with no answer.  *)
ReleaseATL ==
    LET m == Head(mQ)
        n == SmOf(m.h)
    IN  /\ Handle("releaseATL")
        /\ IF m.h \in Subs(n)
           THEN Unsubscribe(at[n], n, m.h)
           ELSE UNCHANGED <<mState, active, inactive, fwCmds, modem>>
        /\ UNCHANGED <<mAgpsType, wds, fwConn, fwBad, overlap>>

(* AgpsMsgAtlOpenSuccess::proc: straight to reportAtlOpenSuccess, or a WDS *)
(* lookup first.                                                           *)
AtlOpenSuccess ==
    LET m == Head(mQ)
        n == NifOf(m.t)
    IN  /\ Handle("openSuccess")
        /\ IF UseWds
           THEN /\ wds' = [wds EXCEPT ![n] = Append(@, m.t)]
                /\ UNCHANGED <<mState, active, inactive, fwCmds, modem>>
           ELSE Granted(at[n], n) /\ UNCHANGED wds
        /\ UNCHANGED <<mAgpsType, fwConn, fwBad, overlap>>

(* reportPdnTypeFromWds, on the WDS client's thread: post MsgReportAtlPdn. *)
WdsAnswers(n) ==
    /\ wds[n] # <<>>
    /\ wds' = [wds EXCEPT ![n] = Tail(@)]
    /\ mQ' = Append(mQ, [kind |-> "atlPdn", t |-> Head(wds[n])])
    /\ UNCHANGED <<smVars, at, fwCmds, fwConn, fwBad, modem, overlap>>

(* MsgReportAtlPdn::proc -> reportAtlOpenSuccess.                          *)
AtlPdn ==
    LET n == NifOf(Head(mQ).t) IN
    /\ Handle("atlPdn")
    /\ Granted(at[n], n)
    /\ UNCHANGED <<mAgpsType, wds, fwConn, fwBad, overlap>>

(* AgpsMsgAtlOpenFailed::proc -> reportAtlOpenFailed.                      *)
AtlOpenFailed ==
    LET n == NifOf(Head(mQ).t) IN
    /\ Handle("openFailed")
    /\ Denied(at[n], n)
    /\ UNCHANGED <<mAgpsType, wds, fwConn, fwBad, overlap>>

(* AgpsMsgAtlClosed::proc -> reportAtlClosed.                              *)
AtlClosed ==
    LET n == NifOf(Head(mQ).t) IN
    /\ Handle("closed")
    /\ Released(at[n], n)
    /\ UNCHANGED <<mAgpsType, wds, fwConn, fwBad, overlap>>

-----------------------------------------------------------------------------
(* The framework (external): it carries out the commands for an interface  *)
(* in order, reports each result through the data-connection commands of   *)
(* GnssAdapter, and may lose a connection at any time.                     *)
FwCommand(n, c) == /\ fwCmds[n] # <<>>
                   /\ Head(fwCmds[n]).cmd = c
                   /\ fwCmds' = [fwCmds EXCEPT ![n] = Tail(@)]

FwReports(n, kind) ==
    mQ' = Append(mQ, [kind |-> kind, t |-> Head(fwCmds[n]).t])

(* dataConnOpenCommand with a usable APN posts AgpsMsgAtlOpenSuccess.      *)
FwOpens(n) ==
    /\ Len(wds[n]) < MaxQueue
    /\ FwCommand(n, "REQUEST")
    /\ fwConn' = [fwConn EXCEPT ![n] = TRUE]
    /\ FwReports(n, "openSuccess")
    /\ UNCHANGED <<smVars, at, wds, fwBad, modem, overlap>>

(* The connection comes up with an APN that is null, overlong or does not  *)
(* have the length announced.  dataConnOpenCommand then calls              *)
(* reportAtlClosed itself, on the calling thread and without a lock,       *)
(* whatever the adapter thread is doing: it reads the state...             *)
FwOpensBadApn(n) ==
    /\ BadApn
    /\ FwCommand(n, "REQUEST")
    /\ fwConn' = [fwConn EXCEPT ![n] = TRUE]
    /\ fwBad' = [fwBad EXCEPT ![n] = mState[n]]
    /\ overlap' = (overlap \/ at # Outside)
    /\ UNCHANGED <<smVars, mQ, at, wds, modem>>

(* ... and later runs that state's branch of processAgpsEventReleased.     *)
DataConnOpenBadApn(n) ==
    /\ fwBad[n] # "none"
    /\ fwBad' = [fwBad EXCEPT ![n] = "none"]
    /\ Released(fwBad[n], n)
    /\ UNCHANGED <<mAgpsType, mQ, at, wds, fwConn, overlap>>

(* dataConnFailedCommand posts AgpsMsgAtlOpenFailed.                       *)
FwFails(n) ==
    /\ FwCommand(n, "REQUEST")
    /\ FwReports(n, "openFailed")
    /\ UNCHANGED <<smVars, at, wds, fwConn, fwBad, modem, overlap>>

(* dataConnClosedCommand posts AgpsMsgAtlClosed.  A connection that failed *)
(* or was lost has been reported already and is not reported again.        *)
FwCloses(n) ==
    /\ FwCommand(n, "RELEASE")
    /\ fwBad[n] = "none"
    /\ fwConn' = [fwConn EXCEPT ![n] = FALSE]
    /\ IF fwConn[n] THEN FwReports(n, "closed") ELSE UNCHANGED mQ
    /\ UNCHANGED <<smVars, at, wds, fwBad, modem, overlap>>

(* The connection is lost and reported closed unasked.                     *)
FwLoses(n) ==
    /\ fwConn[n] /\ fwBad[n] = "none"
    /\ Len(mQ) < MaxQueue
    /\ fwConn' = [fwConn EXCEPT ![n] = FALSE]
    /\ \E t \in AllTypes :
          /\ NifOf(t) = n
          /\ mQ' = Append(mQ, [kind |-> "closed", t |-> t])
    /\ UNCHANGED <<smVars, at, wds, fwCmds, fwBad, modem, overlap>>

-----------------------------------------------------------------------------
Adapter == \/ Enter \/ RequestATL \/ ReleaseATL
           \/ AtlOpenSuccess \/ AtlPdn \/ AtlOpenFailed \/ AtlClosed

Framework(n) == \/ FwOpens(n) \/ FwOpensBadApn(n) \/ FwFails(n) \/ FwCloses(n)
                \/ DataConnOpenBadApn(n) \/ WdsAnswers(n)

Next == \/ \E h \in Handles, t \in AgpsTypes : ModemRequests(h, t)
        \/ \E h \in Handles : ModemReleases(h)
        \/ \E ns \in SUBSET Nifs : CreateAgpsStateMachines(ns)
        \/ Adapter
        \/ \E n \in Nifs : Framework(n) \/ FwLoses(n)

Spec == Init /\ [][Next]_vars

(* The adapter thread runs its queue (module MsgTask) and the framework    *)
(* carries out each command.  The modem need not release what it holds,    *)
(* the framework need not lose a connection.                               *)
FairSpec == Spec /\ WF_vars(Adapter) /\ \A n \in Nifs : WF_vars(Framework(n))

-----------------------------------------------------------------------------
(* Types of all variables.                                                 *)
TypeOK ==
    /\ mState \in [Nifs -> SmStates]
    /\ mAgpsType \in [Nifs -> AllTypes]
    /\ active \in [Nifs -> SUBSET Handles]
    /\ inactive \in [Nifs -> SUBSET Handles]
    /\ mQ \in Seq(AtlMsgs \cup ConnMsgs)
    /\ at \in [Nifs -> Readings]
    /\ wds \in [Nifs -> Seq(AllTypes)]
    /\ fwCmds \in [Nifs -> Seq(Commands)]
    /\ fwConn \in [Nifs -> BOOLEAN]
    /\ fwBad \in [Nifs -> Readings]
    /\ modem \in [Handles -> ModemStates]
    /\ overlap \in BOOLEAN

(* "Subscriber list should be empty if we are in released state", as       *)
(* processAgpsEventReleased says.                                          *)
ReleasedIsEmpty ==
    \A n \in Nifs : mState[n] \in {"NULL", "RELEASED"} => Subs(n) = {}

(* What the subscriber list of a machine is in each of its states.         *)
ListMatches(n) ==
    /\ mState[n] \in {"NULL", "RELEASED"} => Subs(n) = {}
    /\ mState[n] \in {"PENDING", "ACQUIRED"} => active[n] # {}
    /\ mState[n] = "RELEASING" => inactive[n] # {}
    /\ active[n] \cap inactive[n] = {}

(* Whatever order requests, releases and reports come in, reports of       *)
(* unusable APNs and late WDS answers among them: a RELEASED machine has   *)
(* no subscriber left behind, a connection is sought or held only while    *)
(* somebody active wants it, and RELEASING always has somebody to tell -   *)
(* as long as the unlocked report of an unusable APN has not met a handler *)
(* of the adapter thread half way.                                         *)
SubscribersMatchState == overlap \/ \A n \in Nifs : ListMatches(n)

(* ACQUIRED means there is a connection ("We already have the data         *)
(* connection setup", processAgpsEventSubscribe), unless the framework has *)
(* just lost it and said so in a message not yet handled.                  *)
AcquiredIsUp ==
    \A n \in Nifs :
        mState[n] = "ACQUIRED" =>
            \/ fwConn[n]
            \/ \E i \in DOMAIN mQ : mQ[i].kind = "closed" /\ NifOf(mQ[i].t) = n

(* A handle the modem believes granted is an active subscriber of an       *)
(* ACQUIRED machine: nobody's release, no unusable APN and no late answer  *)
(* takes the connection from under it - again unless the two threads have  *)
(* met inside the machine.                                                 *)
GrantedIsServed ==
    overlap \/ \A h \in Handles :
        modem[h] = "granted" =>
            \E n \in Nifs : mState[n] = "ACQUIRED" /\ h \in active[n]

(* When every handle is idle and nothing is under way, no data connection  *)
(* has been left open.                                                     *)
NoLeakedConnection ==
    (/\ \A h \in Handles : modem[h] = "idle"
     /\ mQ = <<>>
     /\ \A n \in Nifs : fwCmds[n] = <<>> /\ wds[n] = <<>> /\ fwBad[n] = "none")
    => \A n \in Nifs : ~fwConn[n]

(* A request is answered: granted, denied or closed (or the modem itself   *)
(* has withdrawn it).                                                      *)
RequestAnswered == \A h \in Handles : modem[h] = "requested" ~> modem[h] # "requested"

(* A release is answered as soon as no other handle holds the connection:  *)
(* the handle gets back to idle, or somebody else is granted.              *)
ReleaseAnswered ==
    \A h \in Handles :
        modem[h] = "closing" ~>
            (modem[h] = "idle" \/ \E g \in Handles \ {h} : modem[g] = "granted")

(* The modem is left waiting neither for a connection nor for its end.     *)
EveryoneAnswered == RequestAnswered /\ ReleaseAnswered
=============================================================================
