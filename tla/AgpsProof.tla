------------------------------ MODULE AgpsProof ------------------------------
(***************************************************************************)
(* Proofs about Agps for any set of handles, any of the configuration      *)
(* flags, and reports of the framework in any order.                       *)
(***************************************************************************)
EXTENDS Agps, ListFacts, SequenceTheorems, TLAPS

AllMsgs == AtlMsgs \cup ConnMsgs

(* What every event of the state machine leaves well typed.                *)
SmOutType == /\ mState' \in [Nifs -> SmStates]
             /\ active' \in [Nifs -> SUBSET Handles]
             /\ inactive' \in [Nifs -> SUBSET Handles]
             /\ fwCmds' \in [Nifs -> Seq(Commands)]
             /\ modem' \in [Handles -> ModemStates]

(* Notifications keep the types.                                           *)
LEMMA NotifyType ==
    ASSUME TypeOK, NEW e, NEW hs, Notify(e, hs)
    PROVE  modem' \in [Handles -> ModemStates]
<1>1. \A h \in Handles : AfterStatus(e, modem[h]) \in ModemStates
  BY DEF AfterStatus, ModemStates, TypeOK
<1>2. \A h \in Handles :
        (IF h \in hs THEN AfterStatus(e, modem[h]) ELSE modem[h]) \in ModemStates
  BY <1>1 DEF TypeOK
<1> QED
  BY <1>2 DEF Notify

(* Commands to the framework keep the types.                               *)
LEMMA CommandType ==
    ASSUME TypeOK, NEW n \in Nifs, NEW c \in {"REQUEST", "RELEASE"},
           NEW t \in AllTypes, Command(n, c, t)
    PROVE  fwCmds' \in [Nifs -> Seq(Commands)]
<1>1. [cmd |-> c, t |-> t] \in Commands
  BY DEF Commands
<1>2. fwCmds[n] \in Seq(Commands)
  BY DEF TypeOK
<1>3. Append(fwCmds[n], [cmd |-> c, t |-> t]) \in Seq(Commands)
  BY <1>1, <1>2, AppendProperties
<1> QED
  BY <1>3 DEF Command, TypeOK

(* Adding a subscriber keeps the types.                                    *)
LEMMA AddType ==
    ASSUME TypeOK, NEW n \in Nifs, NEW h \in Handles, AddSubscriber(n, h)
    PROVE  /\ active' \in [Nifs -> SUBSET Handles]
           /\ inactive' \in [Nifs -> SUBSET Handles]
BY DEF AddSubscriber, TypeOK, Subs

(* Subscribing keeps the types.                                            *)
LEMMA SubscribeType ==
    ASSUME TypeOK, NEW st, NEW n \in Nifs, NEW h \in Handles,
           NEW t \in AllTypes, Subscribe(st, n, h, t)
    PROVE  SmOutType
<1>1. AddSubscriber(n, h)
  BY DEF Subscribe
<1>2. mState' \in [Nifs -> SmStates]
  BY DEF Subscribe, TypeOK, SmStates
<1>3. fwCmds' \in [Nifs -> Seq(Commands)]
  <2>1. Command(n, "REQUEST", t) \/ fwCmds' = fwCmds
    BY DEF Subscribe
  <2> QED
    BY <2>1, CommandType DEF TypeOK
<1>4. modem' \in [Handles -> ModemStates]
  <2>1. Notify("GRANTED", {h}) \/ modem' = modem
    BY DEF Subscribe
  <2> QED
    BY <2>1, NotifyType DEF TypeOK
<1> QED
  BY <1>1, <1>2, <1>3, <1>4, AddType DEF SmOutType

(* Unsubscribing keeps the types.                                          *)
LEMMA UnsubscribeType ==
    ASSUME TypeOK, NEW st, NEW n \in Nifs, NEW h \in Handles,
           Unsubscribe(st, n, h)
    PROVE  SmOutType
<1>1. /\ active' \in [Nifs -> SUBSET Handles]
      /\ inactive' \in [Nifs -> SUBSET Handles]
  <2>1. \/ UNCHANGED <<active, inactive>>
        \/ /\ active' = [active EXCEPT ![n] = @ \ {h}]
           /\ inactive' = [inactive EXCEPT ![n] = @ \cup {h}]
    BY DEF Unsubscribe
  <2>2. active[n] \ {h} \in SUBSET Handles /\ inactive[n] \cup {h} \in SUBSET Handles
    BY DEF TypeOK
  <2> QED
    BY <2>1, <2>2 DEF TypeOK
<1>2. mState' \in [Nifs -> SmStates]
  BY DEF Unsubscribe, TypeOK, SmStates
<1>3. fwCmds' \in [Nifs -> Seq(Commands)]
  <2>1. mAgpsType[n] \in AllTypes
    BY DEF TypeOK
  <2>2. Command(n, "RELEASE", mAgpsType[n]) \/ fwCmds' = fwCmds
    BY DEF Unsubscribe
  <2> QED
    BY <2>1, <2>2, CommandType DEF TypeOK
<1>4. modem' \in [Handles -> ModemStates]
  <2>1. Notify("RELEASED", {h}) \/ modem' = modem
    BY DEF Unsubscribe
  <2> QED
    BY <2>1, NotifyType DEF TypeOK
<1> QED
  BY <1>1, <1>2, <1>3, <1>4 DEF SmOutType

(* A granted connection keeps the types.                                   *)
LEMMA GrantedType ==
    ASSUME TypeOK, NEW st, NEW n \in Nifs, Granted(st, n)
    PROVE  SmOutType
<1>1. CASE st = "PENDING"
  <2>1. modem' \in [Handles -> ModemStates]
    BY <1>1, NotifyType DEF Granted
  <2> QED
    BY <1>1, <2>1 DEF Granted, SmOutType, TypeOK, SmStates
<1>2. CASE st # "PENDING"
  BY <1>2 DEF Granted, SmOutType, TypeOK
<1> QED
  BY <1>1, <1>2

(* Dropping every subscriber keeps the types.                              *)
LEMMA DropAllType ==
    ASSUME TypeOK, NEW n \in Nifs, NEW e, DropAll(n, e)
    PROVE  SmOutType
<1>1. modem' \in [Handles -> ModemStates]
  BY NotifyType DEF DropAll
<1> QED
  BY <1>1 DEF DropAll, SmOutType, TypeOK, SmStates

(* The end of a close keeps the types.                                     *)
LEMMA CloseDoneType ==
    ASSUME TypeOK, NEW n \in Nifs, CloseDone(n)
    PROVE  SmOutType
<1>1. modem' \in [Handles -> ModemStates]
  BY NotifyType DEF CloseDone
<1>2. mState' \in [Nifs -> SmStates]
  BY DEF CloseDone, TypeOK, SmStates
<1>3. fwCmds' \in [Nifs -> Seq(Commands)]
  <2>1. mAgpsType[n] \in AllTypes
    BY DEF TypeOK
  <2>2. Command(n, "REQUEST", mAgpsType[n]) \/ fwCmds' = fwCmds
    BY DEF CloseDone
  <2> QED
    BY <2>1, <2>2, CommandType DEF TypeOK
<1>4. /\ active' \in [Nifs -> SUBSET Handles]
      /\ inactive' \in [Nifs -> SUBSET Handles]
  BY DEF CloseDone, TypeOK
<1> QED
  BY <1>1, <1>2, <1>3, <1>4 DEF SmOutType

(* A released connection keeps the types.                                  *)
LEMMA ReleasedType ==
    ASSUME TypeOK, NEW st, NEW n \in Nifs, Released(st, n)
    PROVE  SmOutType
<1>1. CASE UNCHANGED <<mState, active, inactive, fwCmds, modem>>
  BY <1>1 DEF SmOutType, TypeOK
<1> QED
  BY <1>1, DropAllType, CloseDoneType DEF Released

(* A denied connection keeps the types.                                    *)
LEMMA DeniedType ==
    ASSUME TypeOK, NEW st, NEW n \in Nifs, Denied(st, n)
    PROVE  SmOutType
<1>1. CASE UNCHANGED <<mState, active, inactive, fwCmds, modem>>
  BY <1>1 DEF SmOutType, TypeOK
<1> QED
  BY <1>1, DropAllType, CloseDoneType DEF Denied

(* The adapter queue stays well typed when a message is taken or posted.   *)
LEMMA QueueType ==
    ASSUME TypeOK
    PROVE  /\ mQ # <<>> => Head(mQ) \in AllMsgs /\ Tail(mQ) \in Seq(AllMsgs)
           /\ \A m \in AllMsgs : Append(mQ, m) \in Seq(AllMsgs)
<1>1. mQ \in Seq(AllMsgs)
  BY DEF TypeOK, AllMsgs
<1> QED
  BY <1>1, HeadTailProperties, AppendProperties

(* What the fields of a message of each kind are.                          *)
LEMMA MsgFields ==
    ASSUME NEW m \in AllMsgs
    PROVE  /\ m.kind = "requestATL" => m.h \in Handles /\ m.t \in AllTypes
           /\ m.kind = "releaseATL" => m.h \in Handles
           /\ m.kind \in {"openSuccess", "atlPdn", "openFailed", "closed"}
                  => m.t \in AllTypes
BY DEF AllMsgs, AtlMsgs, ConnMsgs

(* Every type of connection has a state machine.                           *)
LEMMA NifOfType == \A t \in AllTypes : NifOf(t) \in Nifs /\ EffectiveType(t) \in AllTypes
BY DEF NifOf, Nifs, EffectiveType, AllTypes

(* The types hold initially.                                               *)
LEMMA InitType == Init => TypeOK
<1> SUFFICES ASSUME Init PROVE TypeOK
  OBVIOUS
<1>1. mQ \in Seq(AtlMsgs \cup ConnMsgs)
  BY EmptySeq DEF Init
<1>2. wds \in [Nifs -> Seq(AllTypes)] /\ fwCmds \in [Nifs -> Seq(Commands)]
  BY EmptySeq DEF Init
<1>3. mAgpsType \in [Nifs -> AllTypes]
  BY DEF Init, AllTypes
<1> QED
  BY <1>1, <1>2, <1>3
     DEF Init, TypeOK, SmStates, ModemStates, Outside, Readings

(* Every step keeps the types.                                             *)
LEMMA TypeStep == TypeOK /\ [Next]_vars => TypeOK'
<1> SUFFICES ASSUME TypeOK, [Next]_vars PROVE TypeOK'
  OBVIOUS
<1>q. ASSUME mQ' \in Seq(AllMsgs) PROVE mQ' \in Seq(AtlMsgs \cup ConnMsgs)
  BY <1>q DEF AllMsgs
<1>h. ASSUME NEW k, Handle(k) PROVE at' \in [Nifs -> Readings]
  BY <1>h DEF Handle, Outside, Readings
<1>1. ASSUME NEW h \in Handles, NEW t \in AgpsTypes, ModemRequests(h, t)
      PROVE  TypeOK'
  <2>1. t \in AllTypes
    BY AgpsAssumption DEF AllTypes
  <2>2. [kind |-> "requestATL", h |-> h, t |-> t] \in AllMsgs
    BY <2>1 DEF AllMsgs, AtlMsgs
  <2>3. mQ' \in Seq(AllMsgs)
    BY <1>1, <2>2, QueueType DEF ModemRequests
  <2>4. modem' \in [Handles -> ModemStates]
    BY <1>1 DEF ModemRequests, TypeOK, ModemStates
  <2> QED
    BY <1>1, <1>q, <2>3, <2>4 DEF ModemRequests, TypeOK, smVars
<1>2. ASSUME NEW h \in Handles, ModemReleases(h)
      PROVE  TypeOK'
  <2>2. [kind |-> "releaseATL", h |-> h] \in AllMsgs
    BY DEF AllMsgs, AtlMsgs
  <2>3. mQ' \in Seq(AllMsgs)
    BY <1>2, <2>2, QueueType DEF ModemReleases
  <2>4. modem' \in [Handles -> ModemStates]
    BY <1>2 DEF ModemReleases, TypeOK, ModemStates
  <2> QED
    BY <1>2, <1>q, <2>3, <2>4 DEF ModemReleases, TypeOK, smVars
<1>3. ASSUME NEW ns \in SUBSET Nifs, CreateAgpsStateMachines(ns)
      PROVE  TypeOK'
  <2>1. mState' \in [Nifs -> SmStates]
    BY <1>3 DEF CreateAgpsStateMachines, TypeOK, SmStates
  <2> QED
    BY <1>3, <2>1 DEF CreateAgpsStateMachines, TypeOK
<1>4. CASE RequestATL
  <2> DEFINE m == Head(mQ)
             t == EffectiveType(m.t)
             n == NifOf(t)
  <2>1. m \in AllMsgs /\ m.kind = "requestATL" /\ mQ' \in Seq(AllMsgs)
    BY <1>4, QueueType DEF RequestATL, Handle
  <2>2. m.h \in Handles /\ t \in AllTypes /\ n \in Nifs
    BY <2>1, MsgFields, NifOfType
  <2>3. SmOutType /\ mAgpsType' \in [Nifs -> AllTypes]
    <3>1. CASE at[n] = "NULL"
      <4>1. modem' \in [Handles -> ModemStates]
        BY <1>4, <3>1, NotifyType DEF RequestATL
      <4> QED
        BY <1>4, <3>1, <4>1 DEF RequestATL, SmOutType, TypeOK, smVars
    <3>2. CASE at[n] # "NULL"
      <4>1. Subscribe(at[n], n, m.h, t) /\ mAgpsType' = [mAgpsType EXCEPT ![n] = t]
        BY <1>4, <3>2 DEF RequestATL
      <4>2. SmOutType
        BY <4>1, <2>2, SubscribeType
      <4>3. mAgpsType' \in [Nifs -> AllTypes]
        BY <4>1, <2>2 DEF TypeOK
      <4> QED
        BY <4>2, <4>3
    <3> QED
      BY <3>1, <3>2
  <2> QED
    BY <1>4, <1>h, <1>q, <2>1, <2>3 DEF RequestATL, SmOutType, TypeOK
<1>5. CASE ReleaseATL
  <2> DEFINE m == Head(mQ)
             n == SmOf(m.h)
  <2>1. m \in AllMsgs /\ m.kind = "releaseATL" /\ mQ' \in Seq(AllMsgs)
    BY <1>5, QueueType DEF ReleaseATL, Handle
  <2>2. m.h \in Handles /\ n \in Nifs
    BY <2>1, MsgFields DEF SmOf, Nifs
  <2>3. SmOutType
    <3>1. CASE m.h \in Subs(n)
      BY <1>5, <2>2, <3>1, UnsubscribeType DEF ReleaseATL
    <3>2. CASE m.h \notin Subs(n)
      BY <1>5, <3>2 DEF ReleaseATL, SmOutType, TypeOK
    <3> QED
      BY <3>1, <3>2
  <2> QED
    BY <1>5, <1>h, <1>q, <2>1, <2>3 DEF ReleaseATL, SmOutType, TypeOK
<1>6. CASE AtlOpenSuccess
  <2> DEFINE m == Head(mQ)
             n == NifOf(m.t)
  <2>1. m \in AllMsgs /\ m.kind = "openSuccess" /\ mQ' \in Seq(AllMsgs)
    BY <1>6, QueueType DEF AtlOpenSuccess, Handle
  <2>2. m.t \in AllTypes /\ n \in Nifs
    BY <2>1, MsgFields, NifOfType
  <2>3. SmOutType /\ wds' \in [Nifs -> Seq(AllTypes)]
    <3>1. CASE UseWds
      <4>1. Append(wds[n], m.t) \in Seq(AllTypes)
        BY <2>2, AppendProperties DEF TypeOK
      <4>2. wds' \in [Nifs -> Seq(AllTypes)]
        BY <1>6, <3>1, <4>1 DEF AtlOpenSuccess, TypeOK
      <4> QED
        BY <1>6, <3>1, <4>2 DEF AtlOpenSuccess, SmOutType, TypeOK
    <3>2. CASE ~UseWds
      <4>1. Granted(at[n], n) /\ wds' = wds
        BY <1>6, <3>2 DEF AtlOpenSuccess
      <4> QED
        BY <2>2, <4>1, GrantedType DEF TypeOK
    <3> QED
      BY <3>1, <3>2
  <2> QED
    BY <1>6, <1>h, <1>q, <2>1, <2>3 DEF AtlOpenSuccess, SmOutType, TypeOK
<1>7. CASE AtlPdn \/ AtlOpenFailed \/ AtlClosed
  <2> DEFINE n == NifOf(Head(mQ).t)
  <2>1. /\ Head(mQ) \in AllMsgs
        /\ Head(mQ).kind \in {"atlPdn", "openFailed", "closed"}
        /\ mQ' \in Seq(AllMsgs)
        /\ UNCHANGED <<mAgpsType, wds, fwConn, fwBad, overlap>>
        /\ Granted(at[n], n) \/ Denied(at[n], n) \/ Released(at[n], n)
    BY <1>7, QueueType DEF AtlPdn, AtlOpenFailed, AtlClosed, Handle
  <2>2. n \in Nifs
    BY <2>1, MsgFields, NifOfType
  <2>3. SmOutType
    BY <2>1, <2>2, GrantedType, DeniedType, ReleasedType
  <2>4. at' \in [Nifs -> Readings]
    BY <1>7, <1>h DEF AtlPdn, AtlOpenFailed, AtlClosed
  <2> QED
    BY <1>q, <2>1, <2>3, <2>4 DEF SmOutType, TypeOK
<1>8. ASSUME NEW n \in Nifs, Framework(n) \/ FwLoses(n)
      PROVE  TypeOK'
  <2>1. ASSUME NEW c, FwCommand(n, c)
        PROVE  /\ fwCmds' \in [Nifs -> Seq(Commands)]
               /\ Head(fwCmds[n]).t \in AllTypes
    <3>1. Head(fwCmds[n]) \in Commands /\ Tail(fwCmds[n]) \in Seq(Commands)
      BY <2>1, HeadTailProperties DEF FwCommand, TypeOK
    <3> QED
      BY <2>1, <3>1 DEF FwCommand, TypeOK, Commands
  <2>2. ASSUME NEW k \in {"openSuccess", "openFailed", "closed"},
               Head(fwCmds[n]).t \in AllTypes, FwReports(n, k)
        PROVE  mQ' \in Seq(AllMsgs)
    <3>1. [kind |-> k, t |-> Head(fwCmds[n]).t] \in AllMsgs
      BY <2>2 DEF AllMsgs, ConnMsgs
    <3> QED
      BY <2>2, <3>1, QueueType DEF FwReports
  <2>3. CASE FwOpens(n)
    <3>1. fwCmds' \in [Nifs -> Seq(Commands)] /\ mQ' \in Seq(AllMsgs)
      BY <2>1, <2>2, <2>3 DEF FwOpens
    <3>2. fwConn' \in [Nifs -> BOOLEAN]
      BY <2>3 DEF FwOpens, TypeOK
    <3> QED
      BY <1>q, <2>3, <3>1, <3>2 DEF FwOpens, TypeOK, smVars
  <2>4. CASE FwOpensBadApn(n)
    <3>1. fwCmds' \in [Nifs -> Seq(Commands)]
      BY <2>1, <2>4 DEF FwOpensBadApn
    <3>2. fwConn' \in [Nifs -> BOOLEAN] /\ fwBad' \in [Nifs -> Readings]
      BY <2>4 DEF FwOpensBadApn, TypeOK, Readings
    <3> QED
      BY <2>4, <3>1, <3>2 DEF FwOpensBadApn, TypeOK, smVars
  <2>5. CASE FwFails(n)
    <3>1. fwCmds' \in [Nifs -> Seq(Commands)] /\ mQ' \in Seq(AllMsgs)
      BY <2>1, <2>2, <2>5 DEF FwFails
    <3> QED
      BY <1>q, <2>5, <3>1 DEF FwFails, TypeOK, smVars
  <2>6. CASE FwCloses(n)
    <3>1. fwCmds' \in [Nifs -> Seq(Commands)] /\ Head(fwCmds[n]).t \in AllTypes
      BY <2>1, <2>6 DEF FwCloses
    <3>2. mQ' \in Seq(AllMsgs)
      BY <2>2, <2>6, <3>1 DEF FwCloses, TypeOK, AllMsgs
    <3>3. fwConn' \in [Nifs -> BOOLEAN]
      BY <2>6 DEF FwCloses, TypeOK
    <3> QED
      BY <1>q, <2>6, <3>1, <3>2, <3>3 DEF FwCloses, TypeOK, smVars
  <2>7. CASE DataConnOpenBadApn(n)
    <3>1. SmOutType
      BY <2>7, ReleasedType DEF DataConnOpenBadApn
    <3>2. fwBad' \in [Nifs -> Readings]
      BY <2>7 DEF DataConnOpenBadApn, TypeOK, Readings
    <3> QED
      BY <2>7, <3>1, <3>2 DEF DataConnOpenBadApn, SmOutType, TypeOK
  <2>8. CASE WdsAnswers(n)
    <3>1. Head(wds[n]) \in AllTypes /\ Tail(wds[n]) \in Seq(AllTypes)
      BY <2>8, HeadTailProperties DEF WdsAnswers, TypeOK
    <3>2. wds' \in [Nifs -> Seq(AllTypes)]
      BY <2>8, <3>1 DEF WdsAnswers, TypeOK
    <3>3. [kind |-> "atlPdn", t |-> Head(wds[n])] \in AllMsgs
      BY <3>1 DEF AllMsgs, ConnMsgs
    <3>4. mQ' \in Seq(AllMsgs)
      BY <2>8, <3>3, QueueType DEF WdsAnswers
    <3> QED
      BY <1>q, <2>8, <3>2, <3>4 DEF WdsAnswers, TypeOK, smVars
  <2>9. CASE FwLoses(n)
    <3>1. PICK t \in AllTypes : mQ' = Append(mQ, [kind |-> "closed", t |-> t])
      BY <2>9 DEF FwLoses
    <3>2. [kind |-> "closed", t |-> t] \in AllMsgs
      BY DEF AllMsgs, ConnMsgs
    <3>3. mQ' \in Seq(AllMsgs)
      BY <3>1, <3>2, QueueType
    <3>4. fwConn' \in [Nifs -> BOOLEAN]
      BY <2>9 DEF FwLoses, TypeOK
    <3> QED
      BY <1>q, <2>9, <3>3, <3>4 DEF FwLoses, TypeOK, smVars
  <2> QED
    BY <1>8, <2>3, <2>4, <2>5, <2>6, <2>7, <2>8, <2>9 DEF Framework
<1>9. CASE UNCHANGED vars
  BY <1>9 DEF vars, TypeOK
<1>10. CASE Enter
  BY <1>10 DEF Enter, TypeOK, Readings, smVars
<1> QED
  BY <1>1, <1>2, <1>3, <1>4, <1>5, <1>6, <1>7, <1>8, <1>9, <1>10 DEF Next, Adapter

-----------------------------------------------------------------------------
(* The subscriber lists, machine by machine.  Once the types are known     *)
(* they are their own inductive strengthening, because no handler of one   *)
(* machine looks at the other or at the queue - provided that a handler    *)
(* runs on the state the machine is in.                                    *)
Lists == \A n \in Nifs : ListMatches(n)

(* It does while the two threads keep apart: one that is inside a handler  *)
(* has read the current state, and the other one is outside.  (A machine   *)
(* that is not there yet has no branch for a reported close.)              *)
Apart ==
    /\ at # Outside => at = mState /\ fwBad = Outside
    /\ \A n \in Nifs : fwBad[n] \in {"none", "NULL", mState[n]}

(* The branch that DataConnOpenBadApn runs is that of the current state.   *)
LEMMA ReportCurrent ==
    ASSUME Apart, NEW n \in Nifs, DataConnOpenBadApn(n)
    PROVE  Released(mState[n], n)
<1>1. CASE fwBad[n] = mState[n]
  BY <1>1 DEF DataConnOpenBadApn
<1>2. CASE fwBad[n] = "NULL"
  BY <1>2 DEF DataConnOpenBadApn, Released
<1> QED
  BY <1>1, <1>2 DEF Apart, DataConnOpenBadApn

(* No step but one that brings both threads inside ends this.              *)
LEMMA ApartStep ==
    ASSUME TypeOK, Apart, [Next]_vars, ~overlap'
    PROVE  Apart'
<1>h. ASSUME NEW k, Handle(k), UNCHANGED fwBad PROVE Apart'
  <2>1. fwBad = Outside /\ at' = Outside
    BY <1>h DEF Handle, Apart
  <2> QED
    BY <1>h, <2>1 DEF Apart, Outside
<1>0. ASSUME UNCHANGED <<at, mState, fwBad>> PROVE Apart'
  BY <1>0 DEF Apart
<1>1. ASSUME NEW h \in Handles, NEW t \in AgpsTypes, ModemRequests(h, t)
      PROVE  Apart'
  BY <1>0, <1>1 DEF ModemRequests, smVars
<1>2. ASSUME NEW h \in Handles, ModemReleases(h) PROVE Apart'
  BY <1>0, <1>2 DEF ModemReleases, smVars
<1>3. ASSUME NEW ns \in SUBSET Nifs, CreateAgpsStateMachines(ns)
      PROVE  Apart'
  <2>1. /\ at' = Outside /\ fwBad' = fwBad
        /\ \A n \in Nifs : mState[n] = "NULL" \/ mState'[n] = mState[n]
    BY <1>3 DEF CreateAgpsStateMachines
  <2> QED
    BY <2>1 DEF Apart
<1>4. CASE RequestATL \/ ReleaseATL \/ AtlOpenSuccess \/ AtlPdn \/ AtlOpenFailed \/ AtlClosed
  BY <1>h, <1>4 DEF RequestATL, ReleaseATL, AtlOpenSuccess, AtlPdn, AtlOpenFailed,
                    AtlClosed
<1>5. CASE Enter
  <2>1. fwBad = Outside /\ at' = mState /\ UNCHANGED <<mState, fwBad>>
    BY <1>5 DEF Enter, smVars
  <2> QED
    BY <2>1 DEF Apart
<1>6. ASSUME NEW n \in Nifs, Framework(n) \/ FwLoses(n) PROVE Apart'
  <2>1. CASE FwOpens(n) \/ FwFails(n) \/ FwCloses(n) \/ WdsAnswers(n) \/ FwLoses(n)
    BY <1>0, <2>1 DEF FwOpens, FwFails, FwCloses, WdsAnswers, FwLoses, smVars
  <2>2. CASE FwOpensBadApn(n)
    <3>1. /\ at = Outside /\ UNCHANGED <<at, mState>>
          /\ fwBad' = [fwBad EXCEPT ![n] = mState[n]]
      BY <2>2 DEF FwOpensBadApn, smVars
    <3> QED
      BY <3>1 DEF Apart, TypeOK
  <2>3. CASE DataConnOpenBadApn(n)
    <3>1. at = Outside /\ at' = at
      BY <2>3 DEF DataConnOpenBadApn, Apart, Outside
    <3>2. fwBad' = [fwBad EXCEPT ![n] = "none"]
      BY <2>3 DEF DataConnOpenBadApn
    <3>3. \A o \in Nifs \ {n} : mState'[o] = mState[o]
      <4>1. mState' = mState \/ \E st : mState' = [mState EXCEPT ![n] = st]
        BY <2>3 DEF DataConnOpenBadApn, Released, DropAll, CloseDone
      <4> QED
        BY <4>1 DEF TypeOK
    <3> QED
      BY <3>1, <3>2, <3>3 DEF Apart, TypeOK
  <2> QED
    BY <1>6, <2>1, <2>2, <2>3 DEF Framework
<1>7. CASE UNCHANGED vars
  BY <1>0, <1>7 DEF vars
<1> QED
  BY <1>1, <1>2, <1>3, <1>4, <1>5, <1>6, <1>7 DEF Next, Adapter

(* Subscribing keeps subscribers and state in step.                        *)
LEMMA SubscribeMatch ==
    ASSUME TypeOK, Lists, NEW n \in Nifs, NEW h \in Handles,
           NEW t, Subscribe(mState[n], n, h, t)
    PROVE  Lists'
<1>1. AddSubscriber(n, h)
  BY DEF Subscribe
<1>2. mState[n] = "RELEASED" => h \notin Subs(n)
  BY DEF Lists, ListMatches
<1>3. CASE mState[n] = "RELEASED"
  <2>1. mState' = [mState EXCEPT ![n] = "PENDING"]
    BY <1>3 DEF Subscribe
  <2> QED
    BY <1>1, <1>2, <1>3, <2>1
       DEF AddSubscriber, Lists, ListMatches, Subs, TypeOK
<1>4. CASE mState[n] # "RELEASED"
  <2>1. mState' = mState /\ mState[n] \in {"PENDING", "RELEASING", "ACQUIRED"}
    BY <1>4 DEF Subscribe
  <2> QED
    BY <1>1, <2>1 DEF AddSubscriber, Lists, ListMatches, Subs, TypeOK
<1> QED
  BY <1>3, <1>4

(* Unsubscribing keeps subscribers and state in step.                      *)
LEMMA UnsubscribeMatch ==
    ASSUME TypeOK, Lists, NEW n \in Nifs, NEW h \in Subs(n),
           Unsubscribe(mState[n], n, h)
    PROVE  Lists'
<1>1. mState[n] \in {"PENDING", "ACQUIRED", "RELEASING"}
  BY DEF Lists, ListMatches, TypeOK, SmStates
<1>2. /\ active' = [active EXCEPT ![n] = @ \ {h}]
      /\ inactive' = [inactive EXCEPT ![n] = @ \cup {h}]
  BY <1>1 DEF Unsubscribe
<1>3. CASE mState[n] \in {"PENDING", "ACQUIRED"} /\ active[n] \ {h} = {}
  <2>1. mState' = [mState EXCEPT ![n] = "RELEASING"]
    BY <1>3 DEF Unsubscribe
  <2> QED
    BY <1>2, <2>1 DEF Lists, ListMatches, Subs, TypeOK
<1>4. CASE ~(mState[n] \in {"PENDING", "ACQUIRED"} /\ active[n] \ {h} = {})
  <2>1. mState' = mState
    BY <1>4 DEF Unsubscribe
  <2> QED
    BY <1>1, <1>2, <1>4, <2>1 DEF Lists, ListMatches, Subs, TypeOK
<1> QED
  BY <1>3, <1>4

(* So does a granted connection.                                           *)
LEMMA GrantedMatch ==
    ASSUME TypeOK, Lists, NEW n \in Nifs, Granted(mState[n], n)
    PROVE  Lists'
BY DEF Granted, Lists, ListMatches, Subs, TypeOK

(* So does dropping every subscriber.                                      *)
LEMMA DropAllMatch ==
    ASSUME TypeOK, Lists, NEW n \in Nifs, NEW e, DropAll(n, e)
    PROVE  Lists'
BY DEF DropAll, Lists, ListMatches, Subs, TypeOK

(* So does the end of a close.                                             *)
LEMMA CloseDoneMatch ==
    ASSUME TypeOK, Lists, NEW n \in Nifs, CloseDone(n)
    PROVE  Lists'
<1>1. /\ active' = active
      /\ inactive' = [inactive EXCEPT ![n] = {}]
  BY DEF CloseDone
<1>2. mState' = [mState EXCEPT ![n] = IF active[n] # {} THEN "PENDING"
                                      ELSE "RELEASED"]
  BY DEF CloseDone
<1> QED
  BY <1>1, <1>2 DEF Lists, ListMatches, Subs, TypeOK

(* So does every step.                                                     *)
LEMMA MatchStep ==
    ASSUME TypeOK, Apart, Lists, [Next]_vars
    PROVE  Lists'
<1>a. ASSUME NEW k, Handle(k) PROVE at = mState
  BY <1>a DEF Handle, Apart
<1>0. ASSUME UNCHANGED <<mState, active, inactive>>
      PROVE  Lists'
  BY <1>0 DEF Lists, ListMatches, Subs
<1>r. ASSUME NEW n \in Nifs, Released(mState[n], n) PROVE Lists'
  BY <1>0, <1>r, DropAllMatch, CloseDoneMatch DEF Released
<1>d. ASSUME NEW n \in Nifs, Denied(mState[n], n) PROVE Lists'
  BY <1>0, <1>d, DropAllMatch, CloseDoneMatch DEF Denied
<1>1. ASSUME NEW h \in Handles, NEW t \in AgpsTypes, ModemRequests(h, t)
      PROVE  Lists'
  BY <1>0, <1>1 DEF ModemRequests, smVars
<1>2. ASSUME NEW h \in Handles, ModemReleases(h)
      PROVE  Lists'
  BY <1>0, <1>2 DEF ModemReleases, smVars
<1>3. ASSUME NEW ns \in SUBSET Nifs, CreateAgpsStateMachines(ns)
      PROVE  Lists'
  BY <1>3 DEF CreateAgpsStateMachines, Lists, ListMatches, Subs, TypeOK
<1>4. CASE RequestATL
  <2> DEFINE m == Head(mQ)
             t == EffectiveType(m.t)
             n == NifOf(t)
  <2>1. m.h \in Handles /\ n \in Nifs
    <3>1. m \in AllMsgs /\ m.kind = "requestATL"
      BY <1>4, QueueType DEF RequestATL, Handle
    <3> QED
      BY <3>1, MsgFields, NifOfType
  <2>a. at = mState
    BY <1>4, <1>a DEF RequestATL
  <2>2. CASE mState[n] = "NULL"
    BY <1>0, <1>4, <2>a, <2>2 DEF RequestATL, smVars
  <2>3. CASE mState[n] # "NULL"
    <3>1. Subscribe(mState[n], n, m.h, t)
      BY <1>4, <2>a, <2>3 DEF RequestATL
    <3> QED
      BY <2>1, <3>1, SubscribeMatch
  <2> QED
    BY <2>2, <2>3
<1>5. CASE ReleaseATL
  <2> DEFINE m == Head(mQ)
             n == SmOf(m.h)
  <2>1. n \in Nifs
    BY DEF SmOf, Nifs
  <2>2. CASE m.h \in Subs(n)
    <3>1. Unsubscribe(mState[n], n, m.h)
      BY <1>5, <1>a, <2>2 DEF ReleaseATL
    <3> QED
      BY <2>1, <2>2, <3>1, UnsubscribeMatch
  <2>3. CASE m.h \notin Subs(n)
    BY <1>0, <1>5, <2>3 DEF ReleaseATL
  <2> QED
    BY <2>2, <2>3
<1>6. CASE AtlOpenSuccess \/ AtlPdn \/ AtlOpenFailed \/ AtlClosed
  <2> DEFINE n == NifOf(Head(mQ).t)
  <2>1. n \in Nifs
    BY DEF NifOf, Nifs
  <2>2. \/ UNCHANGED <<mState, active, inactive>>
        \/ Granted(mState[n], n) \/ Denied(mState[n], n) \/ Released(mState[n], n)
    BY <1>6, <1>a DEF AtlOpenSuccess, AtlPdn, AtlOpenFailed, AtlClosed
  <2> QED
    BY <1>0, <1>r, <1>d, <2>1, <2>2, GrantedMatch
<1>7. ASSUME NEW n \in Nifs, Framework(n) \/ FwLoses(n)
      PROVE  Lists'
  <2>1. UNCHANGED <<mState, active, inactive>> \/ Released(mState[n], n)
    BY <1>7, ReportCurrent
       DEF Framework, FwLoses, FwOpens, FwOpensBadApn, FwFails, FwCloses,
           WdsAnswers, smVars
  <2> QED
    BY <1>0, <1>r, <2>1
<1>8. CASE UNCHANGED vars
  BY <1>0, <1>8 DEF vars
<1>9. CASE Enter
  BY <1>0, <1>9 DEF Enter, smVars
<1> QED
  BY <1>1, <1>2, <1>3, <1>4, <1>5, <1>6, <1>7, <1>8, <1>9 DEF Next, Adapter

(* Every variable of the AGPS manager keeps its type.                      *)
THEOREM TypeCorrect == Spec => []TypeOK
BY InitType, TypeStep, PTL DEF Spec

-----------------------------------------------------------------------------
(* GrantedIsServed is not inductive: a release of an earlier request that  *)
(* is still queued could take a connection away from a handle that has     *)
(* just been granted.  What rules it out is how the modem's view of a      *)
(* handle, the messages of that handle still in the queue and the lists of *)
(* both machines go together, whatever the other handles do.               *)

(* The queued requests and releases of a handle.                           *)
ReqOf(h) == {m \in AllMsgs : m.kind = "requestATL" /\ m.h = h}
RelOf(h) == {m \in AllMsgs : m.kind = "releaseATL" /\ m.h = h}

Subscribed(h) == \E n \in Nifs : h \in Subs(n)
Waits(h) == \E n \in Nifs : h \in active[n] /\ mState[n] \in {"PENDING", "RELEASING"}
Served(h) == \E n \in Nifs : h \in active[n] /\ mState[n] = "ACQUIRED"

(* A handle has at most one request queued and is in one machine's list;   *)
(* an idle one is in neither place.  A request the modem has not withdrawn *)
(* is behind every stale release, or it has been handled and no release is *)
(* queued.                                                                 *)
Ledger(h) ==
    /\ AtMostOne(mQ, ReqOf(h))
    /\ \A n, o \in Nifs : h \in Subs(n) /\ h \in Subs(o) => n = o
    /\ modem[h] = "idle" => ~Has(mQ, ReqOf(h)) /\ ~Subscribed(h)
    /\ modem[h] = "requested" =>
           \/ /\ Has(mQ, ReqOf(h)) /\ ~Subscribed(h)
              /\ InOrder(mQ, RelOf(h), ReqOf(h))
           \/ ~Has(mQ, ReqOf(h)) /\ ~Has(mQ, RelOf(h)) /\ Waits(h)
    /\ modem[h] = "granted" =>
           ~Has(mQ, ReqOf(h)) /\ ~Has(mQ, RelOf(h)) /\ Served(h)
    /\ modem[h] = "closing" => (Has(mQ, ReqOf(h)) <=> ~Subscribed(h))

Ledgers == \A h \in Handles : Ledger(h)

(* The step adds no request or release of h and takes no request of h.     *)
QueueKept(h) ==
    /\ Has(mQ', ReqOf(h)) <=> Has(mQ, ReqOf(h))
    /\ Has(mQ', RelOf(h)) => Has(mQ, RelOf(h))
    /\ AtMostOne(mQ, ReqOf(h)) => AtMostOne(mQ', ReqOf(h))
    /\ InOrder(mQ, RelOf(h), ReqOf(h)) => InOrder(mQ', RelOf(h), ReqOf(h))

(* The step does not concern h in any of the machines.                     *)
SmKept(h) ==
    /\ modem'[h] = modem[h]
    /\ \A n \in Nifs : /\ h \in active'[n] <=> h \in active[n]
                       /\ h \in inactive'[n] <=> h \in inactive[n]
                       /\ h \in active[n] => mState'[n] = mState[n]

(* A step that leaves the queue and the machines alone for h.              *)
LEMMA LedgerKept ==
    ASSUME NEW h \in Handles, Ledger(h), QueueKept(h), SmKept(h)
    PROVE  Ledger(h)'
<1>1. /\ Subscribed(h)' <=> Subscribed(h)
      /\ \A n \in Nifs : h \in Subs(n)' <=> h \in Subs(n)
  BY DEF SmKept, Subscribed, Subs
<1>2. (Waits(h) => Waits(h)') /\ (Served(h) => Served(h)')
  BY DEF SmKept, Waits, Served
<1> QED
  BY <1>1, <1>2 DEF Ledger, QueueKept, SmKept

(* The queue, seen by the handles a step is not about.                     *)
LEMMA PostKeeps ==
    ASSUME TypeOK, NEW e \in AllMsgs, mQ' = Append(mQ, e), NEW h,
           e \notin ReqOf(h), e \notin RelOf(h)
    PROVE  QueueKept(h)
<1>1. mQ \in Seq(AllMsgs)
  BY DEF TypeOK, AllMsgs
<1> QED
  BY <1>1, AppendHas DEF QueueKept

(* Taking a message that is no request of h off the queue.                 *)
LEMMA TakeKeeps ==
    ASSUME TypeOK, mQ # <<>>, mQ' = Tail(mQ), NEW h, Head(mQ) \notin ReqOf(h)
    PROVE  QueueKept(h)
<1>1. mQ \in Seq(AllMsgs)
  BY DEF TypeOK, AllMsgs
<1> QED
  BY <1>1, TailHas DEF QueueKept

(* A subscribed handle has no request queued.                              *)
LEMMA SubscribedNoRequest ==
    ASSUME TypeOK, NEW h \in Handles, Ledger(h), Subscribed(h)
    PROVE  ~Has(mQ, ReqOf(h)) /\ modem[h] # "idle"
<1>1. modem[h] \in {"idle", "requested", "granted", "closing"}
  BY DEF TypeOK, ModemStates
<1> QED
  BY <1>1 DEF Ledger

(* processAgpsEventGranted, for every handle.                              *)
LEMMA GrantedLedger ==
    ASSUME TypeOK, NEW n \in Nifs, Granted(mState[n], n), NEW h \in Handles, Ledger(h),
           QueueKept(h)
    PROVE  Ledger(h)'
<1>1. CASE mState[n] = "PENDING" /\ h \in active[n]
  <2>1. /\ modem'[h] = AfterStatus("GRANTED", modem[h])
        /\ mState' = [mState EXCEPT ![n] = "ACQUIRED"]
        /\ active' = active /\ inactive' = inactive
    BY <1>1 DEF Granted, Notify
  <2>2. Served(h)' /\ Subscribed(h) /\ Subscribed(h)'
    BY <1>1, <2>1 DEF Served, Subscribed, Subs, TypeOK
  <2>3. \A o \in Nifs : Subs(o)' = Subs(o)
    BY <2>1 DEF Subs
  <2>4. CASE modem[h] = "requested"
    BY <2>1, <2>2, <2>3, <2>4 DEF Ledger, QueueKept, AfterStatus
  <2>5. CASE modem[h] \in {"granted", "closing"}
    BY <2>1, <2>2, <2>3, <2>5 DEF Ledger, QueueKept, AfterStatus
  <2>6. modem[h] \in {"requested", "granted", "closing"}
    BY <2>2, SubscribedNoRequest DEF TypeOK, ModemStates
  <2> QED
    BY <2>4, <2>5, <2>6
<1>2. CASE ~(mState[n] = "PENDING" /\ h \in active[n])
  <2>1. SmKept(h)
    BY <1>2 DEF Granted, Notify, SmKept, TypeOK
  <2> QED
    BY <2>1, LedgerKept
<1> QED
  BY <1>1, <1>2

(* The subscribers a machine drops are idle and in no list.                *)
LEMMA DropAllLedger ==
    ASSUME TypeOK, NEW n \in Nifs, NEW e \in {"RELEASED", "DENIED"},
           DropAll(n, e), NEW h \in Handles, Ledger(h), QueueKept(h)
    PROVE  Ledger(h)'
<1>1. CASE h \in Subs(n)
  <2>1. Subscribed(h)
    BY <1>1 DEF Subscribed
  <2>2. modem'[h] = "idle"
    BY <1>1 DEF DropAll, Notify, AfterStatus
  <2>3. \A o \in Nifs : h \notin Subs(o)'
    <3>1. \A o \in Nifs \ {n} : h \notin Subs(o)
      BY <1>1 DEF Ledger
    <3> QED
      BY <3>1 DEF DropAll, Subs, TypeOK
  <2>4. ~Has(mQ', ReqOf(h)) /\ AtMostOne(mQ', ReqOf(h))
    BY <2>1, SubscribedNoRequest DEF QueueKept, Ledger
  <2> QED
    BY <2>2, <2>3, <2>4 DEF Ledger, Subscribed
<1>2. CASE h \notin Subs(n)
  <2>1. SmKept(h)
    BY <1>2 DEF DropAll, Notify, SmKept, Subs, TypeOK
  <2> QED
    BY <2>1, LedgerKept
<1> QED
  BY <1>1, <1>2

(* RELEASING ends: the inactive are idle, the active wait on.              *)
LEMMA CloseDoneLedger ==
    ASSUME TypeOK, Lists, NEW n \in Nifs, CloseDone(n),
           mState[n] = "RELEASING", NEW h \in Handles, Ledger(h), QueueKept(h)
    PROVE  Ledger(h)'
<1>0. /\ active' = active /\ inactive' = [inactive EXCEPT ![n] = {}]
      /\ mState' = [mState EXCEPT ![n] = IF active[n] # {} THEN "PENDING" ELSE "RELEASED"]
  BY DEF CloseDone
<1>1. CASE h \in inactive[n]
  <2>1. Subscribed(h) /\ h \in Subs(n)
    BY <1>1 DEF Subscribed, Subs
  <2>2. modem'[h] = "idle"
    BY <1>1 DEF CloseDone, Notify, AfterStatus
  <2>3. \A o \in Nifs : h \notin Subs(o)'
    <3>1. \A o \in Nifs \ {n} : h \notin Subs(o)
      BY <2>1 DEF Ledger
    <3>2. h \notin active[n]
      BY <1>1 DEF Lists, ListMatches
    <3> QED
      BY <1>0, <3>1, <3>2 DEF Subs, TypeOK
  <2>4. ~Has(mQ', ReqOf(h)) /\ AtMostOne(mQ', ReqOf(h))
    BY <2>1, SubscribedNoRequest DEF QueueKept, Ledger
  <2> QED
    BY <2>2, <2>3, <2>4 DEF Ledger, Subscribed
<1>2. CASE h \in active[n] /\ h \notin inactive[n]
  <2>1. modem'[h] = modem[h]
    BY <1>2 DEF CloseDone, Notify
  <2>2. \A o \in Nifs : h \in Subs(o)' <=> h \in Subs(o)
    BY <1>0, <1>2 DEF Subs, TypeOK
  <2>3. Subscribed(h)' /\ Subscribed(h)
    BY <1>2, <2>2 DEF Subscribed, Subs
  <2>4. Waits(h)'
    BY <1>0, <1>2 DEF Waits, TypeOK
  <2>5. modem[h] # "granted"
    <3>1. ASSUME Served(h) PROVE FALSE
      <4>1. PICK o \in Nifs : h \in active[o] /\ mState[o] = "ACQUIRED"
        BY <3>1 DEF Served
      <4>2. h \in Subs(o) /\ h \in Subs(n)
        BY <1>2, <4>1 DEF Subs
      <4>3. o = n
        BY <4>2 DEF Ledger
      <4> QED
        BY <4>1, <4>3
    <3> QED
      BY <3>1 DEF Ledger
  <2> QED
    BY <2>1, <2>2, <2>3, <2>4, <2>5 DEF Ledger, QueueKept
<1>3. CASE h \notin Subs(n)
  <2>1. SmKept(h)
    BY <1>0, <1>3 DEF CloseDone, Notify, SmKept, Subs, TypeOK
  <2> QED
    BY <2>1, LedgerKept
<1> QED
  BY <1>1, <1>2, <1>3 DEF Subs

(* processAgpsEventReleased and processAgpsEventDenied, for every handle.  *)
LEMMA ReportLedger ==
    ASSUME TypeOK, Lists, NEW n \in Nifs,
           Released(mState[n], n) \/ Denied(mState[n], n), NEW h \in Handles, Ledger(h), QueueKept(h)
    PROVE  Ledger(h)'
<1>1. CASE UNCHANGED <<mState, active, inactive, fwCmds, modem>>
  <2>1. SmKept(h)
    BY <1>1 DEF SmKept
  <2> QED
    BY <2>1, LedgerKept
<1>2. CASE DropAll(n, "RELEASED") \/ DropAll(n, "DENIED")
  BY <1>2, DropAllLedger
<1>3. CASE mState[n] = "RELEASING" /\ CloseDone(n)
  BY <1>3, CloseDoneLedger
<1> QED
  BY <1>1, <1>2, <1>3 DEF Released, Denied

(* processAgpsEventSubscribe: the handle of the request, whose message has *)
(* left the queue, and the others.                                         *)
LEMMA SubscribeLedger ==
    ASSUME TypeOK, Lists, NEW n \in Nifs, NEW g \in Handles,
           NEW t, Subscribe(mState[n], n, g, t), mQ # <<>>, mQ' = Tail(mQ),
           Head(mQ) \in ReqOf(g), NEW h \in Handles, Ledger(h)
    PROVE  Ledger(h)'
<1>1. CASE h = g
  <2>0. mQ \in Seq(AllMsgs)
    BY DEF TypeOK, AllMsgs
  <2>1. /\ Has(mQ, ReqOf(h)) /\ ~Has(mQ', ReqOf(h)) /\ AtMostOne(mQ', ReqOf(h))
        /\ InOrder(mQ, RelOf(h), ReqOf(h)) => ~Has(mQ', RelOf(h))
    BY <1>1, <2>0, TailHas DEF Ledger
  <2>2. ~Subscribed(h) /\ modem[h] \in {"requested", "closing"}
    BY <2>1 DEF Ledger, TypeOK, ModemStates
  <2>3. modem[h] = "requested" => ~Has(mQ', RelOf(h))
    BY <2>1 DEF Ledger
  <2>4. \A o \in Nifs : /\ h \in active'[o] <=> o = n
                        /\ h \notin inactive'[o]
    BY <1>1, <2>2 DEF Subscribe, AddSubscriber, Subscribed, Subs, TypeOK
  <2>5. Subscribed(h)' /\ \A o, q \in Nifs : h \in Subs(o)' /\ h \in Subs(q)' => o = q
    BY <2>4 DEF Subscribed, Subs
  <2>6. CASE mState[n] = "ACQUIRED"
    <3>1. mState' = mState /\ modem'[h] = AfterStatus("GRANTED", modem[h])
      BY <1>1, <2>6 DEF Subscribe, Notify
    <3>2. Served(h)'
      BY <2>4, <2>6, <3>1 DEF Served
    <3> QED
      BY <2>1, <2>2, <2>3, <2>5, <3>1, <3>2 DEF Ledger, AfterStatus
  <2>7. CASE mState[n] # "ACQUIRED"
    <3>1. modem' = modem /\ mState'[n] \in {"PENDING", "RELEASING"}
      BY <2>7 DEF Subscribe, TypeOK
    <3>2. Waits(h)'
      BY <2>4, <3>1 DEF Waits
    <3> QED
      BY <2>1, <2>2, <2>3, <2>5, <3>1, <3>2 DEF Ledger
  <2> QED
    BY <2>6, <2>7
<1>2. CASE h # g
  <2>1. QueueKept(h)
    <3>1. Head(mQ) \notin ReqOf(h)
      BY <1>2 DEF ReqOf
    <3> QED
      BY <3>1, TakeKeeps
  <2>2. modem'[h] = modem[h]
    BY <1>2 DEF Subscribe, Notify
  <2>3. \A o \in Nifs : /\ h \in active'[o] <=> h \in active[o]
                        /\ h \in inactive'[o] <=> h \in inactive[o]
    <3>1. /\ \A o \in Nifs \ {n} : active'[o] = active[o]
          /\ active'[n] = active[n] \/ active'[n] = active[n] \cup {g}
          /\ inactive' = inactive
      BY DEF Subscribe, AddSubscriber, TypeOK
    <3> QED
      BY <1>2, <3>1
  <2>4. \A o \in Nifs : h \in active[o] => mState'[o] = mState[o]
    <3>1. mState[n] = "RELEASED" => h \notin active[n]
      BY DEF Lists, ListMatches, Subs
    <3> QED
      BY <3>1 DEF Subscribe, TypeOK
  <2> QED
    BY <2>1, <2>2, <2>3, <2>4, LedgerKept DEF SmKept
<1> QED
  BY <1>1, <1>2

(* processAgpsEventUnsubscribe, likewise.                                  *)
LEMMA UnsubscribeLedger ==
    ASSUME TypeOK, Lists, NEW n \in Nifs, NEW g \in Handles,
           g \in Subs(n), Unsubscribe(mState[n], n, g), mQ # <<>>, mQ' = Tail(mQ),
           Head(mQ) \in RelOf(g), NEW h \in Handles, Ledger(h)
    PROVE  Ledger(h)'
<1>0. QueueKept(h)
  <2>1. Head(mQ) \notin ReqOf(h)
    BY DEF ReqOf, RelOf
  <2> QED
    BY <2>1, TakeKeeps
<1>m. /\ modem' = modem
      /\ active' = [active EXCEPT ![n] = @ \ {g}]
      /\ inactive' = [inactive EXCEPT ![n] = @ \cup {g}]
  <2>1. mState[n] # "RELEASED"
    BY DEF Lists, ListMatches
  <2> QED
    BY <2>1 DEF Unsubscribe
<1>1. CASE h = g
  <2>1. Has(mQ, RelOf(h)) /\ Subscribed(h)
    <3>1. mQ \in Seq(AllMsgs)
      BY DEF TypeOK, AllMsgs
    <3> QED
      BY <1>1, <3>1, TailHas DEF Subscribed
  <2>2. modem[h] = "closing"
    BY <2>1, SubscribedNoRequest DEF Ledger, TypeOK, ModemStates
  <2>3. \A o \in Nifs : h \in Subs(o)' <=> h \in Subs(o)
    BY <1>1, <1>m DEF Subs, TypeOK
  <2>4. Subscribed(h)'
    BY <2>1, <2>3 DEF Subscribed
  <2> QED
    BY <1>0, <1>m, <2>1, <2>2, <2>3, <2>4 DEF Ledger, QueueKept
<1>2. CASE h # g
  <2>1. \A o \in Nifs : /\ h \in active'[o] <=> h \in active[o]
                        /\ h \in inactive'[o] <=> h \in inactive[o]
    BY <1>2, <1>m DEF TypeOK
  <2>2. \A o \in Nifs : h \in active[o] => mState'[o] = mState[o]
    <3>1. h \in active[n] => active[n] \ {g} # {}
      BY <1>2
    <3> QED
      BY <3>1 DEF Unsubscribe, TypeOK
  <2> QED
    BY <1>0, <1>m, <2>1, <2>2, LedgerKept DEF SmKept
<1> QED
  BY <1>1, <1>2

(* A message that was posted without breaking the queue's type is one of   *)
(* the adapter's messages.                                                 *)
LEMMA PostedTyped ==
    ASSUME TypeOK, TypeOK', NEW e, mQ' = Append(mQ, e)
    PROVE  e \in AllMsgs
<1>1. mQ \in Seq(AllMsgs) /\ mQ' \in Seq(AllMsgs)
  BY DEF TypeOK, AllMsgs
<1>2. Len(mQ) \in Nat /\ mQ'[Len(mQ) + 1] = e /\ Len(mQ') = Len(mQ) + 1
  BY <1>1
<1> QED
  BY <1>1, <1>2

(* Every step keeps the ledger of every handle.                            *)
LEMMA LedgerStep ==
    ASSUME TypeOK, Apart, Lists, Ledgers, [Next]_vars
    PROVE  Ledgers'
<1> SUFFICES ASSUME NEW h \in Handles PROVE Ledger(h)'
  BY DEF Ledgers
<1>a. ASSUME NEW k, Handle(k)
      PROVE  at = mState /\ mQ # <<>> /\ mQ' = Tail(mQ) /\ Head(mQ).kind = k
  BY <1>a DEF Handle, Apart
<1>l. Ledger(h)
  BY DEF Ledgers
<1>q. mQ \in Seq(AllMsgs)
  BY DEF TypeOK, AllMsgs
<1>s. UNCHANGED <<mState, active, inactive, modem>> => SmKept(h)
  BY DEF SmKept
<1>p. ASSUME NEW e \in AllMsgs, e.kind \notin {"requestATL", "releaseATL"},
             mQ' = Append(mQ, e)
      PROVE  QueueKept(h)
  BY <1>p, PostKeeps DEF ReqOf, RelOf
<1>k. ASSUME mQ # <<>>, mQ' = Tail(mQ), Head(mQ).kind # "requestATL"
      PROVE  QueueKept(h)
  <2>1. Head(mQ) \notin ReqOf(h)
    BY <1>k DEF ReqOf
  <2> QED
    BY <1>k, <2>1, TakeKeeps
<1>u. UNCHANGED mQ => QueueKept(h)
  BY DEF QueueKept
<1>1. ASSUME NEW g \in Handles, NEW t \in AgpsTypes, ModemRequests(g, t)
      PROVE  Ledger(h)'
  <2> DEFINE e == [kind |-> "requestATL", h |-> g, t |-> t]
  <2>1. /\ modem[g] = "idle" /\ mQ' = Append(mQ, e)
        /\ modem' = [modem EXCEPT ![g] = "requested"]
        /\ UNCHANGED <<mState, active, inactive>>
    BY <1>1 DEF ModemRequests, smVars
  <2>2. e \in AllMsgs /\ e.kind = "requestATL" /\ e.h = g
    BY AgpsAssumption DEF AllMsgs, AtlMsgs, AllTypes
  <2> HIDE DEF e
  <2>3. CASE g = h
    <3>1. ~Has(mQ, ReqOf(h)) /\ ~Subscribed(h) /\ AtMostOne(mQ, ReqOf(h))
      BY <1>l, <2>1, <2>3 DEF Ledger
    <3>2. e \in ReqOf(h) /\ e \notin RelOf(h)
      BY <2>2, <2>3 DEF ReqOf, RelOf
    <3>3. InOrder(mQ, RelOf(h), ReqOf(h))
      BY <3>1 DEF InOrder, Has
    <3>4. /\ Has(mQ', ReqOf(h)) /\ AtMostOne(mQ', ReqOf(h))
          /\ InOrder(mQ', RelOf(h), ReqOf(h))
      BY <1>q, <2>1, <2>2, <3>1, <3>2, <3>3, AppendHas
    <3>5. modem'[h] = "requested" /\ ~Subscribed(h)'
      BY <2>1, <2>3, <3>1 DEF Subscribed, Subs, TypeOK
    <3> QED
      BY <3>4, <3>5 DEF Ledger, Subscribed
  <2>4. CASE g # h
    <3>1. e \notin ReqOf(h) /\ e \notin RelOf(h)
      BY <2>2, <2>4 DEF ReqOf, RelOf
    <3>2. SmKept(h)
      BY <2>1, <2>4 DEF SmKept, TypeOK
    <3> QED
      BY <1>l, <2>1, <2>2, <3>1, <3>2, PostKeeps, LedgerKept
  <2> QED
    BY <2>3, <2>4
<1>2. ASSUME NEW g \in Handles, ModemReleases(g) PROVE Ledger(h)'
  <2> DEFINE e == [kind |-> "releaseATL", h |-> g]
  <2>1. /\ modem[g] \in {"requested", "granted"} /\ mQ' = Append(mQ, e)
        /\ modem' = [modem EXCEPT ![g] = "closing"]
        /\ UNCHANGED <<mState, active, inactive>>
    BY <1>2 DEF ModemReleases, smVars
  <2>2. e \in AllMsgs /\ e.kind = "releaseATL" /\ e.h = g
    BY DEF AllMsgs, AtlMsgs
  <2> HIDE DEF e
  <2>3. CASE g = h
    <3>1. /\ Has(mQ', ReqOf(h)) <=> Has(mQ, ReqOf(h))
          /\ AtMostOne(mQ', ReqOf(h))
      <4>1. e \notin ReqOf(h)
        BY <2>2 DEF ReqOf
      <4> QED
        BY <1>q, <1>l, <2>1, <2>2, <4>1, AppendHas DEF Ledger
    <3>2. Has(mQ, ReqOf(h)) <=> ~Subscribed(h)
      <4>1. (Waits(h) => Subscribed(h)) /\ (Served(h) => Subscribed(h))
        BY DEF Waits, Served, Subscribed, Subs
      <4> QED
        BY <1>l, <2>1, <2>3, <4>1 DEF Ledger
    <3>3. modem'[h] = "closing"
      BY <2>1, <2>3 DEF TypeOK
    <3>4. /\ Subscribed(h)' <=> Subscribed(h)
          /\ \A o \in Nifs : Subs(o)' = Subs(o)
      BY <2>1 DEF Subscribed, Subs
    <3> QED
      BY <1>l, <3>1, <3>2, <3>3, <3>4 DEF Ledger
  <2>4. CASE g # h
    <3>1. e \notin ReqOf(h) /\ e \notin RelOf(h)
      BY <2>2, <2>4 DEF ReqOf, RelOf
    <3>2. SmKept(h)
      BY <2>1, <2>4 DEF SmKept, TypeOK
    <3> QED
      BY <1>l, <2>1, <2>2, <3>1, <3>2, PostKeeps, LedgerKept
  <2> QED
    BY <2>3, <2>4
<1>3. ASSUME NEW ns \in SUBSET Nifs, CreateAgpsStateMachines(ns)
      PROVE  Ledger(h)'
  <2>1. UNCHANGED <<active, inactive, modem, mQ>>
    BY <1>3 DEF CreateAgpsStateMachines
  <2>2. \A o \in Nifs : h \in active[o] => mState'[o] = mState[o]
    BY <1>3 DEF CreateAgpsStateMachines, Lists, ListMatches, Subs
  <2>3. SmKept(h)
    BY <2>1, <2>2 DEF SmKept
  <2> QED
    BY <1>l, <1>u, <2>1, <2>3, LedgerKept
<1>4. CASE RequestATL
  <2> DEFINE m == Head(mQ)
             t == EffectiveType(m.t)
             n == NifOf(t)
  <2>1. /\ mQ # <<>> /\ mQ' = Tail(mQ) /\ m \in AllMsgs
        /\ m.kind = "requestATL"
    BY <1>4, <1>a, QueueType DEF RequestATL
  <2>a. at = mState
    BY <1>4, <1>a DEF RequestATL
  <2>2. m.h \in Handles /\ n \in Nifs /\ m \in ReqOf(m.h)
    BY <2>1, MsgFields, NifOfType DEF ReqOf
  <2>3. CASE mState[n] = "NULL"
    <3>1. /\ Notify("DENIED", {m.h})
          /\ UNCHANGED <<mState, active, inactive>>
      BY <1>4, <2>a, <2>3 DEF RequestATL, smVars
    <3>2. CASE m.h = h
      <4>1. Has(mQ, ReqOf(h)) /\ ~Has(mQ', ReqOf(h)) /\ AtMostOne(mQ', ReqOf(h))
        BY <1>l, <1>q, <2>1, <2>2, <3>2, TailHas DEF Ledger
      <4>2. ~Subscribed(h)
        BY <1>l, <4>1, SubscribedNoRequest
      <4>3. modem'[h] = "idle"
        BY <3>1, <3>2 DEF Notify, AfterStatus
      <4>4. ~Subscribed(h)'
        BY <3>1, <4>2 DEF Subscribed, Subs
      <4> QED
        BY <4>1, <4>3, <4>4 DEF Ledger, Subscribed
    <3>3. CASE m.h # h
      <4>1. SmKept(h)
        BY <3>1, <3>3 DEF Notify, SmKept
      <4>2. m \notin ReqOf(h)
        BY <3>3 DEF ReqOf
      <4> QED
        BY <1>l, <2>1, <4>1, <4>2, TakeKeeps, LedgerKept
    <3> QED
      BY <3>2, <3>3
  <2>4. CASE mState[n] # "NULL"
    <3>1. Subscribe(mState[n], n, m.h, t)
      BY <1>4, <2>a, <2>4 DEF RequestATL
    <3> HIDE DEF t, n
    <3> QED
      BY <1>l, <2>1, <2>2, <3>1, SubscribeLedger
  <2> QED
    BY <2>3, <2>4
<1>5. CASE ReleaseATL
  <2> DEFINE m == Head(mQ)
             n == SmOf(m.h)
  <2>1. /\ mQ # <<>> /\ mQ' = Tail(mQ) /\ m \in AllMsgs
        /\ m.kind = "releaseATL"
    BY <1>5, <1>a, QueueType DEF ReleaseATL
  <2>2. m.h \in Handles /\ n \in Nifs /\ m \in RelOf(m.h)
    BY <2>1, MsgFields DEF RelOf, SmOf, Nifs
  <2>3. CASE m.h \in Subs(n)
    <3>1. Unsubscribe(mState[n], n, m.h)
      BY <1>5, <1>a, <2>3 DEF ReleaseATL
    <3> HIDE DEF n
    <3> QED
      BY <1>l, <2>1, <2>2, <2>3, <3>1, UnsubscribeLedger
  <2>4. CASE m.h \notin Subs(n)
    BY <1>5, <1>l, <1>k, <1>s, <2>1, <2>4, LedgerKept DEF ReleaseATL
  <2> QED
    BY <2>3, <2>4
<1>6. CASE AtlOpenSuccess \/ AtlPdn \/ AtlOpenFailed \/ AtlClosed
  <2> DEFINE n == NifOf(Head(mQ).t)
  <2>1. n \in Nifs
    BY DEF NifOf, Nifs
  <2>2. QueueKept(h)
    BY <1>6, <1>a, <1>k DEF AtlOpenSuccess, AtlPdn, AtlOpenFailed, AtlClosed
  <2>3. \/ UNCHANGED <<mState, active, inactive, modem>>
        \/ Granted(mState[n], n) \/ Denied(mState[n], n) \/ Released(mState[n], n)
    BY <1>6, <1>a DEF AtlOpenSuccess, AtlPdn, AtlOpenFailed, AtlClosed
  <2> HIDE DEF n
  <2> QED
    BY <1>l, <1>s, <2>1, <2>2, <2>3, LedgerKept, GrantedLedger, ReportLedger
<1>7. ASSUME NEW n \in Nifs, Framework(n) \/ FwLoses(n) PROVE Ledger(h)'
  <2>1. CASE FwOpens(n) \/ FwFails(n) \/ FwCloses(n) \/ WdsAnswers(n) \/ FwLoses(n)
    <3>1. UNCHANGED <<mState, active, inactive, modem>>
      BY <2>1 DEF FwOpens, FwFails, FwCloses, WdsAnswers, FwLoses, smVars
    <3>2. \/ UNCHANGED mQ
          \/ \E t, k : /\ k \in {"openSuccess", "openFailed", "closed", "atlPdn"}
                       /\ mQ' = Append(mQ, [kind |-> k, t |-> t])
      BY <2>1 DEF FwOpens, FwFails, FwCloses, WdsAnswers, FwLoses, FwReports
    <3>3. QueueKept(h)
      <4>1. CASE UNCHANGED mQ
        BY <1>u, <4>1
      <4>2. ASSUME NEW t, NEW k \in {"openSuccess", "openFailed", "closed", "atlPdn"},
                   mQ' = Append(mQ, [kind |-> k, t |-> t])
            PROVE  QueueKept(h)
        <5>1. [kind |-> k, t |-> t] \in AllMsgs
          BY <4>2, PostedTyped, TypeStep
        <5> QED
          BY <1>p, <4>2, <5>1
      <4> QED
        BY <3>2, <4>1, <4>2
    <3> QED
      BY <1>l, <1>s, <3>1, <3>3, LedgerKept
  <2>2. CASE FwOpensBadApn(n)
    <3>1. UNCHANGED <<mState, active, inactive, modem, mQ>>
      BY <2>2 DEF FwOpensBadApn, smVars
    <3> QED
      BY <1>l, <1>s, <1>u, <3>1, LedgerKept
  <2>3. CASE DataConnOpenBadApn(n)
    <3>1. Released(mState[n], n) /\ UNCHANGED mQ
      BY <2>3, ReportCurrent DEF DataConnOpenBadApn
    <3> QED
      BY <1>l, <1>u, <3>1, ReportLedger
  <2> QED
    BY <1>7, <2>1, <2>2, <2>3 DEF Framework
<1>8. CASE UNCHANGED vars
  <2>1. UNCHANGED <<mState, active, inactive, modem, mQ>>
    BY <1>8 DEF vars
  <2> QED
    BY <1>l, <1>s, <1>u, <2>1, LedgerKept
<1>9. CASE Enter
  <2>1. UNCHANGED <<mState, active, inactive, modem, mQ>>
    BY <1>9 DEF Enter, smVars
  <2> QED
    BY <1>l, <1>s, <1>u, <2>1, LedgerKept
<1> QED
  BY <1>1, <1>2, <1>3, <1>4, <1>5, <1>6, <1>7, <1>8, <1>9 DEF Next, Adapter

(* Two threads that have met have met for good.                            *)
LEMMA OverlapStays == ASSUME [Next]_vars, overlap PROVE overlap'
BY DEF Next, Adapter, Framework, ModemRequests, ModemReleases,
       CreateAgpsStateMachines, Enter, RequestATL, ReleaseATL, AtlOpenSuccess,
       AtlPdn, AtlOpenFailed, AtlClosed, FwOpens, FwOpensBadApn, FwFails,
       FwCloses, DataConnOpenBadApn, WdsAnswers, FwLoses, vars

(* The lists and the ledgers hold in every behaviour, for any set of       *)
(* handles, with WDS lookups and unusable APNs, as long as the threads     *)
(* have not met.                                                           *)
InStep == overlap \/ (Apart /\ Lists /\ Ledgers)

THEOREM LedgerInvariance == Spec => [](TypeOK /\ InStep)
<1>1. Init => TypeOK /\ InStep
  <2> SUFFICES ASSUME Init PROVE TypeOK /\ InStep
    OBVIOUS
  <2>1. TypeOK
    BY InitType
  <2>2. Lists /\ Apart
    BY DEF Init, Lists, ListMatches, Subs, Apart, Outside
  <2>3. \A P, Q : ~Has(mQ, P) /\ AtMostOne(mQ, P)
    BY EmptyHas DEF Init
  <2>4. \A h \in Handles : modem[h] = "idle" /\ ~Subscribed(h)
    BY DEF Init, Subscribed, Subs
  <2>5. Ledgers
    BY <2>3, <2>4 DEF Ledgers, Ledger, Subscribed
  <2> QED
    BY <2>1, <2>2, <2>5 DEF InStep
<1>2. TypeOK /\ InStep /\ [Next]_vars => (TypeOK /\ InStep)'
  <2> SUFFICES ASSUME TypeOK, InStep, [Next]_vars, ~overlap' PROVE InStep'
    BY TypeStep DEF InStep
  <2>1. Apart /\ Lists /\ Ledgers
    BY OverlapStays DEF InStep
  <2> QED
    BY <2>1, ApartStep, MatchStep, LedgerStep DEF InStep
<1> QED
  BY <1>1, <1>2, PTL DEF Spec

(* For any number of handles and any order of reports, until a report of   *)
(* an unusable APN meets a handler half way: no subscriber is left in a    *)
(* RELEASED machine, no connection is sought or held for nobody            *)
(* (processAgpsEventUnsubscribe), and RELEASING has somebody to notify.    *)
THEOREM SubscribersMatchStateThm == Spec => []SubscribersMatchState
<1>1. InStep => SubscribersMatchState
  BY DEF InStep, Lists, SubscribersMatchState
<1> QED
  BY <1>1, LedgerInvariance, PTL

(* Likewise, no release, close or denial meant for another handle, for an  *)
(* earlier request of the same one, or reported out of order takes a       *)
(* connection from under a handle the modem believes granted.              *)
THEOREM GrantedIsServedThm == Spec => []GrantedIsServed
<1>1. InStep => GrantedIsServed
  BY DEF InStep, Ledgers, Ledger, Served, GrantedIsServed
<1> QED
  BY <1>1, LedgerInvariance, PTL

(* Without unusable APNs only the adapter thread runs the machines.        *)
LEMMA NeverOverlap == ASSUME ~BadApn PROVE Spec => [](~overlap)
<1> DEFINE I == ~overlap /\ fwBad = Outside
<1>1. Init => I
  BY DEF Init
<1>2. I /\ [Next]_vars => I'
  <2> SUFFICES ASSUME I, [Next]_vars PROVE I'
    OBVIOUS
  <2>1. \A n \in Nifs : ~FwOpensBadApn(n) /\ ~DataConnOpenBadApn(n)
    BY DEF FwOpensBadApn, DataConnOpenBadApn, Outside
  <2>2. CASE Enter
    BY <2>2 DEF Enter
  <2>3. CASE UNCHANGED <<fwBad, overlap>>
    BY <2>3
  <2>4. Adapter => Enter \/ UNCHANGED <<fwBad, overlap>>
    BY DEF Adapter, RequestATL, ReleaseATL, AtlOpenSuccess, AtlPdn,
           AtlOpenFailed, AtlClosed
  <2>5. \A n \in Nifs : Framework(n) \/ FwLoses(n) => UNCHANGED <<fwBad, overlap>>
    BY <2>1 DEF Framework, FwOpens, FwFails, FwCloses, WdsAnswers, FwLoses
  <2> QED
    BY <2>2, <2>3, <2>4, <2>5
       DEF Next, ModemRequests, ModemReleases, CreateAgpsStateMachines, vars
<1> QED
  BY <1>1, <1>2, PTL DEF Spec

-----------------------------------------------------------------------------
(* A data connection, from the command that asks for it to the report that *)
(* it is gone, is in exactly one place: in the command, in a report of its *)
(* failure, up, or in a report of its end.  A machine that is not RELEASED *)
(* has exactly one, a RELEASED one none.  This needs the framework's       *)
(* reports in order: no WDS lookup and no unusable APN in between.         *)
Orderly == ~UseWds /\ ~BadApn

Kinds == {"openSuccess", "openFailed", "closed", "atlPdn"}

(* The reports about a machine's connection of one kind, the commands that *)
(* ask for a connection, and commands that belong to another machine.      *)
Report(n, k) == {m \in AllMsgs : m.kind = k /\ NifOf(m.t) = n}
OpenCmds == {c \in Commands : c.cmd = "REQUEST"}
Foreign(n) == {c \in Commands : NifOf(c.t) # n}

Asked(n) == Has(fwCmds[n], OpenCmds)
Reported(n, k) == Has(mQ, Report(n, k))

(* Nothing of this is there twice, and a connection is reported open       *)
(* before it is reported closed.                                           *)
Counts(n) ==
    /\ AtMostOne(fwCmds[n], OpenCmds)
    /\ \A k \in Kinds : AtMostOne(mQ, Report(n, k))
    /\ InOrder(mQ, Report(n, "openSuccess"), Report(n, "closed"))
    /\ ~Has(fwCmds[n], Foreign(n)) /\ NifOf(mAgpsType[n]) = n

(* The four places exclude each other.                                     *)
OnePlace(n) ==
    /\ Asked(n) => ~Reported(n, "openFailed") /\ ~Reported(n, "closed") /\ ~fwConn[n]
    /\ Reported(n, "openFailed") => ~Reported(n, "closed") /\ ~fwConn[n]
    /\ Reported(n, "closed") => ~fwConn[n]

(* What the machine knows of it.                                           *)
Known(n) ==
    /\ mState[n] \in {"PENDING", "ACQUIRED", "RELEASING"} <=>
           \/ Asked(n) \/ Reported(n, "openFailed")
           \/ Reported(n, "closed") \/ fwConn[n]
    /\ Reported(n, "openSuccess") =>
           /\ mState[n] \in {"PENDING", "RELEASING"}
           /\ Reported(n, "closed") \/ fwConn[n]
    /\ mState[n] = "PENDING" /\ (Reported(n, "closed") \/ fwConn[n]) =>
           Reported(n, "openSuccess")
    /\ mState[n] = "ACQUIRED" => Reported(n, "closed") \/ fwConn[n]

(* No lookup is under way and no APN was refused.                          *)
Quiet(n) == wds[n] = <<>> /\ fwBad[n] = "none" /\ ~Reported(n, "atlPdn")

Connection(n) == Counts(n) /\ OnePlace(n) /\ Known(n) /\ Quiet(n)

(* How posting and taking a report changes what is reported.               *)
ReportsKept(n, S) ==
    \A k \in S : /\ Reported(n, k)' <=> Reported(n, k)
                 /\ AtMostOne(mQ, Report(n, k)) => AtMostOne(mQ', Report(n, k))

OrderKept(n) ==
    InOrder(mQ, Report(n, "openSuccess"), Report(n, "closed")) =>
        InOrder(mQ', Report(n, "openSuccess"), Report(n, "closed"))

(* A message is a report of one kind at most.                              *)
LEMMA ReportFacts ==
    ASSUME NEW n \in Nifs, NEW m \in AllMsgs
    PROVE  /\ \A k \in Kinds : m \in Report(n, k) <=> m.kind = k /\ NifOf(m.t) = n
           /\ \A j, k \in Kinds : m \in Report(n, j) /\ m \in Report(n, k) => j = k
BY DEF Report

(* A message that is not a report about n.                                 *)
LEMMA PostOther ==
    ASSUME TypeOK, NEW n \in Nifs, NEW e \in AllMsgs, mQ' = Append(mQ, e),
           \A k \in Kinds : e \notin Report(n, k)
    PROVE  ReportsKept(n, Kinds) /\ OrderKept(n)
<1>1. mQ \in Seq(AllMsgs)
  BY DEF TypeOK, AllMsgs
<1>2. ReportsKept(n, Kinds)
  BY <1>1, AppendHas DEF ReportsKept, Reported
<1>3. OrderKept(n)
  <2>1. e \notin Report(n, "openSuccess")
    BY DEF Kinds
  <2> QED
    BY <1>1, <2>1, AppendHas DEF OrderKept
<1> QED
  BY <1>2, <1>3

(* Taking a message that is no report about n off the queue.               *)
LEMMA TakeOther ==
    ASSUME TypeOK, NEW n \in Nifs, mQ # <<>>, mQ' = Tail(mQ),
           \A k \in Kinds : Head(mQ) \notin Report(n, k)
    PROVE  ReportsKept(n, Kinds) /\ OrderKept(n)
<1>1. mQ \in Seq(AllMsgs)
  BY DEF TypeOK, AllMsgs
<1> QED
  BY <1>1, TailHas DEF ReportsKept, OrderKept, Reported

(* A report of kind k about n.                                             *)
LEMMA PostReport ==
    ASSUME TypeOK, NEW n \in Nifs, NEW k \in Kinds, NEW e \in Report(n, k),
           mQ' = Append(mQ, e)
    PROVE  /\ ReportsKept(n, Kinds \ {k}) /\ Reported(n, k)'
           /\ AtMostOne(mQ, Report(n, k)) /\ ~Reported(n, k)
                => AtMostOne(mQ', Report(n, k))
           /\ (k = "openSuccess" => ~Reported(n, "closed")) => OrderKept(n)
<1>1. mQ \in Seq(AllMsgs) /\ e \in AllMsgs
  BY DEF TypeOK, AllMsgs, Report
<1>2. \A j \in Kinds \ {k} : e \notin Report(n, j)
  BY <1>1, ReportFacts
<1>3. ReportsKept(n, Kinds \ {k})
  BY <1>1, <1>2, AppendHas DEF ReportsKept, Reported
<1>4. /\ Reported(n, k)'
      /\ AtMostOne(mQ, Report(n, k)) /\ ~Reported(n, k)
           => AtMostOne(mQ', Report(n, k))
  BY <1>1, AppendHas DEF Reported
<1>5. ASSUME k = "openSuccess" => ~Reported(n, "closed") PROVE OrderKept(n)
  <2>1. ~(e \in Report(n, "openSuccess") /\ e \in Report(n, "closed"))
    BY <1>1, ReportFacts DEF Kinds
  <2>2. e \in Report(n, "openSuccess") => ~Has(mQ, Report(n, "closed"))
    BY <1>2, <1>5 DEF Reported, Kinds
  <2> QED
    BY <1>1, <2>1, <2>2, AppendHas DEF OrderKept
<1> QED
  BY <1>3, <1>4, <1>5

(* Taking a report about n off the queue.                                  *)
LEMMA TakeReport ==
    ASSUME TypeOK, NEW n \in Nifs, NEW k \in Kinds, mQ # <<>>, mQ' = Tail(mQ),
           Head(mQ) \in Report(n, k)
    PROVE  /\ ReportsKept(n, Kinds \ {k}) /\ Reported(n, k) /\ OrderKept(n)
           /\ AtMostOne(mQ, Report(n, k))
                => ~Reported(n, k)' /\ AtMostOne(mQ', Report(n, k))
           /\ InOrder(mQ, Report(n, "openSuccess"), Report(n, "closed")) /\ k = "closed"
                => ~Reported(n, "openSuccess")
<1>1. mQ \in Seq(AllMsgs) /\ Head(mQ) \in AllMsgs
  BY DEF TypeOK, AllMsgs, Report
<1>2. \A j \in Kinds \ {k} : Head(mQ) \notin Report(n, j)
  BY <1>1, ReportFacts
<1>3. ReportsKept(n, Kinds \ {k})
  BY <1>1, <1>2, TailHas DEF ReportsKept, Reported
<1>4. Reported(n, k) /\ OrderKept(n)
  BY <1>1, TailHas DEF OrderKept, Reported
<1>5. AtMostOne(mQ, Report(n, k))
        => ~Reported(n, k)' /\ AtMostOne(mQ', Report(n, k))
  BY <1>1, TailHas DEF Reported
<1>6. InOrder(mQ, Report(n, "openSuccess"), Report(n, "closed")) /\ k = "closed"
        => ~Reported(n, "openSuccess")
  BY <1>1, TailHas DEF Reported
<1> QED
  BY <1>3, <1>4, <1>5, <1>6

(* What a new command does to the commands of n.                           *)
LEMMA CommandAdds ==
    ASSUME TypeOK, NEW n \in Nifs, NEW c \in {"REQUEST", "RELEASE"},
           NEW t \in AllTypes, Command(n, c, t)
    PROVE  /\ Asked(n)' <=> Asked(n) \/ c = "REQUEST"
           /\ AtMostOne(fwCmds[n], OpenCmds) /\ (c = "REQUEST" => ~Asked(n))
                => AtMostOne(fwCmds'[n], OpenCmds)
           /\ ~Has(fwCmds[n], Foreign(n)) /\ NifOf(t) = n
                => ~Has(fwCmds'[n], Foreign(n))
           /\ \A o \in Nifs \ {n} : fwCmds'[o] = fwCmds[o]
<1> DEFINE e == [cmd |-> c, t |-> t]
<1>1. e \in Commands /\ e.cmd = c /\ e.t = t /\ fwCmds[n] \in Seq(Commands)
  BY DEF Commands, TypeOK
<1>2. /\ fwCmds'[n] = Append(fwCmds[n], e)
      /\ \A o \in Nifs \ {n} : fwCmds'[o] = fwCmds[o]
  BY DEF Command, TypeOK
<1> HIDE DEF e
<1>3. (e \in OpenCmds <=> c = "REQUEST") /\ (e \in Foreign(n) <=> NifOf(t) # n)
  BY <1>1 DEF OpenCmds, Foreign
<1> QED
  BY <1>1, <1>2, <1>3, AppendHas DEF Asked

(* What the framework's taking a command does.                             *)
LEMMA CommandTaken ==
    ASSUME TypeOK, NEW n \in Nifs, NEW c \in {"REQUEST", "RELEASE"},
           FwCommand(n, c), Counts(n)
    PROVE  /\ c = "REQUEST" => Asked(n) /\ ~Asked(n)'
           /\ c # "REQUEST" => (Asked(n)' <=> Asked(n))
           /\ AtMostOne(fwCmds'[n], OpenCmds) /\ ~Has(fwCmds'[n], Foreign(n))
           /\ Head(fwCmds[n]).t \in AllTypes /\ NifOf(Head(fwCmds[n]).t) = n
           /\ \A o \in Nifs \ {n} : fwCmds'[o] = fwCmds[o]
<1>1. /\ fwCmds[n] \in Seq(Commands) /\ fwCmds[n] # <<>>
      /\ fwCmds'[n] = Tail(fwCmds[n]) /\ Head(fwCmds[n]).cmd = c
      /\ \A o \in Nifs \ {n} : fwCmds'[o] = fwCmds[o]
  BY DEF FwCommand, TypeOK
<1>2. Head(fwCmds[n]) \in Commands
  BY <1>1, HeadHolds
<1>3. Head(fwCmds[n]).t \in AllTypes /\ (Head(fwCmds[n]) \in OpenCmds <=> c = "REQUEST")
  BY <1>1, <1>2 DEF Commands, OpenCmds
<1>4. NifOf(Head(fwCmds[n]).t) = n
  <2>1. Head(fwCmds[n]) \notin Foreign(n)
    BY <1>1, TailHas DEF Counts
  <2> QED
    BY <1>2, <2>1 DEF Foreign
<1> QED
  BY <1>1, <1>3, <1>4, TailHas DEF Asked, Counts

(* A step that does not concern the connection of n.                       *)
LEMMA ConnectionKept ==
    ASSUME NEW n \in Nifs, Connection(n), ReportsKept(n, Kinds), OrderKept(n),
           fwCmds'[n] = fwCmds[n], fwConn'[n] = fwConn[n], mState'[n] = mState[n],
           wds'[n] = wds[n], fwBad'[n] = fwBad[n], NifOf(mAgpsType'[n]) = n
    PROVE  Connection(n)'
<1>1. /\ Asked(n)' <=> Asked(n)
      /\ \A k \in Kinds : Reported(n, k)' <=> Reported(n, k)
  BY DEF Asked, ReportsKept
<1>2. Counts(n)'
  BY DEF Connection, Counts, ReportsKept, OrderKept
<1>3. OnePlace(n)' /\ Known(n)' /\ Quiet(n)'
  BY <1>1 DEF Connection, OnePlace, Known, Quiet, Kinds
<1> QED
  BY <1>2, <1>3 DEF Connection

(* The handlers of one machine do not touch the other.                     *)
LEMMA OtherMachine ==
    ASSUME TypeOK, NEW n \in Nifs, NEW o \in Nifs \ {n},
           \/ Granted(mState[o], o) \/ Released(mState[o], o) \/ Denied(mState[o], o)
           \/ \E h, t : Subscribe(mState[o], o, h, t)
           \/ \E h : Unsubscribe(mState[o], o, h)
    PROVE  mState'[n] = mState[n] /\ fwCmds'[n] = fwCmds[n]
<1>1. /\ mState' = mState \/ \E s : mState' = [mState EXCEPT ![o] = s]
      /\ fwCmds' = fwCmds \/ \E c, t : Command(o, c, t)
  BY DEF Granted, Released, Denied, Subscribe, Unsubscribe, DropAll, CloseDone
<1> QED
  BY <1>1 DEF Command, TypeOK

(* What the events leave in the hands of the framework.                    *)
LEMMA ConnSubscribe ==
    ASSUME TypeOK, NEW n \in Nifs, Connection(n), NEW h, NEW t \in AllTypes,
           NifOf(t) = n, Subscribe(mState[n], n, h, t), mAgpsType'[n] = t,
           ReportsKept(n, Kinds), OrderKept(n),
           UNCHANGED <<fwConn, wds, fwBad>>
    PROVE  Connection(n)'
<1>1. CASE mState[n] = "RELEASED"
  <2>1. Command(n, "REQUEST", t) /\ mState'[n] = "PENDING"
    BY <1>1 DEF Subscribe, TypeOK
  <2>2. /\ ~Asked(n) /\ ~fwConn[n]
        /\ \A k \in Kinds : ~Reported(n, k)
    BY <1>1 DEF Connection, Known, Quiet, Kinds
  <2>3. /\ Asked(n)' /\ AtMostOne(fwCmds'[n], OpenCmds)
        /\ ~Has(fwCmds'[n], Foreign(n))
    BY <2>1, <2>2, CommandAdds DEF Connection, Counts
  <2>4. \A k \in Kinds : ~Reported(n, k)'
    BY <2>2 DEF ReportsKept
  <2>5. Counts(n)'
    BY <2>3 DEF Connection, Counts, ReportsKept, OrderKept
  <2>6. OnePlace(n)' /\ Known(n)' /\ Quiet(n)'
    BY <2>1, <2>2, <2>3, <2>4 DEF OnePlace, Known, Quiet, Connection, Kinds
  <2> QED
    BY <2>5, <2>6 DEF Connection
<1>2. CASE mState[n] # "RELEASED"
  BY <1>2, ConnectionKept DEF Subscribe
<1> QED
  BY <1>1, <1>2

(* Unsubscribing keeps the connection invariant.                           *)
LEMMA ConnUnsubscribe ==
    ASSUME TypeOK, NEW n \in Nifs, Connection(n), NEW h, Unsubscribe(mState[n], n, h),
           ReportsKept(n, Kinds), OrderKept(n),
           UNCHANGED <<mAgpsType, fwConn, wds, fwBad>>
    PROVE  Connection(n)'
<1>t. mAgpsType[n] \in AllTypes /\ NifOf(mAgpsType[n]) = n
  BY DEF TypeOK, Connection, Counts
<1>1. CASE mState[n] \in {"PENDING", "ACQUIRED"} /\ active[n] \ {h} = {}
  <2>1. Command(n, "RELEASE", mAgpsType[n]) /\ mState'[n] = "RELEASING"
    BY <1>1 DEF Unsubscribe, TypeOK
  <2>2. /\ Asked(n)' <=> Asked(n)
        /\ AtMostOne(fwCmds'[n], OpenCmds) /\ ~Has(fwCmds'[n], Foreign(n))
    BY <1>t, <2>1, CommandAdds DEF Connection, Counts
  <2>3. \A k \in Kinds : Reported(n, k)' <=> Reported(n, k)
    BY DEF ReportsKept
  <2>4. Counts(n)'
    BY <2>2 DEF Connection, Counts, ReportsKept, OrderKept
  <2>5. OnePlace(n)' /\ Known(n)' /\ Quiet(n)'
    BY <1>1, <2>1, <2>2, <2>3 DEF OnePlace, Known, Quiet, Connection, Kinds
  <2> QED
    BY <2>4, <2>5 DEF Connection
<1>2. CASE ~(mState[n] \in {"PENDING", "ACQUIRED"} /\ active[n] \ {h} = {})
  BY <1>t, <1>2, ConnectionKept DEF Unsubscribe
<1> QED
  BY <1>1, <1>2

(* A granted connection keeps the connection invariant.                    *)
LEMMA ConnGranted ==
    ASSUME TypeOK, NEW n \in Nifs, Connection(n), Granted(mState[n], n),
           mQ # <<>>, mQ' = Tail(mQ), Head(mQ) \in Report(n, "openSuccess"),
           UNCHANGED <<mAgpsType, fwConn, wds, fwBad>>
    PROVE  Connection(n)'
<1>1. /\ ReportsKept(n, Kinds \ {"openSuccess"}) /\ OrderKept(n)
      /\ Reported(n, "openSuccess") /\ ~Reported(n, "openSuccess")'
      /\ AtMostOne(mQ', Report(n, "openSuccess"))
  BY TakeReport DEF Connection, Counts, Kinds
<1>2. \A k \in {"openFailed", "closed", "atlPdn"} : Reported(n, k)' <=> Reported(n, k)
  BY <1>1 DEF ReportsKept, Kinds
<1>3. fwCmds' = fwCmds /\ (Asked(n)' <=> Asked(n))
  BY DEF Granted, Asked
<1>4. Counts(n)'
  BY <1>1, <1>3 DEF Connection, Counts, ReportsKept, OrderKept
<1>5. mState[n] \in {"PENDING", "RELEASING"} /\ (Reported(n, "closed") \/ fwConn[n])
  BY <1>1 DEF Connection, Known
<1>6. mState'[n] = IF mState[n] = "PENDING" THEN "ACQUIRED" ELSE mState[n]
  BY DEF Granted, TypeOK
<1>7. OnePlace(n)' /\ Known(n)' /\ Quiet(n)'
  BY <1>1, <1>2, <1>3, <1>5, <1>6 DEF OnePlace, Known, Quiet, Connection
<1> QED
  BY <1>4, <1>7 DEF Connection

(* The end of a connection: the report that was its last place has been    *)
(* taken, and the machine has none, or has asked for a new one.            *)
LEMMA ConnEnds ==
    ASSUME TypeOK, NEW n \in Nifs, Connection(n),
           NEW k \in {"openFailed", "closed"},
           mQ # <<>>, mQ' = Tail(mQ), Head(mQ) \in Report(n, k),
           \/ DropAll(n, "RELEASED") \/ DropAll(n, "DENIED") \/ CloseDone(n),
           UNCHANGED <<mAgpsType, fwConn, wds, fwBad>>
    PROVE  Connection(n)'
<1>t. mAgpsType[n] \in AllTypes /\ NifOf(mAgpsType[n]) = n
  BY DEF TypeOK, Connection, Counts
<1>1. /\ ReportsKept(n, Kinds \ {k}) /\ OrderKept(n) /\ Reported(n, k)
      /\ ~Reported(n, k)' /\ AtMostOne(mQ', Report(n, k))
      /\ k = "closed" => ~Reported(n, "openSuccess")
  BY TakeReport DEF Connection, Counts, Kinds
<1>2. /\ ~Asked(n) /\ ~fwConn[n] /\ ~Reported(n, "openSuccess")
      /\ \A j \in {"openFailed", "closed"} \ {k} : ~Reported(n, j)
  BY <1>1 DEF Connection, OnePlace, Known
<1>3. \A j \in Kinds : ~Reported(n, j)'
  BY <1>1, <1>2 DEF ReportsKept, Kinds, Connection, Quiet
<1>4. \A j \in Kinds : AtMostOne(mQ', Report(n, j))
  BY <1>1 DEF ReportsKept, Connection, Counts
<1>5. CASE mState'[n] = "RELEASED" /\ fwCmds'[n] = fwCmds[n]
  <2>1. ~Asked(n)'
    BY <1>2, <1>5 DEF Asked
  <2>2. Counts(n)'
    BY <1>1, <1>4, <1>5 DEF Connection, Counts, OrderKept
  <2>3. OnePlace(n)' /\ Known(n)' /\ Quiet(n)'
    BY <1>2, <1>3, <1>5, <2>1 DEF OnePlace, Known, Quiet, Connection, Kinds
  <2> QED
    BY <2>2, <2>3 DEF Connection
<1>6. CASE mState'[n] = "PENDING" /\ Command(n, "REQUEST", mAgpsType[n])
  <2>1. /\ Asked(n)' /\ AtMostOne(fwCmds'[n], OpenCmds)
        /\ ~Has(fwCmds'[n], Foreign(n))
    BY <1>t, <1>2, <1>6, CommandAdds DEF Connection, Counts
  <2>2. Counts(n)'
    BY <1>1, <1>4, <2>1 DEF Connection, Counts, OrderKept
  <2>3. OnePlace(n)' /\ Known(n)' /\ Quiet(n)'
    BY <1>2, <1>3, <1>6, <2>1 DEF OnePlace, Known, Quiet, Connection, Kinds
  <2> QED
    BY <2>2, <2>3 DEF Connection
<1>7. \/ mState'[n] = "RELEASED" /\ fwCmds'[n] = fwCmds[n]
      \/ mState'[n] = "PENDING" /\ Command(n, "REQUEST", mAgpsType[n])
  BY DEF DropAll, CloseDone, TypeOK
<1> QED
  BY <1>5, <1>6, <1>7

(* The framework's answers: the connection moves from the command to the   *)
(* next place, or from up to the report of its end.                        *)
LEMMA ConnOpens ==
    ASSUME TypeOK, NEW n \in Nifs, Connection(n), FwOpens(n)
    PROVE  Connection(n)'
<1>1. /\ Asked(n) /\ ~Asked(n)' /\ AtMostOne(fwCmds'[n], OpenCmds)
      /\ ~Has(fwCmds'[n], Foreign(n))
      /\ Head(fwCmds[n]).t \in AllTypes /\ NifOf(Head(fwCmds[n]).t) = n
  BY CommandTaken DEF FwOpens, Connection
<1>2. PICK e \in Report(n, "openSuccess") : mQ' = Append(mQ, e)
  <2> DEFINE e == [kind |-> "openSuccess", t |-> Head(fwCmds[n]).t]
  <2>1. e \in AllMsgs /\ e.kind = "openSuccess" /\ e.t = Head(fwCmds[n]).t
    BY <1>1 DEF AllMsgs, ConnMsgs
  <2>2. mQ' = Append(mQ, e)
    BY DEF FwOpens, FwReports
  <2> HIDE DEF e
  <2> QED
    BY <1>1, <2>1, <2>2 DEF Report
<1>3. /\ ~fwConn[n] /\ \A k \in Kinds : ~Reported(n, k)
      /\ mState[n] \in {"PENDING", "RELEASING"}
  BY <1>1 DEF Connection, OnePlace, Known, Quiet, Kinds
<1>4. /\ ReportsKept(n, Kinds \ {"openSuccess"}) /\ Reported(n, "openSuccess")'
      /\ AtMostOne(mQ', Report(n, "openSuccess")) /\ OrderKept(n)
  BY <1>2, <1>3, PostReport DEF Connection, Counts, Kinds
<1>5. \A k \in Kinds \ {"openSuccess"} : ~Reported(n, k)'
  BY <1>3, <1>4 DEF ReportsKept
<1>6. fwConn'[n] /\ UNCHANGED <<mState, mAgpsType, wds, fwBad>>
  BY DEF FwOpens, smVars, TypeOK
<1>7. Counts(n)'
  BY <1>1, <1>4, <1>6 DEF Connection, Counts, ReportsKept, OrderKept
<1>8. OnePlace(n)' /\ Known(n)' /\ Quiet(n)'
  BY <1>1, <1>3, <1>4, <1>5, <1>6 DEF OnePlace, Known, Quiet, Connection, Kinds
<1> QED
  BY <1>7, <1>8 DEF Connection

(* A failed connection keeps the connection invariant.                     *)
LEMMA ConnFails ==
    ASSUME TypeOK, NEW n \in Nifs, Connection(n), FwFails(n)
    PROVE  Connection(n)'
<1>1. /\ Asked(n) /\ ~Asked(n)' /\ AtMostOne(fwCmds'[n], OpenCmds)
      /\ ~Has(fwCmds'[n], Foreign(n))
      /\ Head(fwCmds[n]).t \in AllTypes /\ NifOf(Head(fwCmds[n]).t) = n
  BY CommandTaken DEF FwFails, Connection
<1>2. PICK e \in Report(n, "openFailed") : mQ' = Append(mQ, e)
  <2> DEFINE e == [kind |-> "openFailed", t |-> Head(fwCmds[n]).t]
  <2>1. e \in AllMsgs /\ e.kind = "openFailed" /\ e.t = Head(fwCmds[n]).t
    BY <1>1 DEF AllMsgs, ConnMsgs
  <2>2. mQ' = Append(mQ, e)
    BY DEF FwFails, FwReports
  <2> HIDE DEF e
  <2> QED
    BY <1>1, <2>1, <2>2 DEF Report
<1>3. /\ ~fwConn[n] /\ \A k \in Kinds : ~Reported(n, k)
      /\ mState[n] \in {"PENDING", "RELEASING"}
  BY <1>1 DEF Connection, OnePlace, Known, Quiet, Kinds
<1>4. /\ ReportsKept(n, Kinds \ {"openFailed"}) /\ Reported(n, "openFailed")'
      /\ AtMostOne(mQ', Report(n, "openFailed")) /\ OrderKept(n)
  BY <1>2, <1>3, PostReport DEF Connection, Counts, Kinds
<1>5. \A k \in Kinds \ {"openFailed"} : ~Reported(n, k)'
  BY <1>3, <1>4 DEF ReportsKept
<1>6. UNCHANGED <<fwConn, mState, mAgpsType, wds, fwBad>>
  BY DEF FwFails, smVars
<1>7. Counts(n)'
  BY <1>1, <1>4, <1>6 DEF Connection, Counts, ReportsKept, OrderKept
<1>8. OnePlace(n)' /\ Known(n)' /\ Quiet(n)'
  BY <1>1, <1>3, <1>4, <1>5, <1>6 DEF OnePlace, Known, Quiet, Connection, Kinds
<1> QED
  BY <1>7, <1>8 DEF Connection

(* The connection goes down and is reported closed.                        *)
LEMMA ConnDown ==
    ASSUME TypeOK, NEW n \in Nifs, Connection(n), fwConn[n], ~fwConn'[n],
           NEW e \in Report(n, "closed"), mQ' = Append(mQ, e),
           Asked(n)' <=> Asked(n), AtMostOne(fwCmds'[n], OpenCmds),
           ~Has(fwCmds'[n], Foreign(n)),
           UNCHANGED <<mState, mAgpsType, wds, fwBad>>
    PROVE  Connection(n)'
<1>1. ~Asked(n) /\ ~Reported(n, "openFailed") /\ ~Reported(n, "closed")
  BY DEF Connection, OnePlace
<1>2. /\ ReportsKept(n, Kinds \ {"closed"}) /\ Reported(n, "closed")'
      /\ AtMostOne(mQ', Report(n, "closed")) /\ OrderKept(n)
  BY <1>1, PostReport DEF Connection, Counts, Kinds
<1>3. \A k \in Kinds \ {"closed"} : Reported(n, k)' <=> Reported(n, k)
  BY <1>2 DEF ReportsKept
<1>4. Counts(n)'
  BY <1>2 DEF Connection, Counts, ReportsKept, OrderKept
<1>5. OnePlace(n)' /\ Known(n)' /\ Quiet(n)'
  BY <1>1, <1>2, <1>3 DEF OnePlace, Known, Quiet, Connection, Kinds
<1> QED
  BY <1>4, <1>5 DEF Connection

(* Every step keeps each machine's connection in one place.                *)
LEMMA ConnectionStep ==
    ASSUME Orderly, TypeOK, Apart, Lists,
           \A n \in Nifs : Connection(n), [Next]_vars, NEW n \in Nifs
    PROVE  Connection(n)'
<1>c. Connection(n)
  OBVIOUS
<1>a. ASSUME NEW k, Handle(k)
      PROVE  at = mState /\ mQ # <<>> /\ mQ' = Tail(mQ) /\ Head(mQ).kind = k
  BY <1>a DEF Handle, Apart
<1>t. NifOf(mAgpsType[n]) = n
  BY <1>c DEF Connection, Counts
<1>u. UNCHANGED mQ => ReportsKept(n, Kinds) /\ OrderKept(n)
  BY DEF ReportsKept, OrderKept, Reported
<1>p. ASSUME NEW e \in AllMsgs, mQ' = Append(mQ, e),
             e.kind \notin Kinds \/ NifOf(e.t) # n
      PROVE  ReportsKept(n, Kinds) /\ OrderKept(n)
  <2>1. \A k \in Kinds : e \notin Report(n, k)
    BY <1>p DEF Report
  <2> QED
    BY <1>p, <2>1, PostOther
<1>k. ASSUME mQ # <<>>, mQ' = Tail(mQ),
             Head(mQ).kind \notin Kinds \/ NifOf(Head(mQ).t) # n
      PROVE  ReportsKept(n, Kinds) /\ OrderKept(n)
  <2>1. \A k \in Kinds : Head(mQ) \notin Report(n, k)
    BY <1>k DEF Report
  <2> QED
    BY <1>k, <2>1, TakeOther
<1>1. ASSUME NEW h \in Handles, NEW t \in AgpsTypes, ModemRequests(h, t)
      PROVE  Connection(n)'
  <2> DEFINE e == [kind |-> "requestATL", h |-> h, t |-> t]
  <2>1. e \in AllMsgs /\ e.kind \notin Kinds
    BY AgpsAssumption DEF AllMsgs, AtlMsgs, AllTypes, Kinds
  <2>2. mQ' = Append(mQ, e)
    BY <1>1 DEF ModemRequests
  <2>3. UNCHANGED <<smVars, wds, fwCmds, fwConn, fwBad>>
    BY <1>1 DEF ModemRequests
  <2> HIDE DEF e
  <2> QED
    BY <1>c, <1>t, <1>p, <2>1, <2>2, <2>3, ConnectionKept DEF smVars
<1>2. ASSUME NEW h \in Handles, ModemReleases(h) PROVE Connection(n)'
  <2> DEFINE e == [kind |-> "releaseATL", h |-> h]
  <2>1. e \in AllMsgs /\ e.kind \notin Kinds
    BY DEF AllMsgs, AtlMsgs, Kinds
  <2>2. mQ' = Append(mQ, e)
    BY <1>2 DEF ModemReleases
  <2>3. UNCHANGED <<smVars, wds, fwCmds, fwConn, fwBad>>
    BY <1>2 DEF ModemReleases
  <2> HIDE DEF e
  <2> QED
    BY <1>c, <1>t, <1>p, <2>1, <2>2, <2>3, ConnectionKept DEF smVars
<1>3. ASSUME NEW ns \in SUBSET Nifs, CreateAgpsStateMachines(ns)
      PROVE  Connection(n)'
  <2>1. UNCHANGED <<mAgpsType, mQ, wds, fwCmds, fwConn, fwBad>>
    BY <1>3 DEF CreateAgpsStateMachines
  <2>2. mState'[n] = mState[n] \/ (mState[n] = "NULL" /\ mState'[n] = "RELEASED")
    BY <1>3 DEF CreateAgpsStateMachines
  <2>3. Counts(n)' /\ OnePlace(n)' /\ Quiet(n)'
    BY <1>c, <2>1 DEF Connection, Counts, OnePlace, Quiet, Asked, Reported
  <2>4. Known(n)'
    BY <1>c, <2>1, <2>2 DEF Connection, Known, Asked, Reported
  <2> QED
    BY <2>3, <2>4 DEF Connection
<1>4. CASE RequestATL
  <2> DEFINE m == Head(mQ)
             t == EffectiveType(m.t)
             o == NifOf(t)
  <2>1. /\ mQ # <<>> /\ mQ' = Tail(mQ) /\ m \in AllMsgs
        /\ m.kind = "requestATL" /\ UNCHANGED <<wds, fwConn, fwBad>>
    BY <1>4, <1>a, QueueType DEF RequestATL
  <2>a. at = mState
    BY <1>4, <1>a DEF RequestATL
  <2>2. t \in AllTypes /\ o \in Nifs
    BY <2>1, MsgFields, NifOfType
  <2>3. ReportsKept(n, Kinds) /\ OrderKept(n)
    BY <1>k, <2>1 DEF Kinds
  <2>4. CASE mState[o] = "NULL"
    <3>1. UNCHANGED <<smVars, fwCmds>>
      BY <1>4, <2>a, <2>4 DEF RequestATL
    <3> QED
      BY <1>c, <1>t, <2>1, <2>3, <3>1, ConnectionKept DEF smVars
  <2>5. CASE mState[o] # "NULL"
    <3>1. Subscribe(mState[o], o, m.h, t) /\ mAgpsType' = [mAgpsType EXCEPT ![o] = t]
      BY <1>4, <2>a, <2>5 DEF RequestATL
    <3>2. CASE o = n
      <4>1. mAgpsType'[n] = t /\ NifOf(t) = n /\ Subscribe(mState[n], n, m.h, t)
        BY <3>1, <3>2 DEF TypeOK
      <4> HIDE DEF t, o
      <4> QED
        BY <1>c, <2>1, <2>2, <2>3, <4>1, ConnSubscribe
    <3>3. CASE o # n
      <4>1. mAgpsType'[n] = mAgpsType[n]
        BY <3>1, <3>3 DEF TypeOK
      <4> HIDE DEF t, o
      <4>2. mState'[n] = mState[n] /\ fwCmds'[n] = fwCmds[n]
        BY <2>2, <3>1, <3>3, OtherMachine
      <4> QED
        BY <1>c, <1>t, <2>1, <2>3, <4>1, <4>2, ConnectionKept
    <3> QED
      BY <3>2, <3>3
  <2> QED
    BY <2>4, <2>5
<1>5. CASE ReleaseATL
  <2> DEFINE m == Head(mQ)
             o == SmOf(m.h)
  <2>1. /\ mQ # <<>> /\ mQ' = Tail(mQ) /\ m.kind = "releaseATL"
        /\ UNCHANGED <<mAgpsType, wds, fwConn, fwBad>>
    BY <1>5, <1>a DEF ReleaseATL
  <2>2. o \in Nifs
    BY DEF SmOf, Nifs
  <2>3. ReportsKept(n, Kinds) /\ OrderKept(n)
    BY <1>k, <2>1 DEF Kinds
  <2>4. CASE m.h \in Subs(o)
    <3>1. Unsubscribe(mState[o], o, m.h)
      BY <1>5, <1>a, <2>4 DEF ReleaseATL
    <3> HIDE DEF o
    <3>2. CASE o = n
      BY <1>c, <2>1, <2>3, <3>1, <3>2, ConnUnsubscribe
    <3>3. CASE o # n
      <4>1. mState'[n] = mState[n] /\ fwCmds'[n] = fwCmds[n]
        BY <2>2, <3>1, <3>3, OtherMachine
      <4> QED
        BY <1>c, <1>t, <2>1, <2>3, <4>1, ConnectionKept
    <3> QED
      BY <3>2, <3>3
  <2>5. CASE m.h \notin Subs(o)
    <3>1. UNCHANGED <<mState, fwCmds>>
      BY <1>5, <2>5 DEF ReleaseATL
    <3> QED
      BY <1>c, <1>t, <2>1, <2>3, <3>1, ConnectionKept
  <2> QED
    BY <2>4, <2>5
<1>6. CASE AtlOpenSuccess \/ AtlPdn \/ AtlOpenFailed \/ AtlClosed
  <2> DEFINE m == Head(mQ)
             o == NifOf(m.t)
  <2>1. /\ mQ # <<>> /\ mQ' = Tail(mQ) /\ m \in AllMsgs /\ m.kind \in Kinds
        /\ UNCHANGED <<mAgpsType, wds, fwConn, fwBad>>
    BY <1>6, <1>a, QueueType
       DEF AtlOpenSuccess, AtlPdn, AtlOpenFailed, AtlClosed, Kinds, Orderly
  <2>2. o \in Nifs /\ m \in Report(o, m.kind)
    BY <2>1 DEF NifOf, Nifs, Report
  <2>3. m.kind # "atlPdn"
    <3>1. mQ \in Seq(AllMsgs)
      BY DEF TypeOK, AllMsgs
    <3>2. Reported(o, m.kind)
      BY <2>1, <2>2, <3>1, TailHas DEF Reported
    <3> QED
      BY <2>2, <3>2 DEF Connection, Quiet
  <2>4. /\ m.kind = "openSuccess" => Granted(mState[o], o)
        /\ m.kind = "openFailed" => Denied(mState[o], o)
        /\ m.kind = "closed" => Released(mState[o], o)
    BY <1>6, <1>a DEF AtlOpenSuccess, AtlPdn, AtlOpenFailed, AtlClosed, Orderly
  <2>5. CASE o # n
    <3>1. ReportsKept(n, Kinds) /\ OrderKept(n)
      BY <1>k, <2>1, <2>5
    <3> HIDE DEF o
    <3>2. mState'[n] = mState[n] /\ fwCmds'[n] = fwCmds[n]
      BY <2>1, <2>2, <2>3, <2>4, <2>5, OtherMachine DEF Kinds
    <3> QED
      BY <1>c, <1>t, <2>1, <3>1, <3>2, ConnectionKept
  <2>6. CASE o = n /\ m.kind = "openSuccess"
    BY <1>c, <2>1, <2>2, <2>4, <2>6, ConnGranted
  <2>7. CASE o = n /\ m.kind = "openFailed"
    <3>1. Reported(n, "openFailed")
      BY <1>c, <2>1, <2>2, <2>7, TakeReport
    <3>2. mState[n] \in {"PENDING", "RELEASING"}
      BY <1>c, <3>1 DEF Connection, OnePlace, Known
    <3>3. DropAll(n, "DENIED") \/ CloseDone(n)
      BY <2>4, <2>7, <3>2 DEF Denied
    <3> QED
      BY <1>c, <2>1, <2>2, <2>7, <3>3, ConnEnds
  <2>8. CASE o = n /\ m.kind = "closed"
    <3>1. Reported(n, "closed") /\ ~Reported(n, "openSuccess")
      BY <1>c, <2>1, <2>2, <2>8, TakeReport DEF Connection, Counts
    <3>2. mState[n] \in {"ACQUIRED", "RELEASING"}
      BY <1>c, <3>1 DEF Connection, Known
    <3>3. DropAll(n, "RELEASED") \/ CloseDone(n)
      BY <2>4, <2>8, <3>2 DEF Released
    <3> QED
      BY <1>c, <2>1, <2>2, <2>8, <3>3, ConnEnds
  <2> QED
    BY <2>1, <2>3, <2>5, <2>6, <2>7, <2>8 DEF Kinds
<1>7. ASSUME NEW o \in Nifs, Framework(o) \/ FwLoses(o) PROVE Connection(n)'
  <2>c. Connection(o) /\ Counts(o) /\ Quiet(o)
    BY DEF Connection
  <2>0. ~FwOpensBadApn(o) /\ ~DataConnOpenBadApn(o) /\ ~WdsAnswers(o)
    BY <2>c DEF FwOpensBadApn, DataConnOpenBadApn, WdsAnswers, Orderly, Quiet
  <2>1. CASE o = n
    <3>1. CASE FwOpens(o)
      BY <1>c, <2>1, <3>1, ConnOpens
    <3>2. CASE FwFails(o)
      BY <1>c, <2>1, <3>2, ConnFails
    <3>3. CASE FwCloses(o)
      <4>1. /\ Asked(n)' <=> Asked(n)
            /\ AtMostOne(fwCmds'[n], OpenCmds) /\ ~Has(fwCmds'[n], Foreign(n))
            /\ Head(fwCmds[n]).t \in AllTypes /\ NifOf(Head(fwCmds[n]).t) = n
        BY <2>c, <2>1, <3>3, CommandTaken DEF FwCloses
      <4>2. ~fwConn'[n] /\ UNCHANGED <<mState, mAgpsType, wds, fwBad>>
        BY <2>1, <3>3 DEF FwCloses, smVars, TypeOK
      <4>3. CASE fwConn[n]
        <5> DEFINE e == [kind |-> "closed", t |-> Head(fwCmds[n]).t]
        <5>1. e \in AllMsgs /\ e.kind = "closed" /\ e.t = Head(fwCmds[n]).t
          BY <4>1 DEF AllMsgs, ConnMsgs
        <5>2. mQ' = Append(mQ, e)
          BY <2>1, <3>3, <4>3 DEF FwCloses, FwReports
        <5> HIDE DEF e
        <5>3. e \in Report(n, "closed")
          BY <4>1, <5>1 DEF Report
        <5> QED
          BY <1>c, <4>1, <4>2, <4>3, <5>2, <5>3, ConnDown
      <4>4. CASE ~fwConn[n]
        <5>1. UNCHANGED mQ
          BY <2>1, <3>3, <4>4 DEF FwCloses
        <5>2. Counts(n)'
          BY <1>c, <4>1, <4>2, <5>1 DEF Connection, Counts
        <5>3. OnePlace(n)' /\ Known(n)' /\ Quiet(n)'
          BY <1>c, <4>1, <4>2, <4>4, <5>1
             DEF Connection, OnePlace, Known, Quiet, Reported
        <5> QED
          BY <5>2, <5>3 DEF Connection
      <4> QED
        BY <4>3, <4>4
    <3>4. CASE FwLoses(o)
      <4>1. /\ fwConn[n] /\ ~fwConn'[n] /\ fwCmds' = fwCmds
            /\ UNCHANGED <<mState, mAgpsType, wds, fwBad>>
        BY <2>1, <3>4 DEF FwLoses, smVars, TypeOK
      <4>2. PICK t \in AllTypes : /\ NifOf(t) = n
                                  /\ mQ' = Append(mQ, [kind |-> "closed", t |-> t])
        BY <2>1, <3>4 DEF FwLoses
      <4>3. [kind |-> "closed", t |-> t] \in Report(n, "closed")
        BY <4>2 DEF Report, AllMsgs, ConnMsgs
      <4>4. /\ Asked(n)' <=> Asked(n)
            /\ AtMostOne(fwCmds'[n], OpenCmds) /\ ~Has(fwCmds'[n], Foreign(n))
        BY <1>c, <4>1 DEF Asked, Connection, Counts
      <4> QED
        BY <1>c, <4>1, <4>2, <4>3, <4>4, ConnDown
    <3> QED
      BY <1>7, <2>0, <3>1, <3>2, <3>3, <3>4 DEF Framework
  <2>2. CASE o # n
    <3>1. CASE FwOpens(o) \/ FwFails(o) \/ FwCloses(o)
      <4>1. /\ fwCmds'[n] = fwCmds[n]
            /\ Head(fwCmds[o]).t \in AllTypes /\ NifOf(Head(fwCmds[o]).t) = o
        BY <2>c, <2>2, <3>1, CommandTaken DEF FwOpens, FwFails, FwCloses
      <4>2. fwConn'[n] = fwConn[n] /\ UNCHANGED <<mState, mAgpsType, wds, fwBad>>
        BY <2>2, <3>1 DEF FwOpens, FwFails, FwCloses, smVars, TypeOK
      <4>3. \/ UNCHANGED mQ
            \/ \E k \in Kinds : FwReports(o, k)
        BY <3>1 DEF FwOpens, FwFails, FwCloses, Kinds
      <4>4. ASSUME NEW k \in Kinds, FwReports(o, k)
            PROVE  ReportsKept(n, Kinds) /\ OrderKept(n)
        <5> DEFINE e == [kind |-> k, t |-> Head(fwCmds[o]).t]
        <5>1. e \in AllMsgs /\ NifOf(e.t) # n
          BY <2>2, <4>1 DEF AllMsgs, ConnMsgs, Kinds
        <5>2. mQ' = Append(mQ, e)
          BY <4>4 DEF FwReports
        <5> HIDE DEF e
        <5> QED
          BY <1>p, <5>1, <5>2
      <4> QED
        BY <1>c, <1>t, <1>u, <4>1, <4>2, <4>3, <4>4, ConnectionKept
    <3>2. CASE FwLoses(o)
      <4>1. fwConn'[n] = fwConn[n] /\ UNCHANGED <<mState, mAgpsType, wds, fwCmds, fwBad>>
        BY <2>2, <3>2 DEF FwLoses, smVars, TypeOK
      <4>2. PICK t \in AllTypes : /\ NifOf(t) = o
                                  /\ mQ' = Append(mQ, [kind |-> "closed", t |-> t])
        BY <3>2 DEF FwLoses
      <4>3. [kind |-> "closed", t |-> t] \in AllMsgs
        BY DEF AllMsgs, ConnMsgs
      <4>4. ReportsKept(n, Kinds) /\ OrderKept(n)
        BY <1>p, <2>2, <4>2, <4>3
      <4> QED
        BY <1>c, <1>t, <4>1, <4>4, ConnectionKept
    <3> QED
      BY <1>7, <2>0, <3>1, <3>2 DEF Framework
  <2> QED
    BY <2>1, <2>2
<1>8. CASE UNCHANGED vars
  BY <1>c, <1>t, <1>u, <1>8, ConnectionKept DEF vars
<1>9. CASE Enter
  BY <1>c, <1>t, <1>u, <1>9, ConnectionKept DEF Enter, smVars
<1> QED
  BY <1>1, <1>2, <1>3, <1>4, <1>5, <1>6, <1>7, <1>8, <1>9 DEF Next, Adapter

(* With reports in order each machine's connection is in one place in      *)
(* every reachable state.                                                  *)
THEOREM ConnectionInvariance ==
    ASSUME Orderly PROVE Spec => [](\A n \in Nifs : Connection(n))
<1> DEFINE Conns == \A n \in Nifs : Connection(n)
<1>1. Init => Conns
  <2> SUFFICES ASSUME Init, NEW n \in Nifs PROVE Connection(n)
    OBVIOUS
  <2>1. /\ \A P, Q : ~Has(mQ, P) /\ AtMostOne(mQ, P) /\ InOrder(mQ, P, Q)
        /\ \A P, Q : ~Has(fwCmds[n], P) /\ AtMostOne(fwCmds[n], P)
    BY EmptyHas DEF Init
  <2>2. ~fwConn[n] /\ mState[n] = "NULL" /\ wds[n] = <<>> /\ fwBad[n] = "none"
    BY DEF Init, Outside
  <2>3. NifOf(mAgpsType[n]) = n
    BY DEF Init, NifOf, Nifs
  <2>4. Counts(n)
    BY <2>1, <2>3 DEF Counts
  <2> QED
    BY <2>1, <2>2, <2>4 DEF Connection, OnePlace, Known, Quiet, Asked, Reported
<1>2. TypeOK /\ InStep /\ ~overlap /\ Conns /\ [Next]_vars => Conns'
  BY ConnectionStep DEF InStep
<1>3. Spec => [](~overlap)
  BY NeverOverlap DEF Orderly
<1> HIDE DEF Conns
<1>4. Spec => []Conns
  BY <1>1, <1>2, <1>3, LedgerInvariance, PTL DEF Spec
<1> QED
  BY <1>4 DEF Conns

(* With reports in order, a machine in ACQUIRED has a connection, or the   *)
(* report of its loss is in the queue: processAgpsEventSubscribe grants a  *)
(* new handle nothing that is not there.                                   *)
THEOREM AcquiredIsUpThm == ASSUME Orderly PROVE Spec => []AcquiredIsUp
<1>1. (\A n \in Nifs : Connection(n)) => AcquiredIsUp
  <2> SUFFICES ASSUME NEW n \in Nifs, Connection(n), mState[n] = "ACQUIRED", ~fwConn[n]
               PROVE  \E i \in DOMAIN mQ : mQ[i].kind = "closed" /\ NifOf(mQ[i].t) = n
    BY DEF AcquiredIsUp
  <2>1. Has(mQ, Report(n, "closed"))
    BY DEF Connection, Known, Reported
  <2> QED
    BY <2>1 DEF Has, Report
<1> QED
  BY <1>1, ConnectionInvariance, PTL

(* With reports in order, no data connection is left open when every       *)
(* handle is idle and nothing is under way.                                *)
THEOREM NoLeakedConnectionThm == ASSUME Orderly PROVE Spec => []NoLeakedConnection
<1>1. /\ \A n \in Nifs : Connection(n)
      /\ TypeOK /\ InStep /\ ~overlap
      => NoLeakedConnection
  <2> SUFFICES ASSUME \A n \in Nifs : Connection(n), TypeOK,
                      Lists, Ledgers,
                      \A h \in Handles : modem[h] = "idle", NEW n \in Nifs
               PROVE  ~fwConn[n]
    BY DEF NoLeakedConnection, InStep
  <2>1. \A h \in Handles : h \notin Subs(n)
    BY DEF Ledgers, Ledger, Subscribed
  <2>2. active[n] = {} /\ inactive[n] = {}
    BY <2>1 DEF Subs, TypeOK
  <2>3. mState[n] \notin {"PENDING", "ACQUIRED", "RELEASING"}
    BY <2>2 DEF Lists, ListMatches
  <2> QED
    BY <2>3 DEF Connection, Known
<1>2. Spec => [](~overlap)
  BY NeverOverlap DEF Orderly
<1> QED
  BY <1>1, <1>2, ConnectionInvariance, LedgerInvariance, PTL
==============================================================================
