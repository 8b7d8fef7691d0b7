------------------------ MODULE TrackingSessionsProof ------------------------
(***************************************************************************)
(* The power state reported to the listener of getPowerStateChangesCommand *)
(* always agrees with the session tables, for any sessions, clients and    *)
(* options and whatever fails.                                             *)
(***************************************************************************)
EXTENDS TrackingSessions, ListFacts, WellFoundedInduction

(* Either a step leaves the tables and mPowerOn alone, or it reports the   *)
(* power state of the new tables.                                          *)
Reports == \/ UNCHANGED sessVars
           \/ mPowerOn' = PowerState(time', dist')

(* saveTrackingSession and eraseTrackingSession end with                   *)
(* reportPowerStateIfChanged.                                              *)
LEMMA SaveReports ==
    \A t, d, s, o : SaveTrackingSession(t, d, s, o) => Reports
BY DEF SaveTrackingSession, Reports

(* eraseTrackingSession reports the power state.                           *)
LEMMA EraseReports == \A s : EraseTrackingSession(s) => Reports
BY DEF EraseTrackingSession, Reports

(* MsgStartTracking::proc and MsgUpdateTracking::proc, run for a new or a  *)
(* kept command.                                                           *)
LEMMA CommandReports ==
    ASSUME NEW s, NEW o, NEW n
    PROVE  /\ StartTracking(s, o, n) => Reports
           /\ UpdateTracking(s, o, n) => Reports
<1>1. StartKept(s, o, n) \/ StartRefused(s, o, n) => Reports
  BY DEF StartKept, StartRefused, Reports
<1>2. StartDistance(s, o, n) => Reports
  BY SaveReports DEF StartDistance
<1>3. StartTime(s, o, n) => Reports
  BY SaveReports DEF StartTime
<1>4. UpdateKept(s, o, n) \/ UpdateRefused(s, o, n) \/ UpdateDistance(s, o, n)
        => Reports
  BY DEF UpdateKept, UpdateRefused, UpdateDistance, Reports
<1>5. UpdateToDistance(s, o, n) => Reports
  BY SaveReports DEF UpdateToDistance
<1>6. UpdateToTime(s, o, n) => Reports
  BY EraseReports DEF UpdateToTime
<1>7. UpdateTime(s, o, n) => Reports
  BY SaveReports DEF UpdateTime
<1> QED
  BY <1>1, <1>2, <1>3, <1>4, <1>5, <1>6, <1>7 DEF StartTracking, UpdateTracking

(* Every step of the adapter and of its environment.                       *)
LEMMA NextReports == Next => Reports
<1> SUFFICES ASSUME Next PROVE Reports
  OBVIOUS
<1>1. CASE Command
  <2>1. PICK s \in Sessions :
          (\E o \in Options \cup {NoOpt} : Start(s, o) \/ Update(s, o)) \/ Stop(s)
    BY <1>1 DEF Command
  <2>2. ASSUME NEW o \in Options \cup {NoOpt}, Start(s, o) \/ Update(s, o)
        PROVE  Reports
    BY <2>2, CommandReports DEF Start, Update
  <2>3. CASE Stop(s)
    <3>1. StopUnknown(s) \/ StopDistance(s) => Reports
      BY DEF StopUnknown, StopDistance, Reports
    <3>2. StopTime(s) => Reports
      BY EraseReports DEF StopTime
    <3> QED
      BY <2>3, <3>1, <3>2 DEF Stop
  <2> QED
    BY <2>1, <2>2, <2>3
<1>2. CASE Removal
  <2>1. ASSUME NEW c \in Clients, RemoveClient(c) PROVE Reports
    BY <2>1 DEF RemoveClient, Reports
  <2>2. ASSUME NEW s \in Sessions, RemoveTime(s) PROVE Reports
    BY <2>2, EraseReports DEF RemoveTime
  <2>3. RemoveRest => Reports
    BY DEF RemoveRest, Reports
  <2> QED
    BY <1>2, <2>1, <2>2, <2>3 DEF Removal
<1>3. CASE Response
  <2>1. ASSUME NEW k, RespStart(k) PROVE Reports
    BY <2>1, EraseReports DEF RespStart, Reports
  <2>2. RespUpdate \/ RespRestarted => Reports
    BY SaveReports DEF RespUpdate, RespRestarted, Reports
  <2>3. RespStop \/ RespRestart \/ EngineUp => Reports
    BY DEF RespStop, RespRestart, EngineUp, Reports
  <2>4. RespDistanceStop => Reports
    BY EraseReports DEF RespDistanceStop, Reports
  <2>5. RespClientStop => Reports
    BY DEF RespClientStop, Reports
  <2>6. RespSwitch => Reports
    BY SaveReports DEF RespSwitch
  <2>7. PendingStart \/ PendingUpdate => Reports
    BY CommandReports DEF PendingStart, PendingUpdate
  <2> QED
    BY <1>3, <2>1, <2>2, <2>3, <2>4, <2>5, <2>6, <2>7 DEF Response
<1>4. CASE LocApi
  BY <1>4 DEF LocApi, ApiStart, ApiStop, ApiStartDbt, ApiStopDbt, ApiOpen,
              ApiOnly, Reports
<1>5. CASE NHzChanged \/ Reconfigure \/ Reopen \/ EngineDown \/ LockChanged
  BY <1>5 DEF NHzChanged, Reconfigure, Reopen, EngineDown, LockChanged, ApiOnly, Reports
<1> QED
  BY <1>1, <1>2, <1>3, <1>4, <1>5 DEF Next

(* GnssAdapter::reportPowerStateIfChanged: mPowerOn is TRUE exactly when a *)
(* time based or distance based session is in its table, in every state.   *)
THEOREM PowerFollowsSessionsThm == Spec => []PowerFollowsSessions
<1>1. Init => PowerFollowsSessions
  BY DEF Init, PowerFollowsSessions, TimeSet, DistSet
<1>2. PowerFollowsSessions /\ [Next]_vars => PowerFollowsSessions'
  <2> SUFFICES ASSUME PowerFollowsSessions, [Next]_vars
               PROVE  PowerFollowsSessions'
    OBVIOUS
  <2>1. Reports
    BY NextReports DEF vars, sessVars, Reports
  <2> QED
    BY <2>1 DEF Reports, PowerFollowsSessions, PowerState, TimeSet, DistSet, sessVars
<1> QED
  BY <1>1, <1>2, PTL DEF Spec
-----------------------------------------------------------------------------
(* TypeOK, and with it the shape of the requests and responses: which      *)
(* answer a request of each kind carries, for how many sessions, and that  *)
(* the options a handler reads from them are options.                      *)

Carriers == {"update", "switch", "restart", "restarted"}

ReqShape ==
    {r \in Requests :
        /\ r.op = "open" => r.k = "none"
        /\ r.op = "start" => /\ r.o \in TrackingOptions
                             /\ r.k \in {"start", "update", "none"}
        /\ r.op = "stop" => r.k \in {"stop", "none"}
        /\ r.op = "startDbt" => r.k \in {"dbtStart", "restarted", "none"}
        /\ r.op = "stopDbt" => r.k \in {"dbtStop", "erase", "switch", "restart"}
        /\ r.k \in Carriers => r.ro \in TrackingOptions
        /\ r.k \notin {"none", "erase"} => \E s \in Sessions : r.ids = {s}}

MsgShape ==
    {m \in Messages :
        /\ m.k \in Carriers \cup {"startCmd", "updateCmd"} => m.o \in TrackingOptions
        /\ m.k \notin {"erase", "engineUp"} => \E s \in Sessions : m.ids = {s}
        /\ m.k \notin {"start", "update", "stop"} => m.ok = TRUE}

CmdShape == {m \in MsgShape : m.k \in {"startCmd", "updateCmd"}}

(* What the handlers of the adapter thread write.                          *)
Tables == time \in [Sessions -> OptOrNone] /\ dist \in [Sessions -> OptOrNone]
AdapterOK ==
    /\ Tables
    /\ mPowerOn \in BOOLEAN /\ spe \in BOOLEAN /\ hub \in BOOLEAN
    /\ apiQ \in Seq(ReqShape)
    /\ mPendingMsgs \in Seq(CmdShape)
    /\ owed \in [Sessions -> Int]
(* What the LocApi thread, the modem and the histories add.                *)
OtherOK ==
    /\ nHz \in BOOLEAN /\ capsKnown \in BOOLEAN
    /\ up \in BOOLEAN /\ lock \in BOOLEAN /\ told \in BOOLEAN
    /\ adQ \in Seq(MsgShape)
    /\ clients \subseteq Clients /\ removing \in Clients \cup {NoClient}
    /\ engine \in TrackingOptions \cup {Off} /\ dbt \subseteq Sessions
    /\ started \subseteq Sessions /\ over \subseteq Sessions /\ hasty \subseteq Sessions
    /\ updates \in [Sessions -> Nat]
    /\ events \in Nat /\ flushes \in Nat
Shape == AdapterOK /\ OtherOK

(* The shape is stronger than the types.                                   *)
LEMMA ShapeTypes == Shape => TypeOK
<1>1. ReqShape \subseteq Requests /\ MsgShape \subseteq Messages /\ CmdShape \subseteq Messages
  BY DEF ReqShape, MsgShape, CmdShape
<1>2. /\ \A q \in Seq(ReqShape) : q \in Seq(Requests)
      /\ \A q \in Seq(MsgShape) : q \in Seq(Messages)
      /\ \A q \in Seq(CmdShape) : q \in Seq(Messages)
  BY <1>1, SeqDef
<1> QED
  BY <1>2 DEF Shape, AdapterOK, OtherOK, Tables, TypeOK

(* Natural numbers have a least one, so the searches for the smallest      *)
(* interval and the lowest power mode find one, however many sessions.     *)
LEMMA NatMin ==
    ASSUME NEW T, T \subseteq Nat, T # {}
    PROVE  \E x \in T : \A y \in T : x <= y
<1>1. PICK x \in T : \A y \in T : ~(<<y, x>> \in OpToRel(<, Nat))
  BY NatLessThanWellFounded, WFMin
<1>2. \A y \in T : ~(y < x)
  BY <1>1 DEF OpToRel
<1> QED
  BY <1>2

(* A set of naturals that is not empty has a least element.                *)
LEMMA LeastOfFinds ==
    ASSUME NEW T, T \subseteq Nat, T # {}
    PROVE  LeastOf(T) \in T /\ \A y \in T : LeastOf(T) <= y
BY NatMin DEF LeastOf

(* The scan for the smallest interval returns the options of a session     *)
(* that no other session undercuts.                                        *)
LEMMA SmallestFinds ==
    ASSUME Tables, NEW S, S \subseteq TimeSet, S # {}
    PROVE  \E s \in S : Smallest(S) = time[s]
                        /\ \A r \in S : time[s].ivl <= time[r].ivl
<1>1. \A s \in S : s \in Nat /\ time[s] \in TrackingOptions /\ time[s].ivl \in Nat
  BY TrackingAssumption DEF Tables, TimeSet, OptOrNone, TrackingOptions
<1> DEFINE I == {time[s].ivl : s \in S}
<1>2. PICK i \in I : \A j \in I : i <= j
  BY <1>1, NatMin
<1> DEFINE F == {s \in S : time[s].ivl = i}
<1>3. PICK f \in F : \A g \in F : f <= g
  <2>1. F # {} /\ F \subseteq Nat
    BY <1>1, <1>2
  <2> HIDE DEF F
  <2> QED
    BY <2>1, NatMin
<1> DEFINE First(s) == \A r \in S \ {s} : \/ time[s].ivl < time[r].ivl
                                          \/ time[s].ivl = time[r].ivl /\ s < r
<1>4. f \in S /\ First(f)
  <2>1. f \in S /\ time[f].ivl = i
    BY <1>3
  <2>2. ASSUME NEW r \in S \ {f}
        PROVE  time[f].ivl < time[r].ivl \/ (time[f].ivl = time[r].ivl /\ f < r)
    <3>1. i <= time[r].ivl /\ i \in Nat
      BY <1>1, <1>2, <2>1
    <3>2. CASE time[r].ivl = i
      BY <1>1, <1>3, <2>1, <3>2
    <3>3. CASE time[r].ivl # i
      BY <1>1, <2>1, <3>1, <3>3
    <3> QED
      BY <3>2, <3>3
  <2> QED
    BY <2>1, <2>2
<1> DEFINE c == CHOOSE s \in S : First(s)
<1>5. c \in S /\ First(c)
  BY <1>4
<1>6. Smallest(S) = time[c]
  BY DEF Smallest
<1>7. \A r \in S : time[c].ivl <= time[r].ivl
  <2> TAKE r \in S
  <2>1. CASE r = c
    BY <1>1, <2>1
  <2>2. CASE r # c
    BY <1>1, <1>5, <2>2
  <2> QED
    BY <2>1, <2>2
<1> QED
  BY <1>5, <1>6, <1>7

(* The scan for the power mode returns a power mode.                       *)
LEMMA LowestFinds ==
    ASSUME Tables, NEW S, S \subseteq TimeSet
    PROVE  LowestPowerMode(S) \in PowerModes
<1>1. \A s \in S : time[s].pm \in PowerModes
  BY TrackingAssumption DEF Tables, TimeSet, OptOrNone, TrackingOptions
<1> DEFINE after == {s \in S : \A r \in S : time[r].pm = 0 => r < s}
           P == {time[s].pm : s \in after}
<1>2. CASE after = {}
  BY <1>2 DEF LowestPowerMode, PowerModes
<1>3. CASE after # {}
  <2>1. P # {} /\ P \subseteq PowerModes
    BY <1>1, <1>3
  <2>2. LowestPowerMode(S) = LeastOf(P)
    BY <1>3 DEF LowestPowerMode
  <2> HIDE DEF P
  <2>3. LeastOf(P) \in P
    <3>1. PowerModes \subseteq Nat
      BY DEF PowerModes
    <3> QED
      BY <2>1, <3>1, LeastOfFinds
  <2> QED
    BY <2>1, <2>2, <2>3
<1> QED
  BY <1>2, <1>3

(* checkAndRestartTimeBasedSession restarts the engine fast enough for     *)
(* every session.                                                          *)
LEMMA RestartFinds ==
    ASSUME Tables, TimeSet # {}
    PROVE  /\ RestartOptions \in TrackingOptions
           /\ \A s \in TimeSet : RestartOptions.ivl <= time[s].ivl
<1>1. \A s \in TimeSet : s \in Nat /\ time[s] \in TrackingOptions
                         /\ time[s].pm \in PowerModes
  BY TrackingAssumption DEF Tables, TimeSet, OptOrNone, TrackingOptions
<1>2. PICK t \in TimeSet : /\ Smallest(TimeSet) = time[t]
                           /\ \A r \in TimeSet : time[t].ivl <= time[r].ivl
  BY SmallestFinds
<1> DEFINE first == LeastOf(TimeSet)
           valid == {time[s].pm : s \in TimeSet} \ {0}
           p == IF time[first].pm = 0 THEN 0 ELSE LeastOf(valid)
<1>3. first \in TimeSet
  <2>1. TimeSet \subseteq Nat
    BY <1>1
  <2> QED
    BY <2>1, LeastOfFinds
<1>4. p \in PowerModes
  <2>1. CASE time[first].pm = 0
    BY <2>1 DEF PowerModes
  <2>2. CASE time[first].pm # 0
    <3>1. valid # {} /\ valid \subseteq PowerModes /\ PowerModes \subseteq Nat
      BY <1>1, <1>3, <2>2 DEF PowerModes
    <3>2. LeastOf(valid) \in valid
      <4> HIDE DEF valid
      <4> QED
        BY <3>1, LeastOfFinds
    <3> QED
      BY <2>2, <3>1, <3>2
  <2> QED
    BY <2>1, <2>2
<1>5. RestartOptions = [time[t] EXCEPT !.pm = p]
  BY <1>2 DEF RestartOptions
<1> HIDE DEF p
<1> QED
  BY <1>1, <1>2, <1>4, <1>5 DEF TrackingOptions

(* The options handlers save: MIN_TRACKING_INTERVAL and the power mode     *)
(* fallback.                                                               *)
LEMMA ClampedOptions ==
    ASSUME NEW o \in TrackingOptions
    PROVE  /\ Clamped(o) \in TrackingOptions /\ M2Fallback(o) \in TrackingOptions
           /\ ForNHz(o) \in TrackingOptions
           /\ Clamped(o).far = o.far /\ M2Fallback(o).far = o.far
           /\ Clamped(o).ivl >= MinInterval /\ M2Fallback(o).ivl = o.ivl
           /\ ForNHz(o).ivl <= o.ivl
BY TrackingAssumption DEF Clamped, M2Fallback, ForNHz, SpeRaises, TrackingOptions, PowerModes

(* A multiplexing step for session s either answers the client at once or  *)
(* posts one request whose response will, of a kind in K.                  *)
Posts(out, s, K) ==
    /\ out.spe \in BOOLEAN /\ out.hub \in BOOLEAN
    /\ \/ out.reqs = <<>> /\ out.now = TRUE
       \/ \E r \in ReqShape : /\ out.reqs = <<r>> /\ out.now = FALSE
                              /\ r.ids = {s} /\ r.k \in K

(* startTimeBasedTracking and updateTracking post one start or answer.     *)
LEMMA StartEnginePosts ==
    ASSUME Shape, NEW s \in Sessions, NEW o \in TrackingOptions,
           NEW k \in {"start", "update"}, NEW old \in OptOrNone,
           k = "update" => old \in TrackingOptions
    PROVE  Posts(StartEngine(k, s, o, old), s, {k})
<1> DEFINE r == Request("start", {s}, ForNHz(o), k, old)
<1>1. r \in ReqShape /\ r.ids = {s} /\ r.k = k
  <2>1. ForNHz(o) \in TrackingOptions
    BY ClampedOptions
  <2>2. r \in Requests
    BY <2>1 DEF Request, Requests, OptOrNone, RespKinds
  <2> QED
    BY <2>1, <2>2 DEF Request, ReqShape, Carriers
<1>2. spe \in BOOLEAN /\ hub \in BOOLEAN /\ nHz \in BOOLEAN
  BY DEF Shape, AdapterOK, OtherOK
<1>3. CASE SpeSkips
  BY <1>2, <1>3 DEF StartEngine, Outcome, Posts
<1>4. CASE ~SpeSkips
  <2> DEFINE out == StartEngine(k, s, o, old)
  <2>1. out.reqs = <<r>> /\ out.now = FALSE /\ out.hub = TRUE
    BY <1>4 DEF StartEngine, Outcome
  <2>2. out.spe = (spe \/ SpeRaises(o))
    BY <1>4 DEF StartEngine, Outcome
  <2>3. out.spe \in BOOLEAN
    BY <1>2, <2>2
  <2> HIDE DEF out, r
  <2>4. Posts(out, s, {k})
    BY <1>1, <2>1, <2>3 DEF Posts
  <2> QED
    BY <2>4 DEF out
<1> QED
  BY <1>3, <1>4

(* What the multiplexing steps post.                                       *)
LEMMA MultiplexPosts ==
    ASSUME Shape, NEW s \in Sessions
    PROVE  /\ \A o \in TrackingOptions : Posts(StartMultiplex(s, o), s, {"start"})
           /\ \A o \in TrackingOptions :
                s \in TimeSet => Posts(UpdateMultiplex(s, o), s, {"update"})
           /\ Posts(StopMultiplex(s), s, {"start", "stop"})
<1>1. Tables /\ spe \in BOOLEAN /\ hub \in BOOLEAN
  BY DEF Shape, AdapterOK
<1>2. Posts(Outcome(<<>>, spe, hub, TRUE), s, {"start"})
      /\ Posts(Outcome(<<>>, spe, hub, TRUE), s, {"update"})
      /\ Posts(Outcome(<<>>, spe, hub, TRUE), s, {"start", "stop"})
  BY <1>1 DEF Posts, Outcome
<1>3. \A r \in TimeSet : time[r] \in TrackingOptions
  BY <1>1 DEF Tables, TimeSet, OptOrNone
<1>4. \A S \in SUBSET TimeSet : S # {} => Smallest(S) \in TrackingOptions
  BY <1>1, <1>3, SmallestFinds
<1>5. \A S \in SUBSET TimeSet : LowestPowerMode(S) \in PowerModes
  BY <1>1, LowestFinds
<1>6. \A o \in TrackingOptions :
         /\ Posts(StartEngine("start", s, o, NoOpt), s, {"start"})
         /\ Posts(StartEngine("start", s, o, NoOpt), s, {"start", "stop"})
  <2>1. \A o \in TrackingOptions : Posts(StartEngine("start", s, o, NoOpt), s, {"start"})
    BY StartEnginePosts DEF OptOrNone
  <2> QED
    BY <2>1 DEF Posts
<1>7. ASSUME NEW o \in TrackingOptions
      PROVE  Posts(StartMultiplex(s, o), s, {"start"})
  <2> DEFINE m == Smallest(TimeSet)
             faster == o.ivl < m.ivl
             stronger == o.pm < LowestPowerMode(TimeSet)
             mux == [m EXCEPT !.ivl = IF faster THEN o.ivl ELSE @,
                              !.pm = IF stronger THEN o.pm ELSE @]
  <2>1. CASE TimeSet = {}
    BY <1>6, <2>1 DEF StartMultiplex
  <2>2. CASE TimeSet # {}
    <3>1. m \in TrackingOptions
      BY <1>4, <2>2
    <3>2. mux \in TrackingOptions
      BY <3>1 DEF TrackingOptions
    <3>3. StartMultiplex(s, o) = IF faster \/ stronger
                                 THEN StartEngine("start", s, mux, NoOpt)
                                 ELSE Outcome(<<>>, spe, hub, TRUE)
      BY <2>2 DEF StartMultiplex
    <3> HIDE DEF mux, faster, stronger
    <3> QED
      BY <1>2, <1>6, <3>2, <3>3
  <2> QED
    BY <2>1, <2>2
<1>8. ASSUME NEW o \in TrackingOptions, s \in TimeSet
      PROVE  Posts(UpdateMultiplex(s, o), s, {"update"})
  <2> DEFINE others == TimeSet \ {s}
             m == Smallest(others)
             changed == time[s].ivl # o.ivl \/ time[s].pm # o.pm
             faster == o.ivl < m.ivl
             stronger == o.pm < LowestPowerMode(others)
             mux == IF others = {} THEN o
                    ELSE [m EXCEPT !.ivl = IF faster THEN o.ivl ELSE @,
                                   !.pm = IF stronger THEN o.pm ELSE @]
  <2>1. mux \in TrackingOptions
    <3>1. CASE others = {}
      BY <3>1
    <3>2. CASE others # {}
      <4>1. m \in TrackingOptions
        BY <1>4, <3>2
      <4> QED
        BY <3>2, <4>1 DEF TrackingOptions
    <3> QED
      BY <3>1, <3>2
  <2>2. UpdateMultiplex(s, o) = IF changed /\ (faster \/ stronger \/ others = {})
                                THEN StartEngine("update", s, mux, time[s])
                                ELSE Outcome(<<>>, spe, hub, TRUE)
    BY DEF UpdateMultiplex
  <2> HIDE DEF mux, faster, stronger, changed
  <2>3. Posts(StartEngine("update", s, mux, time[s]), s, {"update"})
    BY <1>3, <1>8, <2>1, StartEnginePosts DEF OptOrNone
  <2> QED
    BY <1>2, <2>2, <2>3
<1>9. Posts(StopMultiplex(s), s, {"start", "stop"})
  <2> DEFINE others == TimeSet \ {s}
             m == Smallest(others)
             pm == LowestPowerMode(others)
             r == Request("stop", {s}, NoOpt, "stop", NoOpt)
  <2>1. CASE others = {}
    <3>1. r \in ReqShape /\ r.ids = {s} /\ r.k = "stop"
      <4>1. r \in Requests
        BY DEF Request, Requests, OptOrNone, RespKinds
      <4> QED
        BY <4>1 DEF Request, ReqShape, Carriers
    <3>2. StopMultiplex(s) = Outcome(<<r>>, FALSE, FALSE, FALSE)
      BY <2>1 DEF StopMultiplex
    <3> HIDE DEF r
    <3> QED
      BY <3>1, <3>2 DEF Posts, Outcome
  <2>2. CASE others # {}
    <3>1. m \in TrackingOptions /\ pm \in PowerModes
      BY <1>4, <1>5, <2>2
    <3>2. [m EXCEPT !.pm = pm] \in TrackingOptions
      BY <3>1 DEF TrackingOptions
    <3>3. StopMultiplex(s) = IF time[s].ivl < m.ivl \/ time[s].pm < pm
                             THEN StartEngine("start", s, [m EXCEPT !.pm = pm], NoOpt)
                             ELSE Outcome(<<>>, spe, hub, TRUE)
      BY <2>2 DEF StopMultiplex
    <3> HIDE DEF m, pm
    <3> QED
      BY <1>2, <1>6, <3>2, <3>3
  <2> QED
    BY <2>1, <2>2
<1> QED
  BY <1>7, <1>8, <1>9

(* The requests handlers post have the shape.                              *)
LEMMA DistanceRequests ==
    ASSUME NEW s \in Sessions, NEW S \in SUBSET Sessions, NEW o \in TrackingOptions
    PROVE  /\ Request("startDbt", {s}, NoOpt, "dbtStart", NoOpt) \in ReqShape
           /\ Request("startDbt", S, NoOpt, "none", NoOpt) \in ReqShape
           /\ Request("startDbt", {s}, NoOpt, "restarted", o) \in ReqShape
           /\ Request("stopDbt", {s}, NoOpt, "switch", o) \in ReqShape
           /\ Request("stopDbt", {s}, NoOpt, "restart", o) \in ReqShape
           /\ Request("stopDbt", {s}, NoOpt, "dbtStop", NoOpt) \in ReqShape
           /\ Request("stopDbt", S, NoOpt, "erase", NoOpt) \in ReqShape
           /\ Request("start", {}, o, "none", NoOpt) \in ReqShape
           /\ Request("stop", {}, NoOpt, "none", NoOpt) \in ReqShape
           /\ Request("open", {}, NoOpt, "none", NoOpt) \in ReqShape
<1>1. /\ Request("startDbt", {s}, NoOpt, "dbtStart", NoOpt) \in Requests
      /\ Request("startDbt", S, NoOpt, "none", NoOpt) \in Requests
      /\ Request("startDbt", {s}, NoOpt, "restarted", o) \in Requests
      /\ Request("stopDbt", {s}, NoOpt, "switch", o) \in Requests
      /\ Request("stopDbt", {s}, NoOpt, "restart", o) \in Requests
      /\ Request("stopDbt", {s}, NoOpt, "dbtStop", NoOpt) \in Requests
      /\ Request("stopDbt", S, NoOpt, "erase", NoOpt) \in Requests
      /\ Request("start", {}, o, "none", NoOpt) \in Requests
      /\ Request("stop", {}, NoOpt, "none", NoOpt) \in Requests
      /\ Request("open", {}, NoOpt, "none", NoOpt) \in Requests
  BY DEF Request, Requests, OptOrNone, RespKinds
<1> QED
  BY <1>1 DEF Request, ReqShape, Carriers

(* checkAndRestartSPESession posts at most two requests, and none of them  *)
(* answers a client.                                                       *)
LEMMA RestartPosts ==
    ASSUME Shape, NEW n \in BOOLEAN
    PROVE  /\ RestartRequests(n) \in Seq(ReqShape)
           /\ \A i \in DOMAIN RestartRequests(n) :
                RestartRequests(n)[i].k = "none" /\ RestartRequests(n)[i].op # "open"
           /\ RestartSpe(n) \in BOOLEAN
<1> DEFINE raise == n /\ RestartOptions.ivl > MinInterval
           o == IF raise THEN [RestartOptions EXCEPT !.ivl = MinInterval]
                ELSE RestartOptions
           a == Request("start", {}, o, "none", NoOpt)
           b == Request("startDbt", DistSet, NoOpt, "none", NoOpt)
           A == IF TimeSet = {} THEN <<>> ELSE <<a>>
           B == IF DistSet = {} THEN <<>> ELSE <<b>>
<1>1. RestartRequests(n) = A \o B
  BY DEF RestartRequests
<1>2. A \in Seq(ReqShape) /\ \A i \in DOMAIN A : A[i].k = "none" /\ A[i].op # "open"
  <2>1. CASE TimeSet = {}
    BY <2>1
  <2>2. CASE TimeSet # {}
    <3>1. o \in TrackingOptions
      BY <2>2, RestartFinds, TrackingAssumption DEF Shape, AdapterOK, TrackingOptions
    <3>2. a \in ReqShape /\ a.k = "none" /\ a.op # "open"
      <4> HIDE DEF o
      <4>1. \E s \in Sessions : TRUE
        BY <2>2 DEF TimeSet
      <4> QED
        BY <3>1, <4>1, DistanceRequests DEF Request
    <3> HIDE DEF a
    <3> QED
      BY <2>2, <3>2
  <2> QED
    BY <2>1, <2>2
<1>3. B \in Seq(ReqShape) /\ \A i \in DOMAIN B : B[i].k = "none" /\ B[i].op # "open"
  <2>1. CASE DistSet = {}
    BY <2>1
  <2>2. CASE DistSet # {}
    <3>1. b \in Requests
      BY DEF Request, Requests, OptOrNone, RespKinds, DistSet
    <3>2. b \in ReqShape /\ b.k = "none" /\ b.op # "open"
      BY <3>1 DEF ReqShape, Request, Carriers
    <3> HIDE DEF b
    <3> QED
      BY <2>2, <3>2
  <2> QED
    BY <2>1, <2>2
<1> HIDE DEF A, B
<1>4. /\ A \o B \in Seq(ReqShape)
      /\ \A i \in DOMAIN (A \o B) : (A \o B)[i].k = "none" /\ (A \o B)[i].op # "open"
  <2>1. A \o B \in Seq(ReqShape)
    BY <1>2, <1>3, ConcatProperties
  <2>2. /\ Len(A) \in Nat /\ Len(B) \in Nat /\ Len(A \o B) = Len(A) + Len(B)
        /\ DOMAIN A = 1 .. Len(A) /\ DOMAIN B = 1 .. Len(B)
        /\ DOMAIN (A \o B) = 1 .. Len(A) + Len(B)
        /\ \A i \in 1 .. Len(A) + Len(B) :
             (A \o B)[i] = IF i <= Len(A) THEN A[i] ELSE B[i - Len(A)]
    BY <1>2, <1>3, <2>1, ConcatProperties, LenProperties
  <2>3. ASSUME NEW i \in 1 .. Len(A) + Len(B) 
        PROVE  (A \o B)[i].k = "none" /\ (A \o B)[i].op # "open"
    <3>1. CASE i <= Len(A)
      BY <1>2, <2>2, <3>1
    <3>2. CASE i > Len(A)
      <4>1. i - Len(A) \in 1 .. Len(B)
        BY <2>2, <3>2
      <4> QED
        BY <1>3, <2>2, <3>2, <4>1
    <3> QED
      BY <2>2, <3>1, <3>2
  <2> QED
    BY <2>1, <2>2, <2>3
<1>5. RestartSpe(n) \in BOOLEAN
  BY DEF RestartSpe
<1> QED
  BY <1>1, <1>4, <1>5

(* saveTrackingSession and eraseTrackingSession keep the tables tables.    *)
LEMMA SaveTables ==
    ASSUME NEW t \in [Sessions -> OptOrNone], NEW d \in [Sessions -> OptOrNone],
           NEW s \in Sessions, NEW o \in TrackingOptions,
           SaveTrackingSession(t, d, s, o)
    PROVE  Tables' /\ mPowerOn' \in BOOLEAN
<1>1. Tables'
  BY DEF SaveTrackingSession, Tables, OptOrNone
<1>2. mPowerOn' = PowerState(time', dist')
  BY DEF SaveTrackingSession
<1> QED
  BY <1>1, <1>2 DEF PowerState

(* eraseTrackingSession keeps the tables well formed.                      *)
LEMMA EraseTables ==
    ASSUME Tables, NEW s \in Sessions
    PROVE  /\ Erased(s).t \in [Sessions -> OptOrNone]
           /\ Erased(s).d \in [Sessions -> OptOrNone]
           /\ EraseTrackingSession(s) => Tables' /\ mPowerOn' \in BOOLEAN
<1>1. /\ Erased(s).t \in [Sessions -> OptOrNone]
      /\ Erased(s).d \in [Sessions -> OptOrNone]
  BY DEF Erased, Tables, OptOrNone
<1>2. ASSUME EraseTrackingSession(s) PROVE Tables' /\ mPowerOn' \in BOOLEAN
  <2>1. Tables'
    BY <1>1, <1>2 DEF EraseTrackingSession, Tables
  <2>2. mPowerOn' = PowerState(time', dist')
    BY <1>2 DEF EraseTrackingSession
  <2> QED
    BY <2>1, <2>2 DEF PowerState
<1> QED
  BY <1>1, <1>2

(* The answers owed stay integers.                                         *)
LEMMA OwedType ==
    ASSUME owed \in [Sessions -> Int], NEW s \in Sessions, NEW n \in {0, 1},
           NEW now \in BOOLEAN
    PROVE  Owed(s, n, now) \in [Sessions -> Int]
BY DEF Owed

(* Posting an outcome, and one request more.                               *)
LEMMA PostQueue ==
    ASSUME Shape, NEW out, NEW s \in Sessions, NEW K, Posts(out, s, K),
           NEW more \in Seq(ReqShape), Post(out, more)
    PROVE  /\ apiQ' \in Seq(ReqShape) /\ spe' \in BOOLEAN /\ hub' \in BOOLEAN
           /\ out.now \in BOOLEAN
<1>1. apiQ \in Seq(ReqShape)
  BY DEF Shape, AdapterOK
<1>2. out.reqs \in Seq(ReqShape)
  <2>1. CASE out.reqs = <<>>
    BY <2>1
  <2>2. ASSUME NEW r \in ReqShape, out.reqs = <<r>> PROVE out.reqs \in Seq(ReqShape)
    BY <2>2
  <2> QED
    BY <2>1, <2>2 DEF Posts
<1>3. apiQ \o out.reqs \o more \in Seq(ReqShape)
  BY <1>1, <1>2, ConcatProperties
<1> QED
  BY <1>3 DEF Post, Posts

(* A command with options may be kept.                                     *)
LEMMA CmdMessages ==
    ASSUME NEW s \in Sessions, NEW o \in TrackingOptions
    PROVE  /\ Message("startCmd", {s}, o, TRUE) \in CmdShape
           /\ Message("updateCmd", {s}, o, TRUE) \in CmdShape
<1>1. /\ Message("startCmd", {s}, o, TRUE) \in Messages
      /\ Message("updateCmd", {s}, o, TRUE) \in Messages
  BY DEF Message, Messages, OptOrNone
<1> QED
  BY <1>1 DEF Message, MsgShape, CmdShape, Carriers

(* MsgStartTracking::proc and MsgUpdateTracking::proc.                     *)
LEMMA StartShape ==
    ASSUME Shape, NEW s \in Sessions, NEW o \in OptOrNone, NEW n \in {0, 1},
           StartTracking(s, o, n)
    PROVE  AdapterOK'
<1>0. /\ Tables /\ mPowerOn \in BOOLEAN /\ spe \in BOOLEAN /\ hub \in BOOLEAN
      /\ apiQ \in Seq(ReqShape) /\ mPendingMsgs \in Seq(CmdShape)
      /\ owed \in [Sessions -> Int]
  BY DEF Shape, AdapterOK
<1>s. ASSUME UNCHANGED sessVars PROVE Tables' /\ mPowerOn' \in BOOLEAN
  BY <1>0, <1>s DEF Tables, sessVars
<1>o. \A now \in BOOLEAN : Owed(s, n, now) \in [Sessions -> Int]
  BY <1>0, OwedType
<1>1. CASE StartKept(s, o, n)
  <2>1. o \in TrackingOptions
    BY <1>1 DEF StartKept, MustWait, OptOrNone
  <2>2. mPendingMsgs' \in Seq(CmdShape)
    BY <1>0, <1>1, <2>1, CmdMessages, AppendProperties DEF StartKept
  <2>3. UNCHANGED <<sessVars, spe, hub, apiQ>> /\ owed' = Owed(s, n, FALSE)
    BY <1>1 DEF StartKept
  <2> QED
    BY <1>0, <1>s, <1>o, <2>2, <2>3 DEF AdapterOK
<1>2. CASE StartRefused(s, o, n)
  BY <1>0, <1>s, <1>o, <1>2 DEF StartRefused, AdapterOK
<1>3. CASE StartDistance(s, o, n)
  <2>1. o \in TrackingOptions
    BY <1>3 DEF StartDistance, StartAllowed, OptOrNone
  <2>2. Tables' /\ mPowerOn' \in BOOLEAN
    <3>1. Clamped(o) \in TrackingOptions
      BY <2>1, ClampedOptions
    <3>2. SaveTrackingSession(time, dist, s, Clamped(o))
      BY <1>3 DEF StartDistance
    <3> QED
      BY <1>0, <3>1, <3>2, SaveTables DEF Tables
  <2>3. apiQ' \in Seq(ReqShape)
    <3>1. Request("startDbt", {s}, NoOpt, "dbtStart", NoOpt) \in ReqShape
      BY <2>1, DistanceRequests
    <3> QED
      BY <1>0, <1>3, <3>1, AppendProperties DEF StartDistance
  <2>4. UNCHANGED <<spe, hub, mPendingMsgs>> /\ owed' = Owed(s, n, FALSE)
    BY <1>3 DEF StartDistance
  <2> QED
    BY <1>0, <1>o, <2>2, <2>3, <2>4 DEF AdapterOK
<1>4. CASE StartTime(s, o, n)
  <2> DEFINE p == M2Fallback(Clamped(o))
             out == StartMultiplex(s, p)
  <2>1. p \in TrackingOptions
    BY <1>4, ClampedOptions DEF StartTime, StartAllowed, OptOrNone
  <2>2. /\ SaveTrackingSession(time, dist, s, p) /\ Post(out, <<>>)
        /\ owed' = Owed(s, n, out.now) /\ UNCHANGED mPendingMsgs
    BY <1>4 DEF StartTime
  <2>3. Tables' /\ mPowerOn' \in BOOLEAN
    BY <1>0, <2>1, <2>2, SaveTables DEF Tables
  <2>4. Posts(out, s, {"start"})
    BY <2>1, MultiplexPosts
  <2> HIDE DEF out, p
  <2>5. /\ apiQ' \in Seq(ReqShape) /\ spe' \in BOOLEAN /\ hub' \in BOOLEAN
        /\ out.now \in BOOLEAN
    <3>1. <<>> \in Seq(ReqShape)
      OBVIOUS
    <3> QED
      BY <2>2, <2>4, <3>1, PostQueue
  <2> QED
    BY <1>0, <1>o, <2>2, <2>3, <2>5 DEF AdapterOK
<1> QED
  BY <1>1, <1>2, <1>3, <1>4 DEF StartTracking

(* MsgUpdateTracking::proc keeps the shape.                                *)
LEMMA UpdateShape ==
    ASSUME Shape, NEW s \in Sessions, NEW o \in OptOrNone, NEW n \in {0, 1},
           UpdateTracking(s, o, n)
    PROVE  AdapterOK'
<1>0. /\ Tables /\ mPowerOn \in BOOLEAN /\ spe \in BOOLEAN /\ hub \in BOOLEAN
      /\ apiQ \in Seq(ReqShape) /\ mPendingMsgs \in Seq(CmdShape)
      /\ owed \in [Sessions -> Int]
  BY DEF Shape, AdapterOK
<1>s. ASSUME UNCHANGED sessVars PROVE Tables' /\ mPowerOn' \in BOOLEAN
  BY <1>0, <1>s DEF Tables, sessVars
<1>o. \A now \in BOOLEAN : Owed(s, n, now) \in [Sessions -> Int]
  BY <1>0, OwedType
<1>p. <<>> \in Seq(ReqShape)
  OBVIOUS
<1> DEFINE p == M2Fallback(Clamped(o))
<1>a. UpdateAllowed(s, o) => o \in TrackingOptions /\ p \in TrackingOptions
  BY ClampedOptions DEF UpdateAllowed, OptOrNone
<1>1. CASE UpdateKept(s, o, n)
  <2>1. o \in TrackingOptions
    BY <1>1 DEF UpdateKept, MustWait, OptOrNone
  <2>2. mPendingMsgs' \in Seq(CmdShape)
    BY <1>0, <1>1, <2>1, CmdMessages, AppendProperties DEF UpdateKept
  <2>3. UNCHANGED <<sessVars, spe, hub, apiQ>> /\ owed' = Owed(s, n, FALSE)
    BY <1>1 DEF UpdateKept
  <2> QED
    BY <1>0, <1>s, <1>o, <2>2, <2>3 DEF AdapterOK
<1>2. CASE UpdateRefused(s, o, n)
  BY <1>0, <1>s, <1>o, <1>2 DEF UpdateRefused, AdapterOK
<1>3. CASE UpdateToDistance(s, o, n)
  <2> DEFINE out == StopMultiplex(s)
             more == <<Request("startDbt", {s}, NoOpt, "none", NoOpt)>>
  <2>1. /\ UpdateAllowed(s, o) /\ Post(out, more)
        /\ SaveTrackingSession(Erased(s).t, Erased(s).d, s, p)
        /\ owed' = Owed(s, n, out.now) /\ UNCHANGED mPendingMsgs
    BY <1>3 DEF UpdateToDistance
  <2>2. more \in Seq(ReqShape)
    <3>1. Request("startDbt", {s}, NoOpt, "none", NoOpt) \in ReqShape
      BY <1>a, <2>1, DistanceRequests
    <3> QED
      BY <3>1
  <2>3. Tables' /\ mPowerOn' \in BOOLEAN
    <3> HIDE DEF p
    <3>1. Erased(s).t \in [Sessions -> OptOrNone] /\ Erased(s).d \in [Sessions -> OptOrNone]
      BY <1>0, EraseTables
    <3> QED
      BY <1>a, <2>1, <3>1, SaveTables
  <2>4. Posts(out, s, {"start", "stop"})
    BY MultiplexPosts
  <2> HIDE DEF out, p, more
  <2>5. /\ apiQ' \in Seq(ReqShape) /\ spe' \in BOOLEAN /\ hub' \in BOOLEAN
        /\ out.now \in BOOLEAN
    BY <2>1, <2>2, <2>4, PostQueue
  <2> QED
    BY <1>0, <1>o, <2>1, <2>3, <2>5 DEF AdapterOK
<1>4. CASE UpdateToTime(s, o, n)
  <2>1. /\ UpdateAllowed(s, o) /\ EraseTrackingSession(s)
        /\ apiQ' = Append(apiQ, Request("stopDbt", {s}, NoOpt, "switch", p))
        /\ UNCHANGED <<spe, hub, mPendingMsgs>> /\ owed' = Owed(s, n, FALSE)
    BY <1>4 DEF UpdateToTime
  <2> HIDE DEF p
  <2>2. Tables' /\ mPowerOn' \in BOOLEAN
    BY <1>0, <2>1, EraseTables
  <2>3. apiQ' \in Seq(ReqShape)
    <3>1. Request("stopDbt", {s}, NoOpt, "switch", p) \in ReqShape
      BY <1>a, <2>1, DistanceRequests
    <3> QED
      BY <1>0, <2>1, <3>1, AppendProperties
  <2> QED
    BY <1>0, <1>o, <2>1, <2>2, <2>3 DEF AdapterOK
<1>5. CASE UpdateTime(s, o, n)
  <2> DEFINE out == UpdateMultiplex(s, p)
  <2>1. /\ UpdateAllowed(s, o) /\ s \in TimeSet /\ Post(out, <<>>)
        /\ SaveTrackingSession(time, dist, s, p)
        /\ owed' = Owed(s, n, out.now) /\ UNCHANGED mPendingMsgs
    BY <1>5 DEF UpdateTime
  <2> HIDE DEF p
  <2>2. Tables' /\ mPowerOn' \in BOOLEAN
    BY <1>0, <1>a, <2>1, SaveTables DEF Tables
  <2>3. Posts(out, s, {"update"})
    BY <1>a, <2>1, MultiplexPosts
  <2> HIDE DEF out
  <2>4. /\ apiQ' \in Seq(ReqShape) /\ spe' \in BOOLEAN /\ hub' \in BOOLEAN
        /\ out.now \in BOOLEAN
    BY <1>p, <2>1, <2>3, PostQueue
  <2> QED
    BY <1>0, <1>o, <2>1, <2>2, <2>4 DEF AdapterOK
<1>6. CASE UpdateDistance(s, o, n)
  <2>1. /\ UpdateAllowed(s, o) /\ UNCHANGED <<sessVars, spe, hub, mPendingMsgs>>
        /\ apiQ' = Append(apiQ, Request("stopDbt", {s}, NoOpt, "restart", p))
        /\ owed' = Owed(s, n, FALSE)
    BY <1>6 DEF UpdateDistance
  <2> HIDE DEF p
  <2>2. apiQ' \in Seq(ReqShape)
    <3>1. Request("stopDbt", {s}, NoOpt, "restart", p) \in ReqShape
      BY <1>a, <2>1, DistanceRequests
    <3> QED
      BY <1>0, <2>1, <3>1, AppendProperties
  <2> QED
    BY <1>0, <1>s, <1>o, <2>1, <2>2 DEF AdapterOK
<1> QED
  BY <1>1, <1>2, <1>3, <1>4, <1>5, <1>6 DEF UpdateTracking

(* The message a handler takes has the shape, and so have the rest.        *)
LEMMA HandleShape ==
    ASSUME Shape, NEW k, Handle(k)
    PROVE  /\ OtherOK' \/ ~(nHz' \in BOOLEAN /\ capsKnown' \in BOOLEAN)
           /\ Head(adQ) \in MsgShape /\ Head(adQ).k = k
           /\ \A s \in Head(adQ).ids : s \in Sessions
<1>1. adQ \in Seq(MsgShape) /\ adQ # <<>>
  BY DEF Shape, OtherOK, Handle
<1>2. Tail(adQ) \in Seq(MsgShape) /\ Head(adQ) \in MsgShape
  BY <1>1, HeadTailProperties
<1>3. Head(adQ) \in Messages
  BY <1>2 DEF MsgShape
<1>4. \A s \in Head(adQ).ids : s \in Sessions
  BY <1>3 DEF Messages
<1>5. ASSUME nHz' \in BOOLEAN, capsKnown' \in BOOLEAN PROVE OtherOK'
  BY <1>2, <1>5 DEF Shape, OtherOK, Handle, modemVars, histVars
<1> QED
  BY <1>2, <1>4, <1>5 DEF Handle

(* One step of any thread keeps the shape.                                 *)
LEMMA ShapeStep == Shape /\ [Next]_vars => Shape'
<1> SUFFICES ASSUME Shape, [Next]_vars PROVE Shape'
  OBVIOUS
<1>0. /\ Tables /\ mPowerOn \in BOOLEAN /\ spe \in BOOLEAN /\ hub \in BOOLEAN
      /\ apiQ \in Seq(ReqShape) /\ mPendingMsgs \in Seq(CmdShape)
      /\ owed \in [Sessions -> Int] /\ nHz \in BOOLEAN /\ capsKnown \in BOOLEAN
  BY DEF Shape, AdapterOK, OtherOK
<1>s. ASSUME UNCHANGED sessVars PROVE Tables' /\ mPowerOn' \in BOOLEAN
  BY <1>0, <1>s DEF Tables, sessVars
<1>p. <<>> \in Seq(ReqShape)
  OBVIOUS
<1>o. \A s \in Sessions : \A n \in {0, 1} : \A now \in BOOLEAN :
         Owed(s, n, now) \in [Sessions -> Int]
  BY <1>0, OwedType
<1>1. ASSUME NEW s \in Sessions, NEW o \in Options \cup {NoOpt}, Start(s, o)
      PROVE  Shape'
  <2>1. o \in OptOrNone
    BY TrackingAssumption DEF OptOrNone
  <2>2. AdapterOK'
    BY <1>1, <2>1, StartShape DEF Start
  <2>3. OtherOK'
    BY <1>1 DEF Start, Shape, OtherOK, modemVars
  <2> QED
    BY <2>2, <2>3 DEF Shape
<1>2. ASSUME NEW s \in Sessions, NEW o \in Options \cup {NoOpt}, Update(s, o)
      PROVE  Shape'
  <2>1. o \in OptOrNone
    BY TrackingAssumption DEF OptOrNone
  <2>2. AdapterOK'
    BY <1>2, <2>1, UpdateShape DEF Update
  <2>3. OtherOK'
    BY <1>2 DEF Update, Hurried, Shape, OtherOK, modemVars
  <2> QED
    BY <2>2, <2>3 DEF Shape
<1>3. ASSUME NEW s \in Sessions, Stop(s) PROVE Shape'
  <2>1. OtherOK' /\ UNCHANGED mPendingMsgs
    BY <1>3 DEF Stop, Hurried, Shape, OtherOK, modemVars
  <2>2. CASE StopUnknown(s)
    BY <1>0, <1>s, <2>1, <2>2 DEF StopUnknown, Shape, AdapterOK
  <2>3. CASE StopTime(s)
    <3> DEFINE out == StopMultiplex(s)
    <3>1. Post(out, <<>>) /\ EraseTrackingSession(s) /\ owed' = Owed(s, 1, out.now)
      BY <2>3 DEF StopTime
    <3>2. Posts(out, s, {"start", "stop"})
      BY MultiplexPosts
    <3> HIDE DEF out
    <3>3. /\ apiQ' \in Seq(ReqShape) /\ spe' \in BOOLEAN /\ hub' \in BOOLEAN
          /\ out.now \in BOOLEAN
      BY <1>p, <3>1, <3>2, PostQueue
    <3>4. Tables' /\ mPowerOn' \in BOOLEAN
      BY <1>0, <3>1, EraseTables
    <3> QED
      BY <1>0, <1>o, <2>1, <3>1, <3>3, <3>4 DEF Shape, AdapterOK
  <2>4. CASE StopDistance(s)
    <3>1. Request("stopDbt", {s}, NoOpt, "dbtStop", NoOpt) \in ReqShape
      <4>1. dist[s] \in TrackingOptions
        BY <1>0, <2>4 DEF StopDistance, DistSet, Tables, OptOrNone
      <4> QED
        BY <4>1, DistanceRequests
    <3>2. apiQ' \in Seq(ReqShape)
      BY <1>0, <2>4, <3>1, AppendProperties DEF StopDistance
    <3>3. UNCHANGED <<sessVars, spe, hub>> /\ owed' = Owed(s, 1, FALSE)
      BY <2>4 DEF StopDistance
    <3> QED
      BY <1>0, <1>s, <1>o, <2>1, <3>2, <3>3 DEF Shape, AdapterOK
  <2> QED
    BY <1>3, <2>2, <2>3, <2>4 DEF Stop
<1>4. ASSUME NEW c \in Clients, RemoveClient(c) PROVE Shape'
  <2>1. AdapterOK'
    BY <1>0, <1>s, <1>4 DEF RemoveClient, AdapterOK
  <2>2. OtherOK'
    BY <1>4 DEF RemoveClient, Owned, Hurried, Shape, OtherOK, modemVars
  <2> QED
    BY <2>1, <2>2 DEF Shape
<1>5. ASSUME NEW s \in Sessions, RemoveTime(s) PROVE Shape'
  <2> DEFINE out == StopMultiplex(s)
  <2>1. Post(out, <<>>) /\ EraseTrackingSession(s) /\ UNCHANGED <<mPendingMsgs, owed>>
    BY <1>5 DEF RemoveTime
  <2>2. Posts(out, s, {"start", "stop"})
    BY MultiplexPosts
  <2> HIDE DEF out
  <2>3. apiQ' \in Seq(ReqShape) /\ spe' \in BOOLEAN /\ hub' \in BOOLEAN
    BY <1>p, <2>1, <2>2, PostQueue
  <2>4. Tables' /\ mPowerOn' \in BOOLEAN
    BY <1>0, <2>1, EraseTables
  <2>5. OtherOK'
    BY <1>5 DEF RemoveTime, Shape, OtherOK, modemVars, histVars
  <2> QED
    BY <1>0, <2>1, <2>3, <2>4, <2>5 DEF Shape, AdapterOK
<1>6. CASE RemoveRest
  <2> DEFINE mine == Owned(removing) \cap DistSet
             r == Request("stopDbt", mine, NoOpt, "erase", NoOpt)
  <2>1. r \in ReqShape
    <3>1. r \in Requests
      BY DEF Request, Requests, OptOrNone, RespKinds, DistSet
    <3> QED
      BY <3>1 DEF Request, ReqShape, Carriers
  <2>2. apiQ' = apiQ \/ apiQ' = Append(apiQ, r)
    BY <1>6 DEF RemoveRest
  <2> HIDE DEF r
  <2>3. apiQ' \in Seq(ReqShape)
    BY <1>0, <2>1, <2>2, AppendProperties
  <2>4. owed' \in [Sessions -> Int] /\ UNCHANGED <<sessVars, spe, hub, mPendingMsgs>>
    BY <1>0, <1>6 DEF RemoveRest
  <2>5. OtherOK'
    BY <1>6 DEF RemoveRest, Shape, OtherOK, modemVars, histVars
  <2> QED
    BY <1>0, <1>s, <2>3, <2>4, <2>5 DEF Shape, AdapterOK
<1>h. ASSUME NEW k, Handle(k), OnlySessions, Tables', mPowerOn' \in BOOLEAN,
             owed' \in [Sessions -> Int]
      PROVE  Shape'
  <2>1. AdapterOK'
    BY <1>0, <1>h DEF OnlySessions, AdapterOK
  <2>2. OtherOK'
    BY <1>0, <1>h, HandleShape DEF OnlySessions
  <2> QED
    BY <2>1, <2>2 DEF Shape
<1>7. ASSUME NEW k \in {"start", "dbtStart"}, RespStart(k) PROVE Shape'
  <2>1. Handle(k) /\ OnlySessions
    BY <1>7 DEF RespStart
  <2>2. PICK s \in Head(adQ).ids :
          /\ EraseTrackingSession(s) \/ UNCHANGED sessVars
          /\ owed' = Owed(s, 0, TRUE)
    BY <1>7 DEF RespStart
  <2>3. s \in Sessions
    BY <2>1, HandleShape
  <2> QED
    BY <1>0, <1>s, <1>o, <1>h, <2>1, <2>2, <2>3, EraseTables
<1>8. CASE RespUpdate \/ RespRestarted
  <2>1. PICK k \in {"update", "restarted"} : Handle(k) /\ OnlySessions
    BY <1>8 DEF RespUpdate, RespRestarted
  <2>2. PICK s \in Head(adQ).ids :
          /\ SaveTrackingSession(time, dist, s, Head(adQ).o) \/ UNCHANGED sessVars
          /\ owed' = Owed(s, 0, TRUE)
    BY <1>8 DEF RespUpdate, RespRestarted
  <2>3. s \in Sessions
    BY <2>1, HandleShape
  <2>4. Head(adQ).o \in TrackingOptions
    BY <2>1, HandleShape DEF MsgShape, Carriers
  <2>5. SaveTrackingSession(time, dist, s, Head(adQ).o) => Tables' /\ mPowerOn' \in BOOLEAN
    BY <1>0, <2>3, <2>4, SaveTables DEF Tables
  <2> QED
    BY <1>s, <1>o, <1>h, <2>1, <2>2, <2>3, <2>5
<1>9. CASE RespStop
  <2>1. Handle("stop") /\ OnlySessions /\ UNCHANGED sessVars
    BY <1>9 DEF RespStop
  <2>2. PICK s \in Head(adQ).ids : owed' = Owed(s, 0, TRUE)
    BY <1>9 DEF RespStop
  <2>3. s \in Sessions
    BY <2>1, HandleShape
  <2> QED
    BY <1>s, <1>o, <1>h, <2>1, <2>2, <2>3
<1>10. CASE RespDistanceStop
  <2>1. Handle("dbtStop") /\ OnlySessions
    BY <1>10 DEF RespDistanceStop
  <2>2. PICK s \in Head(adQ).ids :
          /\ EraseTrackingSession(s) \/ UNCHANGED sessVars
          /\ owed' = Owed(s, 0, TRUE)
    BY <1>10 DEF RespDistanceStop
  <2>3. s \in Sessions
    BY <2>1, HandleShape
  <2> QED
    BY <1>0, <1>s, <1>o, <1>h, <2>1, <2>2, <2>3, EraseTables
<1>11. CASE RespClientStop
  <2>1. Handle("erase") /\ OnlySessions /\ UNCHANGED owed
    BY <1>11 DEF RespClientStop
  <2>2. CASE Head(adQ).ok
    <3>1. Tables'
      <4>1. \A s \in Sessions : /\ Erased(s).t[s] \in OptOrNone
                                /\ Erased(s).d[s] \in OptOrNone
        BY <1>0, EraseTables
      <4> QED
        BY <1>0, <1>11, <2>2, <4>1 DEF RespClientStop, Tables
    <3>2. mPowerOn' = PowerState(time', dist')
      BY <1>11, <2>2 DEF RespClientStop
    <3>3. mPowerOn' \in BOOLEAN
      BY <3>2 DEF PowerState
    <3> QED
      BY <1>0, <1>h, <2>1, <3>1, <3>3
  <2>3. CASE ~Head(adQ).ok
    BY <1>0, <1>s, <1>h, <1>11, <2>1, <2>3 DEF RespClientStop
  <2> QED
    BY <2>2, <2>3
<1>12. CASE RespSwitch
  <2>1. Handle("switch") /\ UNCHANGED <<nHz, capsKnown, mPendingMsgs>>
    BY <1>12 DEF RespSwitch
  <2> DEFINE o == Head(adQ).o
  <2>2. PICK s \in Head(adQ).ids : /\ Post(StartMultiplex(s, o), <<>>)
                                   /\ SaveTrackingSession(time, dist, s, o)
                                   /\ owed' = Owed(s, 0, StartMultiplex(s, o).now)
    BY <1>12 DEF RespSwitch
  <2>3. s \in Sessions /\ o \in TrackingOptions
    BY <2>1, HandleShape DEF MsgShape, Carriers
  <2> DEFINE out == StartMultiplex(s, o)
  <2>4. Posts(out, s, {"start"})
    BY <2>3, MultiplexPosts
  <2>5. Tables' /\ mPowerOn' \in BOOLEAN
    BY <1>0, <2>2, <2>3, SaveTables DEF Tables
  <2>6. Post(out, <<>>) /\ owed' = Owed(s, 0, out.now)
    BY <2>2
  <2> HIDE DEF out
  <2>7. /\ apiQ' \in Seq(ReqShape) /\ spe' \in BOOLEAN /\ hub' \in BOOLEAN
        /\ out.now \in BOOLEAN
    BY <1>p, <2>3, <2>4, <2>6, PostQueue
  <2>8. OtherOK'
    BY <1>0, <2>1, HandleShape
  <2> QED
    BY <1>0, <1>o, <2>1, <2>3, <2>5, <2>6, <2>7, <2>8 DEF Shape, AdapterOK
<1>13. CASE RespRestart
  <2>1. Handle("restart") /\ UNCHANGED <<sessVars, nHz, spe, hub, capsKnown, mPendingMsgs, owed>>
    BY <1>13 DEF RespRestart
  <2> DEFINE r == Request("startDbt", Head(adQ).ids, NoOpt, "restarted", Head(adQ).o)
  <2>2. apiQ' = apiQ \/ apiQ' = Append(apiQ, r)
    BY <1>13 DEF RespRestart
  <2>3. r \in ReqShape
    <3>1. PICK s \in Sessions : Head(adQ).ids = {s}
      BY <2>1, HandleShape DEF MsgShape
    <3>2. Head(adQ).o \in TrackingOptions
      BY <2>1, HandleShape DEF MsgShape, Carriers
    <3> QED
      BY <3>1, <3>2, DistanceRequests
  <2> HIDE DEF r
  <2>4. apiQ' \in Seq(ReqShape)
    BY <1>0, <2>2, <2>3, AppendProperties
  <2>5. OtherOK'
    BY <1>0, <2>1, HandleShape
  <2> QED
    BY <1>0, <1>s, <2>1, <2>4, <2>5 DEF Shape, AdapterOK
<1>14. CASE PendingStart \/ PendingUpdate
  <2>1. PICK k \in {"startCmd", "updateCmd"} : Handle(k) /\ UNCHANGED <<nHz, capsKnown>>
    BY <1>14 DEF PendingStart, PendingUpdate
  <2>2. PICK s \in Head(adQ).ids : \/ StartTracking(s, Head(adQ).o, 0)
                                   \/ UpdateTracking(s, Head(adQ).o, 0)
    BY <1>14 DEF PendingStart, PendingUpdate
  <2>3. s \in Sessions /\ Head(adQ).o \in OptOrNone
    BY <2>1, HandleShape DEF MsgShape, OptOrNone
  <2>4. AdapterOK'
    BY <2>2, <2>3, StartShape, UpdateShape
  <2>5. OtherOK'
    BY <1>0, <2>1, HandleShape
  <2> QED
    BY <2>4, <2>5 DEF Shape
<1>15. CASE EngineUp
  <2>1. adQ \in Seq(MsgShape) /\ adQ # <<>> /\ flushes \in Nat
    BY <1>15 DEF EngineUp, Shape, OtherOK
  <2>2. Tail(adQ) \in Seq(MsgShape)
    BY <2>1, HeadTailProperties
  <2>3. mPendingMsgs \in Seq(MsgShape)
    <3>1. CmdShape \subseteq MsgShape
      BY DEF CmdShape
    <3> QED
      BY <1>0, <3>1, SeqDef
  <2>4. adQ' \in Seq(MsgShape)
    BY <1>15, <2>2, <2>3, ConcatProperties DEF EngineUp
  <2>5. flushes' \in Nat
    BY <1>15, <2>1 DEF EngineUp
  <2>6. apiQ' \in Seq(ReqShape)
    <3>1. RestartRequests(nHz) \in Seq(ReqShape)
      BY <1>0, RestartPosts
    <3> QED
      BY <1>0, <1>15, <3>1, ConcatProperties DEF EngineUp
  <2>7. spe' \in BOOLEAN
    BY <1>0, <1>15, RestartPosts DEF EngineUp
  <2>8. hub' \in BOOLEAN
    <3>1. CASE lock
      <4>1. hub' = (hub \/ TimeSet # {})
        BY <1>15, <3>1 DEF EngineUp
      <4> QED
        BY <1>0, <4>1
    <3>2. CASE ~lock
      BY <1>0, <1>15, <3>2 DEF EngineUp
    <3> QED
      BY <3>1, <3>2
  <2>9. /\ capsKnown' = TRUE
        /\ UNCHANGED <<sessVars, nHz, mPendingMsgs, clients, removing, modemVars,
                   lock, started, updates, over, events, owed, hasty>>
    BY <1>15 DEF EngineUp
  <2>10. AdapterOK'
    BY <1>0, <1>s, <2>6, <2>7, <2>8, <2>9 DEF AdapterOK
  <2>11. OtherOK'
    BY <2>4, <2>5, <2>9 DEF Shape, OtherOK, modemVars
  <2> QED
    BY <2>10, <2>11 DEF Shape
<1>16. CASE LocApi
  <2>1. ApiOnly /\ apiQ # <<>> /\ apiQ' = Tail(apiQ)
    BY <1>16 DEF LocApi, ApiStart, ApiStop, ApiStartDbt, ApiStopDbt, ApiOpen, Respond
  <2>2. Head(apiQ) \in ReqShape /\ Tail(apiQ) \in Seq(ReqShape)
    BY <1>0, <2>1, HeadTailProperties
  <2>3. AdapterOK'
    BY <1>0, <1>s, <2>1, <2>2 DEF AdapterOK, ApiOnly
  <2>4. adQ \in Seq(MsgShape)
    BY DEF Shape, OtherOK
  <2>5. Head(apiQ) \in Requests
    BY <2>2 DEF ReqShape
  <2>6. adQ' \in Seq(MsgShape)
    <3> DEFINE r == Head(apiQ)
    <3>1. ASSUME NEW ok \in BOOLEAN, Respond(ok),
                 r.op \in {"startDbt", "stopDbt"} => ok = TRUE,
                 r.op # "open"
          PROVE  adQ' \in Seq(MsgShape)
      <4>1. CASE r.k = "none"
        BY <2>4, <3>1, <4>1 DEF Respond
      <4>2. CASE r.k # "none"
        <5> DEFINE m == Message(r.k, r.ids, r.ro, ok)
        <5>1. m \in Messages
          BY <2>5, <3>1, <4>2 DEF Message, Messages, Requests
        <5>2. m.k \in {"start", "update", "stop"} \/ m.ok = TRUE
          <6>1. r.op \in {"start", "stop", "startDbt", "stopDbt"}
            BY <2>5, <3>1 DEF Requests
          <6>2. m.k = r.k /\ m.ok = ok
            BY DEF Message
          <6>3. r.op \in {"start", "stop"} => r.k \in {"start", "update", "stop"}
            BY <2>2, <4>2 DEF ReqShape
          <6> HIDE DEF m, r
          <6> QED
            BY <3>1, <6>1, <6>2, <6>3
        <5>3. m.k \in Carriers \cup {"startCmd", "updateCmd"} => m.o \in TrackingOptions
          BY <2>2, <2>5, <4>2 DEF Message, ReqShape, Requests, RespKinds, Carriers
        <5>5. m.k \notin {"erase", "engineUp"} => \E s \in Sessions : m.ids = {s}
          BY <2>2, <4>2 DEF Message, ReqShape
        <5>6. m \in MsgShape
          <6> HIDE DEF m
          <6> QED
            BY <5>1, <5>2, <5>3, <5>5 DEF MsgShape
        <5>4. adQ' = Append(adQ, m)
          BY <3>1, <4>2 DEF Respond
        <5> HIDE DEF m
        <5> QED
          BY <2>4, <5>4, <5>6, AppendProperties
      <4> QED
        BY <4>1, <4>2
    <3>2. CASE ApiStart \/ ApiStop
      <4>1. PICK ok \in BOOLEAN : Respond(ok)
        BY <3>2 DEF ApiStart, ApiStop
      <4> QED
        BY <3>1, <3>2, <4>1 DEF ApiStart, ApiStop
    <3>3. CASE ApiStartDbt \/ ApiStopDbt
      BY <3>1, <3>3 DEF ApiStartDbt, ApiStopDbt
    <3>4. CASE ApiOpen
      <4> DEFINE m == Message("engineUp", {}, NoOpt, TRUE)
      <4>1. m \in Messages
        BY DEF Message, Messages, OptOrNone
      <4>2. m \in MsgShape
        BY <4>1 DEF Message, MsgShape, Carriers
      <4>3. adQ' = Append(adQ, m) \/ adQ' = adQ
        BY <3>4 DEF ApiOpen
      <4> HIDE DEF m
      <4> QED
        BY <2>4, <4>2, <4>3, AppendProperties
    <3> QED
      BY <1>16, <3>2, <3>3, <3>4 DEF LocApi
  <2>7. engine' \in TrackingOptions \cup {Off}
    <3>1. engine \in TrackingOptions \cup {Off}
      BY DEF Shape, OtherOK
    <3>2. Head(apiQ).op = "start" => Head(apiQ).o \in TrackingOptions
      BY <2>2 DEF ReqShape
    <3> QED
      BY <1>16, <3>1, <3>2 DEF LocApi, ApiStart, ApiStop, ApiStartDbt, ApiStopDbt, ApiOpen
  <2>8. dbt' \subseteq Sessions
    <3>1. dbt \subseteq Sessions
      BY DEF Shape, OtherOK
    <3>2. Head(apiQ).ids \subseteq Sessions
      BY <2>5 DEF Requests
    <3> QED
      BY <1>16, <3>1, <3>2 DEF LocApi, ApiStart, ApiStop, ApiStartDbt, ApiStopDbt, ApiOpen
  <2>9. up' \in BOOLEAN /\ told' \in BOOLEAN
    <3>1. up \in BOOLEAN /\ told \in BOOLEAN
      BY DEF Shape, OtherOK
    <3> QED
      BY <1>16, <3>1 DEF LocApi, ApiStart, ApiStop, ApiStartDbt, ApiStopDbt, ApiOpen
  <2>10. OtherOK'
    BY <2>1, <2>6, <2>7, <2>8, <2>9 DEF ApiOnly, Shape, OtherOK, histVars
  <2> QED
    BY <2>3, <2>10 DEF Shape
<1>17. CASE NHzChanged
  <2>1. nHz' \in BOOLEAN
    BY <1>17 DEF NHzChanged
  <2>2. RestartRequests(nHz') \in Seq(ReqShape) /\ RestartSpe(nHz') \in BOOLEAN
    BY <2>1, RestartPosts
  <2>3. AdapterOK'
    BY <1>0, <1>s, <1>17, <2>2, ConcatProperties DEF NHzChanged, AdapterOK
  <2>4. OtherOK'
    BY <1>17, <2>1 DEF NHzChanged, Event, Shape, OtherOK, modemVars, histVars
  <2> QED
    BY <2>3, <2>4 DEF Shape
<1>18. CASE Reconfigure
  <2> DEFINE halt == IF TimeSet = {} THEN <<>>
                     ELSE <<Request("stop", {}, NoOpt, "none", NoOpt)>>
  <2>1. halt \in Seq(ReqShape)
    <3>1. Request("stop", {}, NoOpt, "none", NoOpt) \in Requests
      BY DEF Request, Requests, OptOrNone, RespKinds
    <3>2. Request("stop", {}, NoOpt, "none", NoOpt) \in ReqShape
      BY <3>1 DEF Request, ReqShape, Carriers
    <3> QED
      BY <3>2
  <2>2. RestartRequests(nHz) \in Seq(ReqShape) /\ RestartSpe(nHz) \in BOOLEAN
    BY <1>0, RestartPosts
  <2>3. apiQ' = apiQ \o halt \o RestartRequests(nHz) /\ spe' = RestartSpe(nHz)
    BY <1>18 DEF Reconfigure
  <2> HIDE DEF halt
  <2>4. apiQ' \in Seq(ReqShape)
    BY <1>0, <2>1, <2>2, <2>3, ConcatProperties
  <2>5. hub' = (hub \/ TimeSet # {}) /\ UNCHANGED <<sessVars, mPendingMsgs, owed>>
    BY <1>18 DEF Reconfigure
  <2>6. hub' \in BOOLEAN
    BY <1>0, <2>5
  <2>7. AdapterOK'
    BY <1>0, <1>s, <2>2, <2>3, <2>4, <2>5, <2>6 DEF AdapterOK
  <2>8. OtherOK'
    BY <1>18 DEF Reconfigure, Event, Shape, OtherOK, modemVars, histVars
  <2> QED
    BY <2>7, <2>8 DEF Shape
<1>19. CASE EngineDown
  <2> DEFINE r == Request("open", {}, NoOpt, "none", NoOpt)
  <2>1. r \in ReqShape
    <3>1. r \in Requests
      BY DEF Request, Requests, OptOrNone, RespKinds
    <3> QED
      BY <3>1 DEF Request, ReqShape, Carriers
  <2>2. apiQ' = Append(apiQ, r)
    BY <1>19 DEF EngineDown
  <2> HIDE DEF r
  <2>3. apiQ' \in Seq(ReqShape)
    BY <1>0, <2>1, <2>2, AppendProperties
  <2>4. AdapterOK'
    BY <1>0, <1>s, <1>19, <2>3 DEF EngineDown, AdapterOK
  <2>5. /\ up' \in BOOLEAN /\ told' \in BOOLEAN /\ engine' \in TrackingOptions \cup {Off}
        /\ dbt' \subseteq Sessions
    BY <1>19 DEF EngineDown
  <2>6. events' \in Nat
    BY <1>19 DEF EngineDown, Event, Shape, OtherOK
  <2>7. OtherOK'
    BY <1>19, <2>5, <2>6 DEF EngineDown, Shape, OtherOK, histVars
  <2> QED
    BY <2>4, <2>7 DEF Shape
<1>20. CASE LockChanged
  <2>1. AdapterOK'
    BY <1>0, <1>s, <1>20 DEF LockChanged, AdapterOK
  <2>2. OtherOK'
    BY <1>20 DEF LockChanged, Event, Shape, OtherOK, modemVars, histVars
  <2> QED
    BY <2>1, <2>2 DEF Shape
<1>21. CASE Reopen
  <2>1. AdapterOK'
    BY <1>0, <1>s, <1>21 DEF Reopen, ApiOnly, AdapterOK
  <2>2. OtherOK'
    BY <1>21 DEF Reopen, ApiOnly, Shape, OtherOK, histVars
  <2> QED
    BY <2>1, <2>2 DEF Shape
<1>22. CASE UNCHANGED vars
  <2>1. AdapterOK'
    BY <1>0, <1>22 DEF vars, AdapterOK, Tables
  <2>2. OtherOK'
    BY <1>22 DEF vars, Shape, OtherOK
  <2> QED
    BY <2>1, <2>2 DEF Shape
<1> QED
  BY <1>1, <1>2, <1>3, <1>4, <1>5, <1>6, <1>7, <1>8, <1>9, <1>10, <1>11, <1>12,
     <1>13, <1>14, <1>15, <1>16, <1>17, <1>18, <1>19, <1>20, <1>21, <1>22
     DEF Next, Command, Removal, Response

(* The shape holds initially.                                              *)
LEMMA ShapeInit == Init => Shape
<1> SUFFICES ASSUME Init PROVE Shape
  OBVIOUS
<1> DEFINE r == Request("open", {}, NoOpt, "none", NoOpt)
<1>1. r \in ReqShape
  <2>1. r \in Requests
    BY DEF Request, Requests, OptOrNone, RespKinds
  <2> QED
    BY <2>1 DEF Request, ReqShape, Carriers
<1>2. apiQ = <<>> \/ apiQ = <<r>>
  BY DEF Init
<1> HIDE DEF r
<1>3. apiQ \in Seq(ReqShape)
  <2>1. CASE apiQ = <<>>
    BY <2>1
  <2>2. CASE apiQ = <<r>>
    BY <1>1, <2>2
  <2> QED
    BY <1>2, <2>1, <2>2
<1>4. AdapterOK
  <2>1. Tables /\ owed \in [Sessions -> Int]
    BY DEF Init, Tables, OptOrNone
  <2>2. mPowerOn \in BOOLEAN /\ spe \in BOOLEAN /\ hub \in BOOLEAN
    BY DEF Init
  <2>3. mPendingMsgs \in Seq(CmdShape)
    BY DEF Init
  <2> QED
    BY <1>3, <2>1, <2>2, <2>3 DEF AdapterOK
<1>5. OtherOK
  <2>1. CapsAtStart \in BOOLEAN
    BY TrackingAssumption
  <2>2. /\ nHz \in BOOLEAN /\ capsKnown \in BOOLEAN
        /\ up \in BOOLEAN /\ lock \in BOOLEAN /\ told \in BOOLEAN
    BY <2>1 DEF Init
  <2>3. adQ \in Seq(MsgShape)
    BY DEF Init
  <2>4. /\ clients \subseteq Clients /\ removing \in Clients \cup {NoClient}
        /\ engine \in TrackingOptions \cup {Off} /\ dbt \subseteq Sessions
        /\ started \subseteq Sessions /\ over \subseteq Sessions /\ hasty \subseteq Sessions
        /\ updates \in [Sessions -> Nat]
        /\ events \in Nat /\ flushes \in Nat
    BY DEF Init
  <2> QED
    BY <2>2, <2>3, <2>4 DEF OtherOK
<1> QED
  BY <1>4, <1>5 DEF Shape

(* The shape holds in every reachable state.                               *)
LEMMA ShapeInvariance == Spec => []Shape
BY ShapeInit, ShapeStep, PTL DEF Spec

(* For any sessions, clients, options and failures, the tables, the queues *)
(* and the engine hold values of their types: the options every handler    *)
(* reads from a response exist, and the engine is never started with       *)
(* options that were not filled in (GnssAdapter.cpp:                       *)
(* startTimeBasedTrackingMultiplex to checkAndRestartSPESession).          *)
THEOREM TypeCorrectness == Spec => []TypeOK
BY ShapeInvariance, ShapeTypes, PTL
=============================================================================
