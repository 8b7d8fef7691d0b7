-------------------------- MODULE TrackingSessions --------------------------
(***************************************************************************)
(* Tracking sessions in GnssAdapter.cpp.  Every client session is either   *)
(* time based or distance based.  The engine runs ONE time based session,  *)
(* so the adapter multiplexes: it keeps the options of every session and   *)
(* (re)starts the engine when a command changes what the sessions need.    *)
(*                                                                         *)
(* Two threads take part.  The adapter thread handles one message at a     *)
(* time; its requests are posted to the LocApi thread (apiQ), which talks  *)
(* to the modem and posts the LocApiResponse back to the adapter (adQ).    *)
(* Between the request and the response the adapter handles other          *)
(* commands.  Client commands are posted from the clients' threads, so a   *)
(* command may be the next message whatever adQ holds.                     *)
(*                                                                         *)
(* Left out: the position mode kept for the engine hub, the DGNSS and      *)
(* ODCPI flags the same handlers touch, and fixes.                         *)
(***************************************************************************)
EXTENDS Sequences, Integers, FiniteSets

CONSTANTS
    Sessions,      \* session ids, in the order of LocationSessionKey
    Clients,       \* the LocationAPI objects
    Owner,         \* Owner[s]: the client that starts session s
    Mute,          \* clients that pass none of the callbacks tracking needs
    Options,       \* the TrackingOptions clients pass
    NoOpt,         \* options of size 0
    NoClient,      \* no client
    Off,           \* the engine runs no time based session
    MinInterval,   \* MIN_TRACKING_INTERVAL
    DistSupported, \* isMessageSupported(..DISTANCE_BASE_TRACKING)
    CapsAtStart,   \* the engine is already open when the clients start
    Careless,      \* a client may pass options of size 0 to startTracking
    NHz,           \* the engine hub may ask for NHz measurements
    CanFail,       \* a request to a running modem may fail
    CanRestart,    \* the modem may restart
    CanLock,       \* the engine may be locked
    OpenFails,     \* locClientOpen may fail
    Patient,       \* clients that wait for the answer to a session's command
                   \* before they send the next, or are destroyed
    MaxUpdates,    \* bound: updates of one session
    MaxEvents      \* bound: engine restarts, lock changes, NHz changes and
                   \* suspend/resume configurations, all together

PowerModes == 0..5     \* GnssPowerMode: INVALID, M1 .. M5
TrackingOptions ==
    [ivl : Nat, pm : PowerModes, far : BOOLEAN, longTbm : BOOLEAN]

ASSUME TrackingAssumption ==
    /\ Sessions \subseteq Nat
    /\ NoClient \notin Clients
    /\ Owner \in [Sessions -> Clients]
    /\ Mute \subseteq Clients /\ Patient \subseteq Clients
    /\ Options \subseteq TrackingOptions
    /\ NoOpt \notin TrackingOptions /\ Off \notin TrackingOptions
    /\ MinInterval \in Nat /\ MaxUpdates \in Nat /\ MaxEvents \in Nat
    /\ {DistSupported, CapsAtStart, Careless, NHz, CanFail, CanRestart,
        CanLock, OpenFails} \subseteq BOOLEAN

VARIABLES
    time,         \* mTimeBasedTrackingSessions: options, or NoOpt
    dist,         \* mDistanceBasedTrackingSessions: options, or NoOpt
    mPowerOn,     \* what reportPowerStateIfChanged last reported
    nHz,          \* mNHzNeeded
    spe,          \* mSPEAlreadyRunningAtHighestInterval
    hub,          \* the engine hub was told that a GNSS session runs
    capsKnown,    \* mIsEngineCapabilitiesKnown
    mPendingMsgs, \* commands kept until the engine is open
    clients,      \* mClientData, as far as registered or not
    removing,     \* the client whose MsgRemoveClient is being handled
    apiQ,         \* requests to the LocApi thread
    adQ,          \* responses and events to the adapter thread
    engine,       \* modem: options of its time based session, or Off
    dbt,          \* modem: its distance based sessions
    up,           \* modem: the location service is reachable
    lock,         \* LocApiBase::mEngineLockState is ENABLED
    started,      \* history: sessions whose start was handled
    updates,      \* history: how often each session was updated
    events,       \* history: events so far, see MaxEvents
    owed,         \* history: commands of a session without an answer
    over,         \* history: sessions stopped by their client
    flushes,      \* history: how often mPendingMsgs was sent, not empty
    told,         \* history: the modem as it is was announced to the adapter
    hasty         \* history: sessions that got a command, or lost their
                  \* client, while an earlier one was not answered

sessVars == <<time, dist, mPowerOn>>
modemVars == <<engine, dbt, up, told>>
histVars == <<started, updates, over, flushes, hasty>>
vars == <<time, dist, mPowerOn, nHz, spe, hub, capsKnown, mPendingMsgs,
          clients, removing, apiQ, adQ, engine, dbt, up, lock, started,
          updates, events, owed, over, flushes, told, hasty>>

TimeSet == {s \in Sessions : time[s] # NoOpt}
DistSet == {s \in Sessions : dist[s] # NoOpt}

(* A request to the LocApi thread: an operation, the options o of a time   *)
(* based start, the session it is for (or the sessions, for a run of equal *)
(* distance based requests), and the LocApiResponse: its kind k and the    *)
(* options ro its lambda captured.                                         *)
Request(op, ids, o, k, ro) ==
    [op |-> op, ids |-> ids, o |-> o, k |-> k, ro |-> ro]

(* A message to the adapter thread; ok: the LocationError is SUCCESS.      *)
Message(k, ids, o, ok) == [k |-> k, ids |-> ids, o |-> o, ok |-> ok]

Init ==
    /\ time = [s \in Sessions |-> NoOpt]
    /\ dist = [s \in Sessions |-> NoOpt]
    /\ mPowerOn = FALSE /\ nHz = FALSE /\ spe = FALSE /\ hub = FALSE
    /\ capsKnown = CapsAtStart
    /\ mPendingMsgs = <<>>
    /\ clients = Clients
    /\ removing = NoClient
    /\ apiQ = IF CapsAtStart THEN <<>>
              ELSE <<Request("open", {}, NoOpt, "none", NoOpt)>>
    /\ adQ = <<>>
    /\ engine = Off /\ dbt = {} /\ lock = TRUE
    /\ up = CapsAtStart /\ told = CapsAtStart
    /\ started = {} /\ over = {} /\ hasty = {} /\ events = 0 /\ flushes = 0
    /\ updates = [s \in Sessions |-> 0]
    /\ owed = [s \in Sessions |-> 0]

-----------------------------------------------------------------------------
(* The session tables.                                                     *)

(* reportPowerStateIfChanged: the new mPowerOn.                            *)
PowerState(t, d) == \E s \in Sessions : t[s] # NoOpt \/ d[s] # NoOpt

(* saveTrackingSession on the tables t and d.                              *)
SaveTrackingSession(t, d, s, o) ==
    LET far == o.far /\ DistSupported
    IN /\ time' = IF far THEN t ELSE [t EXCEPT ![s] = o]
       /\ dist' = IF far THEN [d EXCEPT ![s] = o] ELSE d
       /\ mPowerOn' = PowerState(time', dist')

(* eraseTrackingSession: the tables without the session; a session found   *)
(* in the time based table is not looked for in the other one.             *)
Erased(s) == [t |-> [time EXCEPT ![s] = NoOpt],
              d |-> IF time[s] # NoOpt THEN dist ELSE [dist EXCEPT ![s] = NoOpt]]
MutantEraseQuiet(s) ==  \* the power state is not reported
    /\ time' = Erased(s).t
    /\ dist' = Erased(s).d
    /\ UNCHANGED mPowerOn
EraseTrackingSession(s) ==
    /\ time' = Erased(s).t
    /\ dist' = Erased(s).d
    /\ mPowerOn' = PowerState(time', dist')

(* reportResponse reaches only a registered client.  Owed(s, n, now): the  *)
(* answers owed after n new commands (0 or 1) and, if now, one answer.     *)
Owed(s, n, now) ==
    IF Owner[s] \in clients
    THEN [owed EXCEPT ![s] = @ + n - (IF now THEN 1 ELSE 0)] ELSE owed

-----------------------------------------------------------------------------
(* Multiplexing.  An outcome says what a multiplexing step does: the       *)
(* requests it posts, the new spe and hub, and whether the client is       *)
(* answered at once (because nothing is posted that will answer it).       *)

Outcome(reqs, newSpe, newHub, now) ==
    [reqs |-> reqs, spe |-> newSpe, hub |-> newHub, now |-> now]

(* checkAndSetSPEToRunforNHz: runs nothing when the engine already runs at *)
(* the highest rate, else raises the rate to it.                           *)
SpeSkips == nHz /\ spe
SpeRaises(o) == nHz /\ ~spe /\ o.ivl > MinInterval
ForNHz(o) == IF SpeRaises(o) THEN [o EXCEPT !.ivl = MinInterval] ELSE o

(* startTimeBasedTracking (k = "start") and updateTracking (k = "update",  *)
(* old the options to restore should the request fail).                    *)
StartEngine(k, s, o, old) ==
    IF SpeSkips THEN Outcome(<<>>, spe, TRUE, TRUE)
    ELSE Outcome(<<Request("start", {s}, ForNHz(o), k, old)>>,
                 spe \/ SpeRaises(o), TRUE, FALSE)

(* The options with the smallest interval of the sessions S, the first     *)
(* such session in key order; zeroed options when S is empty.              *)
Zero == [ivl |-> 0, pm |-> 0, far |-> FALSE, longTbm |-> FALSE]
Smallest(S) ==
    IF S = {} THEN Zero
    ELSE time[CHOOSE s \in S : \A r \in S \ {s} :
                \/ time[s].ivl < time[r].ivl
                \/ time[s].ivl = time[r].ivl /\ s < r]

LeastOf(N) == CHOOSE n \in N : \A m \in N : n <= m

(* The scan for multiplexedPowerMode in key order.  INVALID (0) means "not *)
(* set" to the scan, so a session with INVALID makes it start again at the *)
(* next session.                                                           *)
LowestPowerMode(S) ==
    LET after == {s \in S : \A r \in S : time[r].pm = 0 => r < s}
    IN IF after = {} THEN 0 ELSE LeastOf({time[s].pm : s \in after})

(* startTimeBasedTrackingMultiplex.                                        *)
StartMultiplex(s, o) ==
    LET m == Smallest(TimeSet)
        faster == o.ivl < m.ivl
        stronger == o.pm < LowestPowerMode(TimeSet)
        mux == [m EXCEPT !.ivl = IF faster THEN o.ivl ELSE @,
                         !.pm = IF stronger THEN o.pm ELSE @]
    IN IF TimeSet = {} THEN StartEngine("start", s, o, NoOpt)
       ELSE IF faster \/ stronger THEN StartEngine("start", s, mux, NoOpt)
       ELSE Outcome(<<>>, spe, hub, TRUE)

(* updateTrackingMultiplex.                                                *)
UpdateMultiplex(s, o) ==
    LET others == TimeSet \ {s}
        m == Smallest(others)
        changed == time[s].ivl # o.ivl \/ time[s].pm # o.pm
        faster == o.ivl < m.ivl
        stronger == o.pm < LowestPowerMode(others)
        mux == IF others = {} THEN o
               ELSE [m EXCEPT !.ivl = IF faster THEN o.ivl ELSE @,
                              !.pm = IF stronger THEN o.pm ELSE @]
    IN IF changed /\ (faster \/ stronger \/ others = {})
       THEN StartEngine("update", s, mux, time[s])
       ELSE Outcome(<<>>, spe, hub, TRUE)

(* stopTimeBasedTrackingMultiplex, with stopTracking for the last session. *)
MutantStopUnfilled(s) ==  \* the engine is restarted with options never filled in
    IF TimeSet = {s}
    THEN Outcome(<<Request("stop", {s}, NoOpt, "stop", NoOpt)>>, FALSE, FALSE, FALSE)
    ELSE Outcome(<<Request("start", {s}, NoOpt, "start", NoOpt)>>, spe, TRUE, FALSE)
StopMultiplex(s) ==
    LET others == TimeSet \ {s}
        m == Smallest(others)
        pm == LowestPowerMode(others)
    IN IF others = {}
       THEN Outcome(<<Request("stop", {s}, NoOpt, "stop", NoOpt)>>, FALSE, FALSE, FALSE)
       ELSE IF time[s].ivl < m.ivl \/ time[s].pm < pm
       THEN StartEngine("start", s, [m EXCEPT !.pm = pm], NoOpt)
       ELSE Outcome(<<>>, spe, hub, TRUE)

(* checkAndRestartTimeBasedSession: the smallest interval with the highest *)
(* power, where a first session with INVALID outranks all others.  The     *)
(* caller has reset spe.                                                   *)
RestartOptions ==
    LET first == LeastOf(TimeSet)
        valid == {time[s].pm : s \in TimeSet} \ {0}
    IN [Smallest(TimeSet) EXCEPT
          !.pm = IF time[first].pm = 0 THEN 0 ELSE LeastOf(valid)]

(* checkAndRestartSPESession, for a given mNHzNeeded.  The distance based  *)
(* starts follow each other and nobody waits for their responses: one      *)
(* request stands for them.                                                *)
RestartRequests(n) ==
    LET raise == n /\ RestartOptions.ivl > MinInterval
        o == IF raise THEN [RestartOptions EXCEPT !.ivl = MinInterval]
             ELSE RestartOptions
    IN (IF TimeSet = {} THEN <<>>
        ELSE <<Request("start", {}, o, "none", NoOpt)>>)
       \o (IF DistSet = {} THEN <<>>
           ELSE <<Request("startDbt", DistSet, NoOpt, "none", NoOpt)>>)
RestartSpe(n) == n /\ TimeSet # {} /\ RestartOptions.ivl > MinInterval

(* Post the requests of an outcome, then the requests more.                *)
Post(out, more) ==
    /\ apiQ' = apiQ \o out.reqs \o more
    /\ spe' = out.spe
    /\ hub' = out.hub

-----------------------------------------------------------------------------
(* Client commands, handled on the adapter thread.                         *)

AdapterIdle == removing = NoClient
Ready(s) == Owner[s] \in Patient => owed[s] = 0
Hurried(S) == hasty' = hasty \cup {s \in S : owed[s] # 0}

(* MIN_TRACKING_INTERVAL, and M4 with too long a TBM falls back to M2.     *)
Clamped(o) == IF o.ivl < MinInterval THEN [o EXCEPT !.ivl = MinInterval] ELSE o
M2Fallback(o) == IF o.pm = 4 /\ o.longTbm THEN [o EXCEPT !.pm = 2] ELSE o

MustWait(o) == ~capsKnown /\ o # NoOpt /\ o.far

(* MsgStartTracking::proc.  n = 1 for a command just received, 0 for one   *)
(* that was kept in mPendingMsgs.                                          *)
StartKept(s, o, n) ==
    /\ MustWait(o)
    /\ mPendingMsgs' = Append(mPendingMsgs, Message("startCmd", {s}, o, TRUE))
    /\ owed' = Owed(s, n, FALSE)
    /\ UNCHANGED <<sessVars, spe, hub, apiQ>>

(* Missing callbacks or options of size 0: err is set and never reported.  *)
StartRefused(s, o, n) ==
    /\ ~MustWait(o)
    /\ Owner[s] \notin clients \/ Owner[s] \in Mute \/ o = NoOpt
    /\ owed' = Owed(s, n, FALSE)
    /\ UNCHANGED <<sessVars, spe, hub, apiQ, mPendingMsgs>>

StartAllowed(s, o) ==
    ~MustWait(o) /\ Owner[s] \in clients \ Mute /\ o # NoOpt

StartDistance(s, o, n) ==
    /\ StartAllowed(s, o) /\ o.far /\ DistSupported
    /\ SaveTrackingSession(time, dist, s, Clamped(o))
    /\ apiQ' = Append(apiQ, Request("startDbt", {s}, NoOpt, "dbtStart", NoOpt))
    /\ owed' = Owed(s, n, FALSE)
    /\ UNCHANGED <<spe, hub, mPendingMsgs>>

StartTime(s, o, n) ==
    LET p == M2Fallback(Clamped(o))
        out == StartMultiplex(s, p)
    IN /\ StartAllowed(s, o) /\ ~(o.far /\ DistSupported)
       /\ Post(out, <<>>)
       /\ SaveTrackingSession(time, dist, s, p)
       /\ owed' = Owed(s, n, out.now)
       /\ UNCHANGED mPendingMsgs

StartTracking(s, o, n) ==
    \/ StartKept(s, o, n)
    \/ StartRefused(s, o, n)
    \/ StartDistance(s, o, n)
    \/ StartTime(s, o, n)

(* MsgUpdateTracking::proc.                                                *)
UpdateKept(s, o, n) ==
    /\ MustWait(o)
    /\ mPendingMsgs' = Append(mPendingMsgs, Message("updateCmd", {s}, o, TRUE))
    /\ owed' = Owed(s, n, FALSE)
    /\ UNCHANGED <<sessVars, spe, hub, apiQ>>

(* ID_UNKNOWN or INVALID_PARAMETER, reported at once.                      *)
UpdateRefused(s, o, n) ==
    /\ ~MustWait(o)
    /\ s \notin TimeSet \cup DistSet \/ o = NoOpt
    /\ owed' = Owed(s, n, TRUE)
    /\ UNCHANGED <<sessVars, spe, hub, apiQ, mPendingMsgs>>

UpdateAllowed(s, o) == ~MustWait(o) /\ o # NoOpt

(* Time based to distance based: the client is answered for the stop, and  *)
(* the options are saved wherever saveTrackingSession puts them.           *)
UpdateToDistance(s, o, n) ==
    LET out == StopMultiplex(s)
    IN /\ UpdateAllowed(s, o) /\ s \in TimeSet /\ o.far
       /\ Post(out, <<Request("startDbt", {s}, NoOpt, "none", NoOpt)>>)
       /\ SaveTrackingSession(Erased(s).t, Erased(s).d, s, M2Fallback(Clamped(o)))
       /\ owed' = Owed(s, n, out.now)
       /\ UNCHANGED mPendingMsgs

(* Distance based to time based: the session is erased now and saved again *)
(* by the response (RespSwitch).                                           *)
UpdateToTime(s, o, n) ==
    /\ UpdateAllowed(s, o) /\ s \in DistSet /\ ~o.far
    /\ EraseTrackingSession(s)
    /\ apiQ' = Append(apiQ, Request("stopDbt", {s}, NoOpt, "switch",
                                    M2Fallback(Clamped(o))))
    /\ owed' = Owed(s, n, FALSE)
    /\ UNCHANGED <<spe, hub, mPendingMsgs>>

UpdateTime(s, o, n) ==
    LET p == M2Fallback(Clamped(o))
        out == UpdateMultiplex(s, p)
    IN /\ UpdateAllowed(s, o) /\ s \in TimeSet \ DistSet /\ ~o.far
       /\ Post(out, <<>>)
       /\ SaveTrackingSession(time, dist, s, p)
       /\ owed' = Owed(s, n, out.now)
       /\ UNCHANGED mPendingMsgs

(* A distance based session is restarted: stop, and start in the response. *)
UpdateDistance(s, o, n) ==
    /\ UpdateAllowed(s, o) /\ s \in DistSet \ TimeSet /\ o.far
    /\ apiQ' = Append(apiQ, Request("stopDbt", {s}, NoOpt, "restart",
                                    M2Fallback(Clamped(o))))
    /\ owed' = Owed(s, n, FALSE)
    /\ UNCHANGED <<sessVars, spe, hub, mPendingMsgs>>

UpdateTracking(s, o, n) ==
    \/ UpdateKept(s, o, n)
    \/ UpdateRefused(s, o, n)
    \/ UpdateToDistance(s, o, n)
    \/ UpdateToTime(s, o, n)
    \/ UpdateTime(s, o, n)
    \/ UpdateDistance(s, o, n)

Start(s, o) ==
    /\ AdapterIdle /\ s \notin started /\ Owner[s] \in clients
    /\ o = NoOpt => Careless
    /\ StartTracking(s, o, 1)
    /\ started' = started \cup {s}
    /\ UNCHANGED <<nHz, capsKnown, clients, removing, adQ, modemVars, lock,
                   updates, events, over, flushes, hasty>>

Update(s, o) ==
    /\ AdapterIdle /\ s \in started /\ Owner[s] \in clients /\ Ready(s)
    /\ updates[s] < MaxUpdates
    /\ UpdateTracking(s, o, 1)
    /\ updates' = [updates EXCEPT ![s] = @ + 1]
    /\ Hurried({s})
    /\ UNCHANGED <<nHz, capsKnown, clients, removing, adQ, modemVars, lock,
                   started, events, over, flushes>>

(* MsgStopTracking::proc.                                                  *)
StopUnknown(s) ==
    /\ s \notin TimeSet \cup DistSet
    /\ UNCHANGED <<sessVars, spe, hub, apiQ, owed>>

StopTime(s) ==
    LET out == StopMultiplex(s)
    IN /\ s \in TimeSet
       /\ Post(out, <<>>)
       /\ EraseTrackingSession(s)
       /\ owed' = Owed(s, 1, out.now)

MutantStopDistance(s) ==  \* the session is erased and the modem not told
    /\ s \in DistSet \ TimeSet
    /\ EraseTrackingSession(s)
    /\ owed' = Owed(s, 1, TRUE)
    /\ UNCHANGED <<apiQ, spe, hub>>
StopDistance(s) ==
    /\ s \in DistSet \ TimeSet
    /\ apiQ' = Append(apiQ, Request("stopDbt", {s}, NoOpt, "dbtStop", NoOpt))
    /\ owed' = Owed(s, 1, FALSE)
    /\ UNCHANGED <<sessVars, spe, hub>>

Stop(s) ==
    /\ AdapterIdle /\ s \in started \ over /\ Owner[s] \in clients /\ Ready(s)
    /\ StopUnknown(s) \/ StopTime(s) \/ StopDistance(s)
    /\ over' = over \cup {s}
    /\ Hurried({s})
    /\ UNCHANGED <<nHz, capsKnown, mPendingMsgs, clients, removing, adQ,
                   modemVars, lock, started, updates, events, flushes>>

(* MsgRemoveClient::proc: stopClientSessions, one session at a time while  *)
(* the LocApi thread goes on, then eraseClient.                            *)
Owned(c) == {s \in Sessions : Owner[s] = c}

RemoveClient(c) ==
    /\ AdapterIdle /\ c \in clients
    /\ \A s \in Owned(c) : Ready(s)
    /\ removing' = c
    /\ over' = over \cup Owned(c)
    /\ Hurried(Owned(c))
    /\ UNCHANGED <<sessVars, nHz, spe, hub, capsKnown, mPendingMsgs, clients,
                   apiQ, adQ, modemVars, lock, started, updates, events, owed,
                   flushes>>

(* Session by session in key order.  Answers given on the way are not      *)
(* counted: the client has not asked for them and is being erased.         *)
RemoveTime(s) ==
    LET out == StopMultiplex(s)
    IN /\ removing # NoClient /\ s \in Owned(removing) \cap TimeSet
       /\ \A r \in Owned(removing) \cap TimeSet : s <= r
       /\ Post(out, <<>>)
       /\ EraseTrackingSession(s)
       /\ UNCHANGED <<nHz, capsKnown, mPendingMsgs, clients, removing, adQ,
                      modemVars, lock, histVars, events, owed>>

RemoveRest ==
    LET mine == Owned(removing) \cap DistSet
    IN /\ removing # NoClient /\ Owned(removing) \cap TimeSet = {}
       /\ apiQ' = IF mine = {} THEN apiQ
                  ELSE Append(apiQ, Request("stopDbt", mine, NoOpt, "erase", NoOpt))
       /\ clients' = clients \ {removing}
       /\ removing' = NoClient
       /\ owed' = [s \in Sessions |-> IF s \in Owned(removing) THEN 0 ELSE owed[s]]
       /\ UNCHANGED <<sessVars, nHz, spe, hub, capsKnown, mPendingMsgs, adQ,
                      modemVars, lock, histVars, events>>

-----------------------------------------------------------------------------
(* The adapter thread handles the head of its queue.                       *)

Handle(k) == /\ AdapterIdle
             /\ adQ # <<>> /\ Head(adQ).k = k
             /\ adQ' = Tail(adQ)
             /\ UNCHANGED <<clients, removing, modemVars, lock, histVars, events>>

(* Nothing but the session tables and owed changes.                        *)
OnlySessions == UNCHANGED <<nHz, spe, hub, capsKnown, mPendingMsgs, apiQ>>

(* startTimeBasedTracking and startDistanceBasedTracking: a start that     *)
(* failed while the engine is not locked ends the session.                 *)
MutantStartSilent(k) ==  \* only failures are reported
    /\ Handle(k)
    /\ \E s \in Head(adQ).ids :
         /\ IF lock /\ ~Head(adQ).ok THEN EraseTrackingSession(s) ELSE UNCHANGED sessVars
         /\ owed' = Owed(s, 0, ~Head(adQ).ok)
    /\ OnlySessions
RespStart(k) ==
    /\ Handle(k)
    /\ \E s \in Head(adQ).ids :
         /\ IF lock /\ ~Head(adQ).ok THEN EraseTrackingSession(s) ELSE UNCHANGED sessVars
         /\ owed' = Owed(s, 0, TRUE)
    /\ OnlySessions

(* updateTracking: a failed update restores the old options.               *)
RespUpdate ==
    /\ Handle("update")
    /\ \E s \in Head(adQ).ids :
         /\ IF lock /\ ~Head(adQ).ok
            THEN SaveTrackingSession(time, dist, s, Head(adQ).o) ELSE UNCHANGED sessVars
         /\ owed' = Owed(s, 0, TRUE)
    /\ OnlySessions

(* stopTracking: the answer to the stop of the last time based session.    *)
RespStop ==
    /\ Handle("stop")
    /\ \E s \in Head(adQ).ids : owed' = Owed(s, 0, TRUE)
    /\ UNCHANGED sessVars /\ OnlySessions

(* MsgStopTracking, distance based.                                        *)
MutantDistanceStopKeeps ==  \* the session stays in the table
    /\ Handle("dbtStop")
    /\ \E s \in Head(adQ).ids : owed' = Owed(s, 0, TRUE)
    /\ UNCHANGED sessVars /\ OnlySessions
RespDistanceStop ==
    /\ Handle("dbtStop")
    /\ \E s \in Head(adQ).ids :
         /\ IF ~lock \/ Head(adQ).ok THEN EraseTrackingSession(s) ELSE UNCHANGED sessVars
         /\ owed' = Owed(s, 0, TRUE)
    /\ OnlySessions

(* stopClientSessions, distance based: one eraseTrackingSession each.      *)
RespClientStop ==
    /\ Handle("erase")
    /\ IF Head(adQ).ok
       THEN /\ time' = [s \in Sessions |-> IF s \in Head(adQ).ids THEN Erased(s).t[s] ELSE time[s]]
            /\ dist' = [s \in Sessions |-> IF s \in Head(adQ).ids THEN Erased(s).d[s] ELSE dist[s]]
            /\ mPowerOn' = PowerState(time', dist')
       ELSE UNCHANGED sessVars
    /\ UNCHANGED owed /\ OnlySessions

(* Distance based to time based: start and save, whatever the error was.   *)
RespSwitch ==
    /\ Handle("switch")
    /\ \E s \in Head(adQ).ids :
         LET o == Head(adQ).o
             out == StartMultiplex(s, o)
         IN /\ Post(out, <<>>)
            /\ SaveTrackingSession(time, dist, s, o)
            /\ owed' = Owed(s, 0, out.now)
    /\ UNCHANGED <<nHz, capsKnown, mPendingMsgs>>

(* A distance based session is restarted after a successful stop; after a  *)
(* failed one nobody is told.                                              *)
RespRestart ==
    /\ Handle("restart")
    /\ apiQ' = IF Head(adQ).ok
               THEN Append(apiQ, Request("startDbt", Head(adQ).ids, NoOpt,
                                         "restarted", Head(adQ).o))
               ELSE apiQ
    /\ UNCHANGED <<sessVars, nHz, spe, hub, capsKnown, mPendingMsgs, owed>>

RespRestarted ==
    /\ Handle("restarted")
    /\ \E s \in Head(adQ).ids :
         /\ IF ~lock \/ Head(adQ).ok
            THEN SaveTrackingSession(time, dist, s, Head(adQ).o) ELSE UNCHANGED sessVars
         /\ owed' = Owed(s, 0, TRUE)
    /\ OnlySessions

(* Commands that mPendingMsgs kept.                                        *)
PendingStart ==
    /\ Handle("startCmd")
    /\ \E s \in Head(adQ).ids : StartTracking(s, Head(adQ).o, 0)
    /\ UNCHANGED <<nHz, capsKnown>>

PendingUpdate ==
    /\ Handle("updateCmd")
    /\ \E s \in Head(adQ).ids : UpdateTracking(s, Head(adQ).o, 0)
    /\ UNCHANGED <<nHz, capsKnown>>

(* MsgHandleEngineUpEvent: with the engine unlocked, restartSessions(true) *)
(* and the kept commands, which stay in mPendingMsgs.                      *)
MutantEngineUpForgets ==  \* the sessions are not restarted
    /\ Handle("engineUp")
    /\ capsKnown' = TRUE
    /\ UNCHANGED <<sessVars, nHz, spe, hub, mPendingMsgs, apiQ, owed>>
EngineUp ==
    /\ AdapterIdle /\ adQ # <<>> /\ Head(adQ).k = "engineUp"
    /\ capsKnown' = TRUE
    /\ IF lock
       THEN /\ hub' = (hub \/ TimeSet # {})
            /\ apiQ' = apiQ \o RestartRequests(nHz)
            /\ spe' = RestartSpe(nHz)
            /\ adQ' = Tail(adQ) \o mPendingMsgs
            /\ flushes' = IF mPendingMsgs = <<>> THEN flushes ELSE flushes + 1
       ELSE /\ adQ' = Tail(adQ)
            /\ UNCHANGED <<hub, apiQ, spe, flushes>>
    /\ UNCHANGED <<sessVars, nHz, mPendingMsgs, clients, removing, modemVars,
                   lock, started, updates, over, events, owed, hasty>>

Event == events < MaxEvents /\ events' = events + 1

(* updateNHzRequirementCb of the engine hub.                               *)
NHzChanged ==
    /\ NHz /\ AdapterIdle /\ Event
    /\ nHz' = ~nHz
    /\ apiQ' = apiQ \o RestartRequests(nHz')
    /\ spe' = RestartSpe(nHz')
    /\ UNCHANGED <<sessVars, hub, capsKnown, mPendingMsgs, clients, removing,
                   adQ, modemVars, lock, histVars, owed>>

(* A configuration that needs the engine stopped (gnssUpdateSvConfig,      *)
(* configMinGpsWeek, gnssUpdateConfigCommand): suspendSessions and         *)
(* restartSessions(false) in one handler.                                  *)
Reconfigure ==
    /\ AdapterIdle /\ Event
    /\ apiQ' = apiQ \o (IF TimeSet = {} THEN <<>>
                        ELSE <<Request("stop", {}, NoOpt, "none", NoOpt)>>)
                    \o RestartRequests(nHz)
    /\ spe' = RestartSpe(nHz)
    /\ hub' = (hub \/ TimeSet # {})
    /\ UNCHANGED <<sessVars, nHz, capsKnown, mPendingMsgs, clients, removing,
                   adQ, modemVars, lock, histVars, owed>>

-----------------------------------------------------------------------------
(* The LocApi thread (LocApiV02.cpp) handles the head of its queue.        *)

Respond(ok) ==
    LET r == Head(apiQ)
    IN /\ apiQ' = Tail(apiQ)
       /\ adQ' = IF r.k = "none" THEN adQ
                 ELSE Append(adQ, Message(r.k, r.ids, r.ro, ok))

ApiOnly == UNCHANGED <<sessVars, nHz, spe, hub, capsKnown, mPendingMsgs,
                       clients, removing, lock, histVars, events, owed>>

(* A time based request fails for a modem that is down, and one that is    *)
(* running or locked may refuse it.                                        *)
Fails == ~up \/ CanFail \/ ~lock

ApiStart ==
    /\ apiQ # <<>> /\ Head(apiQ).op = "start"
    /\ \/ /\ up
          /\ engine' = Head(apiQ).o
          /\ Respond(TRUE)
       \/ /\ Fails
          /\ UNCHANGED engine
          /\ Respond(FALSE)
    /\ UNCHANGED <<dbt, up, told>> /\ ApiOnly

ApiStop ==
    /\ apiQ # <<>> /\ Head(apiQ).op = "stop"
    /\ \/ /\ up
          /\ engine' = Off
          /\ Respond(TRUE)
       \/ /\ Fails
          /\ UNCHANGED engine
          /\ Respond(FALSE)
    /\ UNCHANGED <<dbt, up, told>> /\ ApiOnly

(* Distance based requests answer SUCCESS whatever the modem says.         *)
ApiStartDbt ==
    /\ apiQ # <<>> /\ Head(apiQ).op = "startDbt"
    /\ \/ up /\ dbt' = dbt \cup Head(apiQ).ids
       \/ Fails /\ UNCHANGED dbt
    /\ Respond(TRUE)
    /\ UNCHANGED <<engine, up, told>> /\ ApiOnly

ApiStopDbt ==
    /\ apiQ # <<>> /\ Head(apiQ).op = "stopDbt"
    /\ \/ up /\ dbt' = dbt \ Head(apiQ).ids
       \/ Fails /\ UNCHANGED dbt
    /\ Respond(TRUE)
    /\ UNCHANGED <<engine, up, told>> /\ ApiOnly

(* LocOpenMsg for the adapter and LocSsrMsg: open, and on success          *)
(* handleEngineUpEvent.  An open that fails is not tried again.            *)
ApiOpen ==
    /\ apiQ # <<>> /\ Head(apiQ).op = "open"
    /\ apiQ' = Tail(apiQ)
    /\ \/ /\ up' = TRUE /\ told' = TRUE
          /\ adQ' = Append(adQ, Message("engineUp", {}, NoOpt, TRUE))
       \/ OpenFails /\ UNCHANGED <<up, told, adQ>>
    /\ UNCHANGED <<engine, dbt>> /\ ApiOnly

(* LocOpenMsg without an adapter, or for another one (updateEvtMask,       *)
(* addAdapter, removeAdapter): where an open failed it opens the modem and *)
(* does not tell this adapter.  It finds a handle, and opens nothing, when *)
(* the modem is up and as long as a LocSsrMsg has not closed a stale one.  *)
Reopen ==
    /\ OpenFails /\ ~up /\ \A i \in DOMAIN apiQ : apiQ[i].op # "open"
    /\ up' = TRUE
    /\ UNCHANGED <<apiQ, adQ, engine, dbt, told>> /\ ApiOnly

-----------------------------------------------------------------------------
(* The modem (external).                                                   *)

(* A subsystem restart: its sessions are gone, and handleEngineDownEvent   *)
(* posts LocSsrMsg.                                                        *)
EngineDown ==
    /\ CanRestart /\ up /\ Event
    /\ up' = FALSE /\ told' = FALSE /\ engine' = Off /\ dbt' = {}
    /\ apiQ' = Append(apiQ, Request("open", {}, NoOpt, "none", NoOpt))
    /\ UNCHANGED <<sessVars, nHz, spe, hub, capsKnown, mPendingMsgs, clients,
                   removing, adQ, lock, histVars, owed>>

(* setEngineLockState on the QMI thread.  GnssAdapter keeps no command in  *)
(* mPendingGnssEnabledMsgs, so handleEngineLockStatus changes nothing.     *)
LockChanged ==
    /\ CanLock /\ Event
    /\ lock' = ~lock
    /\ UNCHANGED <<sessVars, nHz, spe, hub, capsKnown, mPendingMsgs, clients,
                   removing, apiQ, adQ, modemVars, histVars, owed>>

-----------------------------------------------------------------------------
Command == \E s \in Sessions :
             \/ \E o \in Options \cup {NoOpt} : Start(s, o) \/ Update(s, o)
             \/ Stop(s)

Removal == \/ \E c \in Clients : RemoveClient(c)
           \/ \E s \in Sessions : RemoveTime(s)
           \/ RemoveRest

Response == \/ \E k \in {"start", "dbtStart"} : RespStart(k)
            \/ RespUpdate \/ RespStop \/ RespDistanceStop \/ RespClientStop
            \/ RespSwitch \/ RespRestart \/ RespRestarted
            \/ PendingStart \/ PendingUpdate \/ EngineUp

LocApi == ApiStart \/ ApiStop \/ ApiStartDbt \/ ApiStopDbt \/ ApiOpen

Next == Command \/ Removal \/ Response \/ LocApi
        \/ NHzChanged \/ Reconfigure \/ Reopen \/ EngineDown \/ LockChanged

Spec == Init /\ [][Next]_vars

-----------------------------------------------------------------------------
(* Properties.                                                             *)

OptOrNone == TrackingOptions \cup {NoOpt}
RespKinds == {"start", "dbtStart", "update", "stop", "dbtStop", "erase",
              "switch", "restart", "restarted"}
Requests == [op : {"open", "start", "stop", "startDbt", "stopDbt"},
             ids : SUBSET Sessions, o : OptOrNone, k : RespKinds \cup {"none"},
             ro : OptOrNone]
Messages == [k : RespKinds \cup {"engineUp", "startCmd", "updateCmd"},
             ids : SUBSET Sessions, o : OptOrNone, ok : BOOLEAN]

(* The session tables, the flags, the queues and the engine hold values of *)
(* their types; in particular what reaches the engine are real options.    *)
TypeOK ==
    /\ time \in [Sessions -> OptOrNone] /\ dist \in [Sessions -> OptOrNone]
    /\ {mPowerOn, nHz, spe, hub, capsKnown, up, lock, told} \subseteq BOOLEAN
    /\ clients \subseteq Clients /\ removing \in Clients \cup {NoClient}
    /\ mPendingMsgs \in Seq(Messages) /\ adQ \in Seq(Messages)
    /\ apiQ \in Seq(Requests)
    /\ engine \in TrackingOptions \cup {Off} /\ dbt \subseteq Sessions
    /\ {started, over, hasty} \subseteq SUBSET Sessions
    /\ updates \in [Sessions -> Nat] /\ owed \in [Sessions -> Int]
    /\ events \in Nat /\ flushes \in Nat

(* reportPowerStateIfChanged is called on every path that changes a table: *)
(* the power state last reported is the one the tables imply.              *)
PowerFollowsSessions == mPowerOn <=> TimeSet \cup DistSet # {}

(* The two threads have nothing left to do.                                *)
Quiet == apiQ = <<>> /\ adQ = <<>> /\ removing = NoClient

(* The multiplexer keeps its promise: once both threads are idle and the   *)
(* adapter was told of the modem that is up, the engine runs if there is a *)
(* time based session, and at least as fast as every session asked, and    *)
(* the modem tracks by distance for every distance based one (of a client  *)
(* that waited for its answers), whatever commands, restarts of the modem  *)
(* and responses overlapped.  Where a modem does not open again, or opens  *)
(* later and silently, nobody restarts the sessions: hence told.           *)
EngineServes ==
    Quiet /\ told => /\ \A s \in TimeSet : engine # Off /\ engine.ivl <= time[s].ivl
                     /\ DistSet \ hasty \subseteq dbt

(* Once both threads are idle nothing is left running for nobody: with the *)
(* last time based session the engine stops, no distance based session     *)
(* that was stopped or became a time based one goes on in the modem, and   *)
(* the engine hub was told (gnssStartFix and gnssStopFix are balanced).    *)
(* An event ends that: a locked or restarted modem refuses a stop, and a   *)
(* reconfiguration starts again a session that is being stopped.           *)
NothingLeftRunning ==
    events = 0 => /\ Quiet /\ TimeSet = {} => engine = Off
                  /\ Quiet => dbt \subseteq DistSet
                  /\ AdapterIdle => (hub <=> TimeSet # {})

(* Once a client has stopped a session or is gone, and the threads are     *)
(* idle, the session is gone too: no response brings it back.  Nor does    *)
(* one leave a session in both tables, of which a stop would end one half. *)
(* It holds session by session, of every session whose client waited for   *)
(* the answer to one command before it sent the next, whatever the other   *)
(* clients do; the late response to an overtaken update does bring a       *)
(* stopped session back.                                                   *)
StoppedStays ==
    /\ Quiet => (over \ hasty) \cap (TimeSet \cup DistSet) = {}
    /\ TimeSet \cap DistSet \subseteq hasty

(* Every command is answered, and answered once.                           *)
AnsweredOnce ==
    \A s \in Sessions :
        /\ owed[s] >= 0
        /\ (Quiet /\ (mPendingMsgs = <<>> \/ flushes > 0)) => owed[s] = 0

=============================================================================
