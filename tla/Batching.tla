------------------------------ MODULE Batching ------------------------------
(***************************************************************************)
(* BatchingAdapter.cpp and the batching requests of LocApiV02.cpp.  A      *)
(* client batches fixes in the modem: a routine session, one that does not *)
(* report by itself ("noauto"), or a trip that ends after a distance.  The *)
(* modem runs every routine session by its id, but ONE outdoor trip: the   *)
(* adapter multiplexes the trips of all clients over it and restarts it    *)
(* when a trip starts, stops or completes.                                 *)
(*                                                                         *)
(* The adapter thread handles one message of adQ at a time; its requests   *)
(* go to the LocApi thread (apiQ), whose answers come back as messages.    *)
(* Distances and intervals are uint32_t: they wrap at Wrap.                *)
(*                                                                         *)
(* Left out: the batched fixes and getBatchedLocations, which change no    *)
(* state, and the batch size of routine sessions.                          *)
(***************************************************************************)
EXTENDS Integers, FiniteSets, SequencesExt

CONSTANTS
    Sessions,    \* session ids, in the order of the maps
    Clients,     \* the LocationAPI objects
    Owner,       \* Owner[s]: the client that starts session s
    Options,     \* the BatchingOptions clients pass
    NoOpt,       \* the session is not in mBatchingSessions
    NoTrip,      \* the session is not in mTripSessions
    Off,         \* the modem runs no outdoor trip
    Wrap,        \* 2^32 in the code
    Anytime,     \* what the environment does without regard to the rest:
                 \*   "command": a command while an earlier one is handled
                 \*   "update":  an update while the engine is locked, or of a trip
                 \*              while another runs
                 \*   "recovery": a lock change or another restart while
                 \*              the adapter recovers, a restart while locked
                 \*   "travel":  movement while a trip is (re)started
                 \*   "trip":    a modem restart or a lock change while there
                 \*              are trips, a trip started while locked
                 \*   "leave":   a client that leaves after it started a trip
                 \*   "fail":    a request a running modem refuses
    MaxUpdates,  \* bound: updates of all sessions together
    MaxEvents,   \* bound: modem restarts and lock changes together
    MaxTravel,   \* bound: units of distance travelled
    MaxFull      \* bound: batch full indications

Modes == {"routine", "noauto", "trip"}
BatchingOptions == [mode : Modes, d : Nat, t : Nat]
DefaultOptions == [mode |-> "routine", d |-> 0, t |-> 0]
Causes == {"command", "update", "travel", "trip", "leave", "fail",
           "recovery"}

ASSUME BatchingAssumption ==
    /\ Sessions \subseteq Nat /\ IsFiniteSet(Sessions)
    /\ Owner \in [Sessions -> Clients]
    /\ Options \subseteq BatchingOptions
    /\ NoOpt \notin BatchingOptions
    /\ Wrap \in Nat \ {0}
    /\ \A o \in Options : o.d < Wrap /\ o.t < Wrap
    /\ Anytime \subseteq Causes
    /\ {MaxUpdates, MaxEvents, MaxTravel, MaxFull} \subseteq Nat

VARIABLES
    ad,          \* the adapter's tables, see AdapterType
    capsKnown,   \* mIsEngineCapabilitiesKnown
    mPendingMsgs,            \* commands kept until the engine is up
    mPendingGnssEnabledMsgs, \* starts kept until the engine is unlocked
    clients,     \* mClientData
    apiQ,        \* messages to the LocApi thread
    adQ,         \* messages to the adapter thread
    tripBuf,     \* LocApiV02::mTripBatchSize is not 0
    lock,        \* LocApiBase::mEngineLockState is ENABLED
    routine,     \* modem: the routine sessions it runs
    trip,        \* modem: its outdoor trip [d, t, acc], or Off
    up,          \* modem: the location service is reachable
    want,        \* history: sessions started and not stopped or completed
    begun,       \* history: sessions started
    covered,     \* history: distance travelled since the start of a trip
    early,       \* history: trips reported complete before their distance
    count        \* history: how often what is bounded happened

modemVars == <<routine, trip, up>>
histVars == <<want, begun, covered, early>>
keptVars == <<capsKnown, mPendingMsgs, mPendingGnssEnabledMsgs, clients>>
vars == <<ad, capsKnown, mPendingMsgs, mPendingGnssEnabledMsgs, clients,
          apiQ, adQ, tripBuf, lock, routine, trip, up, want, begun, covered,
          early, count>>

(* TripSessionStatus: on, this and re are the accumulated distances        *)
(* OngoingBatch, ThisTrip and OnTripRestart.                               *)
Word == 0..(Wrap - 1)
TripSessionStatus == [on : Word, this : Word, re : Word, d : Word, t : Word]
AdapterType ==
    [bs    : [Sessions -> BatchingOptions \cup {NoOpt}], \* mBatchingSessions
     trips : [Sessions -> TripSessionStatus \cup {NoTrip}], \* mTripSessions
     d     : Word,      \* mOngoingTripDistance
     t     : Word,      \* mOngoingTripTBFInterval
     dOver : BOOLEAN,   \* mTripWithOngoingTripDistanceDropped
     tOver : BOOLEAN,   \* mTripWithOngoingTBFDropped
     full  : BOOLEAN]   \* LOC_API_ADAPTER_BIT_BATCH_FULL is in mEvtMask

(* A message.  k: a command, an event, or the LocApiResponse a request     *)
(* carries; op: the request, if it is one; the rest is what the message    *)
(* carries and its lambda captured.                                        *)
NoMsg == [k |-> "none", op |-> "none", s |-> 0, o |-> NoOpt, was |-> NoOpt,
          again |-> FALSE, keep |-> FALSE, err |-> "ok", acc |-> 0,
          query |-> FALSE, d |-> 0, t |-> 0]

Init ==
    /\ ad = [bs |-> [s \in Sessions |-> NoOpt],
             trips |-> [s \in Sessions |-> NoTrip], d |-> 0, t |-> 0,
             dOver |-> FALSE, tOver |-> FALSE, full |-> FALSE]
    /\ capsKnown = FALSE /\ mPendingMsgs = <<>>
    /\ mPendingGnssEnabledMsgs = <<>> /\ clients = Clients
    /\ apiQ = <<[NoMsg EXCEPT !.op = "open"]>> /\ adQ = <<>>
    /\ tripBuf = FALSE /\ lock = TRUE
    /\ routine = {} /\ trip = Off /\ up = FALSE
    /\ want = {} /\ begun = {} /\ early = {}
    /\ covered = [s \in Sessions |-> 0]
    /\ count = [updates |-> 0, events |-> 0, travel |-> 0, full |-> 0]

-----------------------------------------------------------------------------
(* The session tables.  A handler is an operator from the tables to the    *)
(* tables it leaves and the requests it makes.                             *)

Trips(a) == {s \in Sessions : a.trips[s] # NoTrip}
Minus(x, y) == (x - y) % Wrap
Plus(x, y) == (x + y) % Wrap
InOrder(S) == SetToSortSeq(S, <)
Result(a, out) == [ad |-> a, out |-> out]

SaveBatchingSession(a, s, o) == [a EXCEPT !.bs[s] = o]
EraseBatchingSession(a, s) == [a EXCEPT !.bs[s] = NoOpt]

(* A trip saved in both tables is counted twice.                           *)
AutoReportBatchingSessionsCount(a) ==
    Cardinality({s \in Sessions : /\ a.bs[s] # NoOpt
                                  /\ a.bs[s].mode # "noauto"})
    + Cardinality(Trips(a))

RegisterFull(a) ==
    [a EXCEPT !.full = @ \/ AutoReportBatchingSessionsCount(a) = 0]
MutantUnregisterAlways(a) == [a EXCEPT !.full = FALSE]  \* whoever is left
UnregisterFull(a) ==
    [a EXCEPT !.full = @ /\ AutoReportBatchingSessionsCount(a) # 0]

(* startBatching: keep tells whether a pending message was passed.         *)
StartBatching(a, s, o, keep) ==
    Result(SaveBatchingSession(
               IF o.mode # "noauto" THEN RegisterFull(a) ELSE a, s, o),
           <<[NoMsg EXCEPT !.op = "start", !.k = "started", !.s = s, !.o = o,
                           !.keep = keep]>>)

(* startTripBatchingMultiplex: the first trip is started; with a trip      *)
(* running the distance it has covered is asked for.                       *)
StartTripBatchingMultiplex(a, s, o) ==
    IF Trips(a) = {}
    THEN Result([SaveBatchingSession(RegisterFull(a), s, o) EXCEPT
                     !.trips[s] = [on |-> 0, this |-> 0, re |-> 0,
                                   d |-> o.d, t |-> o.t]],
                <<[NoMsg EXCEPT !.op = "startTrip", !.k = "tripStarted",
                                !.s = s, !.o = o, !.d = o.d, !.t = o.t]>>)
    ELSE Result(a, <<[NoMsg EXCEPT !.op = "query", !.k = "newTrip",
                                   !.s = s, !.o = o]>>)

Begin(a, s, o, keep) ==
    IF o.mode = "trip" THEN StartTripBatchingMultiplex(a, s, o)
                       ELSE StartBatching(a, s, o, keep)

StopBatching(a, s, again, o) ==
    IF a.bs[s] = NoOpt THEN Result(a, <<>>)
    ELSE Result(EraseBatchingSession(a, s),
                <<[NoMsg EXCEPT !.op = "stop", !.k = "stopped", !.s = s,
                                !.o = o, !.was = a.bs[s], !.again = again]>>)

(* The smallest of f[s] over the sessions S, where a smallest value of 0   *)
(* counts as none found yet.                                               *)
Smallest(S, f(_)) ==
    FoldLeft(LAMBDA m, s : IF m = 0 \/ m > f(s) THEN f(s) ELSE m,
             0, InOrder(S))
RemainingDistance(a) ==
    Smallest(Trips(a), LAMBDA s : Minus(a.trips[s].d, a.trips[s].this))
SmallestInterval(a) == Smallest(Trips(a), LAMBDA s : a.trips[s].t)

(* restartTripBatching: what the trips that are left need is computed now, *)
(* and compared with the modem's trip when the query is answered.          *)
RestartTripBatching(a, query, acc) ==
    IF Trips(a) = {}
    THEN Result(UnregisterFull([a EXCEPT !.d = 0, !.t = 0]),
                <<[NoMsg EXCEPT !.op = "stopTrip"]>>)
    ELSE Result(a, <<[NoMsg EXCEPT !.op = "query", !.k = "resized",
                                   !.query = query, !.acc = acc,
                                   !.d = RemainingDistance(a),
                                   !.t = SmallestInterval(a)]>>)

(* stopTripBatchingMultiplexCommon.  For a session without a trip it reads *)
(* past the end of mTripSessions: g stands for what it finds there.        *)
StopTripBatchingMultiplexCommon(a, s, again, o, g) ==
    LET gone == a.trips[s] = NoTrip
        b == [a EXCEPT
                !.tOver = @ \/ IF gone THEN g.t ELSE a.trips[s].t = a.t,
                !.dOver = @ \/ IF gone THEN g.d ELSE a.trips[s].d = a.d,
                !.trips[s] = NoTrip]
        r == IF Trips(b) = {} THEN Result([b EXCEPT !.d = 0, !.t = 0], <<>>)
                              ELSE RestartTripBatching(b, TRUE, 0)
        n == Begin(EraseBatchingSession(r.ad, s), s, o, FALSE)
    IN IF again THEN Result(n.ad, r.out \o n.out) ELSE r

(* stopTripBatchingMultiplex: the last trip is stopped in the modem first. *)
StopTripBatchingMultiplex(a, s, again, o, g) ==
    IF Cardinality(Trips(a)) = 1
    THEN Result(a, <<[NoMsg EXCEPT !.op = "stopTrip", !.k = "tripStopped",
                                   !.s = s, !.o = o, !.again = again]>>)
    ELSE StopTripBatchingMultiplexCommon(a, s, again, o, g)

MutantRestartReporting(a) ==  \* only sessions that report by themselves
    LET again == {s \in Sessions : /\ a.bs[s] # NoOpt
                                   /\ a.bs[s].mode = "routine"}
    IN Result([a EXCEPT !.full = @ \/ AutoReportBatchingSessionsCount(a) > 0],
              [i \in 1..Cardinality(again) |->
                 LET s == InOrder(again)[i]
                 IN [NoMsg EXCEPT !.op = "start", !.s = s, !.o = a.bs[s]]])

(* restartSessions.  The loop over mTripSessions works on copies: it does  *)
(* not reset the sessions' accumulatedDistanceOngoingBatch.                *)
RestartSessions(a) ==
    LET again == {s \in Sessions : /\ a.bs[s] # NoOpt
                                   /\ a.bs[s].mode # "trip"}
        starts == [i \in 1..Cardinality(again) |->
                     LET s == InOrder(again)[i]
                     IN [NoMsg EXCEPT !.op = "start", !.s = s, !.o = a.bs[s]]]
        b == [a EXCEPT !.full = @ \/ AutoReportBatchingSessionsCount(a) > 0]
        d == RemainingDistance(a)
        t == SmallestInterval(a)
    IN IF Trips(a) = {} THEN Result(b, starts)
       ELSE Result([b EXCEPT !.d = d, !.t = t],
                   starts \o <<[NoMsg EXCEPT !.op = "startTrip",
                                             !.k = "tripRestarted",
                                             !.d = d, !.t = t]>>)

-----------------------------------------------------------------------------
(* The adapter thread: commands.                                           *)

Receive(k) == adQ # <<>> /\ Head(adQ).k = k
Msg == Head(adQ)
Apply(r) == /\ ad' = r.ad
            /\ apiQ' = apiQ \o r.out
            /\ adQ' = Tail(adQ)
Garbage == [t : BOOLEAN, d : BOOLEAN]

(* A command that comes before the engine was up is kept.                  *)
KeepPending ==
    /\ \E k \in {"cmdStart", "cmdUpdate", "cmdStop"} : Receive(k)
    /\ ~capsKnown
    /\ mPendingMsgs' = Append(mPendingMsgs, Msg)
    /\ adQ' = Tail(adQ)
    /\ UNCHANGED <<ad, apiQ, capsKnown, mPendingGnssEnabledMsgs, clients,
                   tripBuf, lock, modemVars, histVars, count>>

(* startBatchingCommand: a client without callbacks is not answered.       *)
MsgStartBatching ==
    /\ Receive("cmdStart") /\ capsKnown
    /\ Apply(IF Owner[Msg.s] \in clients
             THEN Begin(ad, Msg.s, Msg.o, TRUE) ELSE Result(ad, <<>>))
    /\ UNCHANGED <<keptVars, tripBuf, lock, modemVars, histVars, count>>

(* updateBatchingOptionsCommand: stop, and start again when stopped.       *)
MsgUpdateBatching ==
    /\ Receive("cmdUpdate") /\ capsKnown
    /\ \E g \in Garbage :
         Apply(CASE ad.bs[Msg.s] = NoOpt -> Result(ad, <<>>)
                 [] ad.trips[Msg.s] = NoTrip ->
                      StopBatching(ad, Msg.s, TRUE, Msg.o)
                 [] OTHER ->
                      StopTripBatchingMultiplex(ad, Msg.s, TRUE, Msg.o, g))
    /\ UNCHANGED <<keptVars, tripBuf, lock, modemVars, histVars, count>>

MsgStopBatching ==
    /\ Receive("cmdStop") /\ capsKnown
    /\ \E g \in Garbage :
         Apply(CASE ad.bs[Msg.s] = NoOpt -> Result(ad, <<>>)
                 [] ad.trips[Msg.s] = NoTrip ->
                      StopBatching(ad, Msg.s, FALSE, DefaultOptions)
                 [] OTHER -> StopTripBatchingMultiplex(
                                 ad, Msg.s, FALSE, DefaultOptions, g))
    /\ UNCHANGED <<keptVars, tripBuf, lock, modemVars, histVars, count>>

(* removeClientCommand: stopClientSessions goes by the mode saved in       *)
(* mBatchingSessions, then eraseClient sets the event mask anew.           *)
StopClientSessions(a, c, g) ==
    FoldLeft(LAMBDA r, s :
               LET n == IF a.bs[s].mode = "trip"
                        THEN StopTripBatchingMultiplex(
                                 r.ad, s, FALSE, DefaultOptions, g)
                        ELSE StopBatching(r.ad, s, FALSE, DefaultOptions)
               IN Result(n.ad, r.out \o n.out),
             Result(a, <<>>),
             InOrder({s \in Sessions : Owner[s] = c /\ a.bs[s] # NoOpt}))
UpdateClientsEventMask(r) ==
    [r EXCEPT !.ad.full = AutoReportBatchingSessionsCount(r.ad) > 0]
MsgRemoveClient ==
    /\ Receive("remove")
    /\ \E g \in Garbage :
         Apply(UpdateClientsEventMask(StopClientSessions(ad, Msg.o, g)))
    /\ clients' = clients \ {Msg.o}
    /\ UNCHANGED <<capsKnown, mPendingMsgs, mPendingGnssEnabledMsgs,
                   tripBuf, lock, modemVars, histVars, count>>

-----------------------------------------------------------------------------
(* The adapter thread: responses.                                          *)

Response(k, r) ==
    /\ Receive(k) /\ Apply(r)
    /\ covered' = IF Msg.again THEN [covered EXCEPT ![Msg.s] = 0] ELSE covered
    /\ UNCHANGED <<keptVars, tripBuf, lock, modemVars, want, begun, early,
                   count>>
Failed == Msg.err # "ok"

(* startBatching's response; a start refused by a locked engine is kept.   *)
StartedCb ==
    /\ Receive("started")
    /\ LET a == IF lock /\ Failed THEN EraseBatchingSession(ad, Msg.s) ELSE ad
       IN Apply(Result(IF Failed /\ Msg.o.mode # "noauto"
                       THEN UnregisterFull(a) ELSE a, <<>>))
    /\ mPendingGnssEnabledMsgs' =
          IF Msg.err = "disabled" /\ Msg.keep
          THEN Append(mPendingGnssEnabledMsgs,
                      [NoMsg EXCEPT !.k = "cmdStart", !.s = Msg.s,
                                    !.o = Msg.o])
          ELSE mPendingGnssEnabledMsgs
    /\ want' = IF Msg.err = "failed" THEN want \ {Msg.s} ELSE want
    /\ UNCHANGED <<capsKnown, mPendingMsgs, clients, tripBuf, lock,
                   modemVars, begun, covered, early, count>>

(* stopBatching's response; a session that could not be stopped is saved   *)
(* with the options of the command, not with its own.                      *)
StoppedCb ==
    LET a == IF Msg.was.mode # "noauto" THEN UnregisterFull(ad) ELSE ad
    IN Response("stopped",
           CASE lock /\ Failed ->
                    Result(SaveBatchingSession(ad, Msg.s, Msg.o), <<>>)
             [] Msg.again /\ ~(lock /\ Failed) ->
                    Begin(a, Msg.s, Msg.o, FALSE)
             [] OTHER -> Result(a, <<>>))

TripStartedCb ==
    /\ Receive("tripStarted")
    /\ Apply(Result(IF ~lock \/ ~Failed
                    THEN [ad EXCEPT !.d = Msg.o.d, !.t = Msg.o.t]
                    ELSE UnregisterFull(
                           [EraseBatchingSession(ad, Msg.s) EXCEPT
                              !.trips[Msg.s] = NoTrip]), <<>>))
    /\ want' = IF Failed THEN want \ {Msg.s} ELSE want
    /\ UNCHANGED <<keptVars, tripBuf, lock, modemVars, begun, covered, early,
                   count>>

TripRestartedCb ==
    Response("tripRestarted",
        Result(IF Failed THEN [ad EXCEPT !.d = 0, !.t = 0] ELSE ad, <<>>))

MutantRestampKeeps(a) ==  \* accumulatedDistanceOngoingBatch is not reset
    [a EXCEPT !.trips = [s \in Sessions |->
        IF a.trips[s] = NoTrip THEN NoTrip
        ELSE [a.trips[s] EXCEPT !.re = a.trips[s].this]]]

(* The accumulated distances when the modem's trip starts over.            *)
Restamp(a) ==
    [a EXCEPT !.trips = [s \in Sessions |->
        IF a.trips[s] = NoTrip THEN NoTrip
        ELSE [a.trips[s] EXCEPT !.on = 0, !.re = a.trips[s].this]]]

(* The answer to the query of a trip that starts while others run.  The    *)
(* new trip is not saved in mBatchingSessions.                             *)
NewTripCb ==
    LET o == Msg.o
        left == Minus(ad.d, Msg.acc)
        faster == o.t < ad.t
        shorter == o.d < IF Failed THEN ad.d ELSE left
        d == CASE shorter -> o.d
               [] ~shorter /\ faster /\ ~Failed -> left
               [] OTHER -> ad.d
        t == IF faster THEN o.t ELSE ad.t
        a == IF Failed THEN ad
             ELSE [ad EXCEPT !.trips[Msg.s] =
                      [on |-> Msg.acc, this |-> 0, re |-> 0,
                       d |-> o.d, t |-> o.t]]
    IN Response("newTrip",
           IF shorter \/ faster
           THEN Result(Restamp([a EXCEPT !.d = d, !.t = t]),
                       <<[NoMsg EXCEPT !.op = "restartTrip",
                                       !.d = d, !.t = t]>>)
           ELSE Result(a, <<>>))

TripStoppedCb ==
    \E g \in Garbage :
       Response("tripStopped",
           StopTripBatchingMultiplexCommon(
               IF ~Failed /\ AutoReportBatchingSessionsCount(ad) = 1
               THEN [ad EXCEPT !.full = FALSE] ELSE ad,
               Msg.s, Msg.again, Msg.o, g))

(* The answer to restartTripBatching's query; its error is not looked at.  *)
ResizedCb ==
    LET left == Minus(ad.d, Msg.acc)
        ongoing == ~ad.dOver /\ left # 0
        resize == IF ongoing THEN Msg.d < left ELSE Msg.d # 0
        retime == \/ Msg.t < ad.t
                  \/ Msg.t # ad.t /\ ad.tOver
    IN Response("resized",
           Result(ad, IF resize \/ retime
                      THEN <<[NoMsg EXCEPT
                                !.op = "restartTrip", !.k = "tripResized",
                                !.acc = Msg.acc,
                                !.d = IF resize THEN Msg.d ELSE ad.d,
                                !.t = IF retime THEN Msg.t ELSE ad.t]>>
                      ELSE <<>>))

(* The distance of the trips that has been covered when the modem's trip   *)
(* has accumulated acc.                                                    *)
Accumulate(a, acc) ==
    [a EXCEPT !.trips = [s \in Sessions |->
        IF a.trips[s] = NoTrip THEN NoTrip
        ELSE [a.trips[s] EXCEPT !.this =
                 Plus(a.trips[s].re, Minus(acc, a.trips[s].on))]]]

TripResizedCb ==
    Response("tripResized",
        Result(IF Failed THEN ad
               ELSE [Restamp(Accumulate(ad, Msg.acc)) EXCEPT
                        !.d = Msg.d, !.t = Msg.t], <<>>))

-----------------------------------------------------------------------------
(* The adapter thread: events.                                             *)

(* reportCompletedTripsEvent: the trips that reached their distance are    *)
(* dropped.  Whether one had the ongoing interval or distance is read from *)
(* the erased entry: g stands for what it holds.                           *)
MsgReportCompletedTrips ==
    LET a == Accumulate(ad, Msg.acc)
        done == {s \in Trips(a) : a.trips[s].d <= a.trips[s].this}
    IN /\ Receive("completed")
       /\ \E g \in Garbage :
            Apply(IF done = {} THEN Result(a, <<>>)
                  ELSE RestartTripBatching(
                         [a EXCEPT !.trips = [s \in Sessions |->
                                      IF s \in done THEN NoTrip ELSE @[s]],
                                   !.tOver = @ \/ g.t, !.dOver = @ \/ g.d],
                         FALSE, Msg.acc))
       /\ want' = want \ done
       /\ early' = early \cup {s \in done : covered[s] < a.trips[s].d}
       /\ UNCHANGED <<keptVars, tripBuf, lock, modemVars, begun, covered,
                      count>>

(* handleEngineUpEvent: setTripBatchSize forgets the modem's trip buffer.  *)
MsgSSREvent ==
    LET r == RestartSessions(ad)
    IN /\ Receive("up")
       /\ capsKnown' = TRUE
       /\ tripBuf' = FALSE
       /\ ad' = IF lock THEN r.ad ELSE ad
       /\ apiQ' = IF lock THEN apiQ \o r.out ELSE apiQ
       /\ adQ' = IF lock THEN Tail(adQ) \o mPendingMsgs ELSE Tail(adQ)
       /\ mPendingMsgs' = IF lock THEN <<>> ELSE mPendingMsgs
       /\ UNCHANGED <<mPendingGnssEnabledMsgs, clients, lock, modemVars,
                      histVars, count>>

(* handleEngineLockStatus: the starts that were refused are sent again.    *)
HandleEngineLockStatus ==
    /\ Receive("lock")
    /\ adQ' = IF Msg.keep THEN Tail(adQ) \o mPendingGnssEnabledMsgs
                          ELSE Tail(adQ)
    /\ mPendingGnssEnabledMsgs' =
          IF Msg.keep THEN <<>> ELSE mPendingGnssEnabledMsgs
    /\ UNCHANGED <<ad, apiQ, capsKnown, mPendingMsgs, clients, tripBuf,
                   lock, modemVars, histVars, count>>

-----------------------------------------------------------------------------
(* The LocApi thread.                                                      *)

Request(op) == apiQ # <<>> /\ Head(apiQ).op = op
Req == Head(apiQ)
Answer(err, acc) ==
    /\ apiQ' = Tail(apiQ)
    /\ adQ' = IF Req.k = "none" THEN adQ
              ELSE Append(adQ, [Req EXCEPT !.op = "none", !.err = err,
                                           !.acc = acc])

(* LocOpenMsg and LocSsrMsg.                                               *)
ApiOpen ==
    /\ Request("open")
    /\ up' = TRUE
    /\ apiQ' = Tail(apiQ)
    /\ adQ' = Append(adQ, [NoMsg EXCEPT !.k = "up"])
    /\ UNCHANGED <<ad, keptVars, tripBuf, lock, routine, trip, histVars,
                   count>>

(* How the modem may answer a request; locked: what a locked engine says.  *)
Errors(locked) ==
    (IF ~up THEN {"failed"} ELSE IF lock THEN {"ok"} ELSE {locked})
    \cup (IF "fail" \in Anytime THEN {"failed"} ELSE {})

ApiStartBatching ==
    /\ Request("start")
    /\ \E err \in Errors("disabled") :
         /\ Answer(err, 0)
         /\ routine' = IF err = "ok" THEN routine \cup {Req.s} ELSE routine
    /\ UNCHANGED <<ad, keptVars, tripBuf, lock, trip, up, histVars, count>>

ApiStopBatching ==
    /\ Request("stop")
    /\ \E err \in Errors("ok") :
         /\ Answer(err, 0)
         /\ routine' = IF err = "ok" THEN routine \ {Req.s} ELSE routine
    /\ UNCHANGED <<ad, keptVars, tripBuf, lock, trip, up, histVars, count>>

MutantStartTripZero(err) ==  \* a distance of 0 is sent as it is
    /\ trip' = IF err = "ok" THEN [d |-> Req.d, t |-> Req.t, acc |-> 0]
               ELSE IF Req.op = "restartTrip" /\ up THEN Off ELSE trip
    /\ tripBuf' \in IF err = "ok" THEN {TRUE}
                    ELSE IF up THEN {tripBuf, TRUE} ELSE {tripBuf}

(* startOutdoorTripBatchingSync: a distance of 0 is sent as one metre; the *)
(* buffer is allocated if it has to be, whatever comes of the start.       *)
StartTripSync(err) ==
    /\ trip' = IF err = "ok"
               THEN [d |-> IF Req.d = 0 THEN 1 ELSE Req.d,
                     t |-> Req.t, acc |-> 0]
               ELSE IF Req.op = "restartTrip" /\ up THEN Off ELSE trip
    /\ tripBuf' \in IF err = "ok" THEN {TRUE}
                    ELSE IF up THEN {tripBuf, TRUE} ELSE {tripBuf}

(* startOutdoorTripBatching, and reStartOutdoorTripBatching which stops    *)
(* the modem's trip first.                                                 *)
ApiStartTrip ==
    /\ \E op \in {"startTrip", "restartTrip"} : Request(op)
    /\ \E err \in Errors("failed") : /\ Answer(err, Req.acc)
                                     /\ StartTripSync(err)
    /\ UNCHANGED <<ad, keptVars, lock, routine, up, histVars, count>>

(* stopOutdoorTripBatchingSync: stops the trip, then releases the buffer;  *)
(* either may fail.                                                        *)
ApiStopTrip ==
    /\ Request("stopTrip")
    /\ \E err \in Errors("ok") : \E stopped \in {err = "ok", up} :
         /\ Answer(err, 0)
         /\ trip' = IF stopped THEN Off ELSE trip
         /\ tripBuf' = (tripBuf /\ err # "ok")
    /\ UNCHANGED <<ad, keptVars, lock, routine, up, histVars, count>>

(* queryAccumulatedTripDistance: the distance is not initialised when the  *)
(* query fails.                                                            *)
ApiQuery ==
    /\ Request("query")
    /\ \E err \in Errors("ok") :
         \E data \in IF err # "ok" THEN Word
                     ELSE {IF trip = Off THEN 0 ELSE trip.acc} :
            Answer(err, IF Req.query \/ Req.k = "newTrip" THEN data
                                                         ELSE Req.acc)
    /\ UNCHANGED <<ad, keptVars, tripBuf, lock, modemVars, histVars, count>>

(* batchFullEvent: without a trip buffer no trip is reported complete.     *)
ApiBatchFull ==
    /\ Request("full")
    /\ apiQ' = Tail(apiQ)
    /\ adQ' = IF tripBuf /\ Req.acc # 0
              THEN Append(adQ, [NoMsg EXCEPT !.k = "completed",
                                             !.acc = Req.acc])
              ELSE adQ
    /\ UNCHANGED <<ad, keptVars, tripBuf, lock, modemVars, histVars, count>>

-----------------------------------------------------------------------------
(* The modem.                                                              *)

(* Nothing but a reopening of the modem is under way.                      *)
Idle == adQ = <<>> /\ \A i \in DOMAIN apiQ : apiQ[i].op = "open"
Free(cause) == Idle \/ cause \in Anytime
IsTrip(o) == o # NoOpt /\ o.mode = "trip"
(* The adapter has not yet handled the engine-up event, or the modem the   *)
(* restarts that event led to.                                             *)
Recovering == \/ \E i \in DOMAIN adQ : adQ[i].k = "up"
              \/ \E i \in DOMAIN apiQ : /\ apiQ[i].op \in {"open", "start"}
                                        /\ apiQ[i].k = "none"
(* A session is stopped in order to be started again.                      *)
Updating == \E q \in {adQ, apiQ} : \E i \in DOMAIN q :
                \/ q[i].k = "cmdUpdate" \/ q[i].again
                \/ q[i].op = "start" /\ ~q[i].keep
(* No trip runs, and none is about to start.                               *)
NoTripAround ==
    /\ Trips(ad) = {} /\ trip = Off
    /\ \A q \in {adQ, apiQ, mPendingMsgs} :
         \A i \in DOMAIN q : q[i].k # "remove" => ~IsTrip(q[i].o)

(* The modem restarts: handleEngineDownEvent changes nothing here, and the *)
(* service is opened again by the LocApi thread.                           *)
ModemDown ==
    /\ up /\ count.events < MaxEvents
    /\ NoTripAround \/ "trip" \in Anytime
    /\ (lock /\ ~Recovering) \/ "recovery" \in Anytime
    /\ up' = FALSE /\ routine' = {} /\ trip' = Off
    /\ apiQ' = Append(apiQ, [NoMsg EXCEPT !.op = "open"])
    /\ count' = [count EXCEPT !.events = @ + 1]
    /\ UNCHANGED <<ad, keptVars, adQ, tripBuf, lock, histVars>>

(* The user (dis)allows location: LocApi keeps the state and tells the     *)
(* adapter.                                                                *)
LockChange ==
    /\ up /\ count.events < MaxEvents
    /\ NoTripAround \/ "trip" \in Anytime
    /\ ~Recovering \/ "recovery" \in Anytime
    /\ ~Updating \/ "update" \in Anytime
    /\ lock' = ~lock
    /\ adQ' = Append(adQ, [NoMsg EXCEPT !.k = "lock", !.keep = ~lock])
    /\ count' = [count EXCEPT !.events = @ + 1]
    /\ UNCHANGED <<ad, keptVars, apiQ, tripBuf, modemVars, histVars>>

(* The modem counts the distance of its trip up to the trip's length.      *)
Travel ==
    /\ trip # Off /\ trip.acc < trip.d
    /\ count.travel < MaxTravel /\ Free("travel")
    /\ trip' = [trip EXCEPT !.acc = @ + 1]
    /\ covered' = [s \in Sessions |->
                     covered[s] + IF s \in begun THEN 1 ELSE 0]
    /\ count' = [count EXCEPT !.travel = @ + 1]
    /\ UNCHANGED <<ad, keptVars, apiQ, adQ, tripBuf, lock, routine, up,
                   want, begun, early>>

(* The batch is full because the trip is over or the buffer is; the modem  *)
(* tells it if the event is registered.                                    *)
BatchFull ==
    /\ trip # Off /\ trip.acc > 0 /\ ad.full
    /\ count.full < MaxFull /\ Free("travel")
    /\ apiQ' = Append(apiQ, [NoMsg EXCEPT !.op = "full", !.acc = trip.acc])
    /\ count' = [count EXCEPT !.full = @ + 1]
    /\ UNCHANGED <<ad, keptVars, adQ, tripBuf, lock, modemVars, histVars>>

-----------------------------------------------------------------------------
(* The clients.                                                            *)

Present(c) ==
    /\ c \in clients
    /\ \A i \in DOMAIN adQ : ~(adQ[i].k = "remove" /\ adQ[i].o = c)

Call(m) ==
    /\ (Idle /\ mPendingMsgs = <<>>) \/ "command" \in Anytime
    /\ adQ' = Append(adQ, m)
    /\ UNCHANGED <<ad, keptVars, apiQ, tripBuf, lock, modemVars, early>>

CallStart(s, o) ==
    /\ s \notin begun /\ Present(Owner[s])
    /\ lock \/ ~IsTrip(o) \/ "trip" \in Anytime
    /\ Call([NoMsg EXCEPT !.k = "cmdStart", !.s = s, !.o = o])
    /\ want' = want \cup {s} /\ begun' = begun \cup {s}
    /\ UNCHANGED <<covered, count>>

CallUpdate(s, o) ==
    /\ s \in want /\ Present(Owner[s])
    /\ \/ lock /\ (ad.trips[s] = NoTrip \/ Trips(ad) = {s})
       \/ "update" \in Anytime
    /\ count.updates < MaxUpdates
    /\ Call([NoMsg EXCEPT !.k = "cmdUpdate", !.s = s, !.o = o])
    /\ count' = [count EXCEPT !.updates = @ + 1]
    /\ UNCHANGED <<want, begun, covered>>

CallStop(s) ==
    /\ s \in want /\ Present(Owner[s])
    /\ Call([NoMsg EXCEPT !.k = "cmdStop", !.s = s])
    /\ want' = want \ {s}
    /\ UNCHANGED <<begun, covered, count>>

CallRemove(c) ==
    /\ Present(c)
    /\ \/ \A s \in Sessions : Owner[s] = c => /\ ~IsTrip(ad.bs[s])
                                             /\ ad.trips[s] = NoTrip
       \/ "leave" \in Anytime
    /\ Call([NoMsg EXCEPT !.k = "remove", !.o = c])
    /\ want' = {s \in want : Owner[s] # c}
    /\ UNCHANGED <<begun, covered, count>>

ClientCalls ==
    \/ \E s \in Sessions : \/ \E o \in Options : \/ CallStart(s, o)
                                                 \/ CallUpdate(s, o)
                           \/ CallStop(s)
    \/ \E c \in Clients : CallRemove(c)
Adapter ==
    \/ KeepPending \/ MsgStartBatching \/ MsgUpdateBatching
    \/ MsgStopBatching \/ MsgRemoveClient
    \/ StartedCb \/ StoppedCb \/ TripStartedCb \/ TripRestartedCb
    \/ NewTripCb \/ TripStoppedCb \/ ResizedCb \/ TripResizedCb
    \/ MsgReportCompletedTrips \/ MsgSSREvent \/ HandleEngineLockStatus
LocApi ==
    \/ ApiOpen \/ ApiStartBatching \/ ApiStopBatching
    \/ ApiStartTrip \/ ApiStopTrip \/ ApiQuery \/ ApiBatchFull
Modem == ModemDown \/ LockChange \/ Travel \/ BatchFull

Next == ClientCalls \/ Adapter \/ LocApi \/ Modem
Spec == Init /\ [][Next]_vars

-----------------------------------------------------------------------------
(* The tables, the modem's state and the history keep their types: the     *)
(* counters of a trip stay uint32_t words.                                 *)
TypeOK ==
    /\ ad \in AdapterType
    /\ {capsKnown, tripBuf, lock, up} \subseteq BOOLEAN
    /\ clients \subseteq Clients
    /\ routine \subseteq Sessions
    /\ trip = Off \/ trip \in [d : Nat \ {0}, t : Word, acc : Word]
    /\ want \subseteq begun /\ begun \subseteq Sessions
    /\ early \subseteq Sessions

(* Every request was carried out and every answer and event was handled,   *)
(* with the engine up and unlocked.                                        *)
Settled == apiQ = <<>> /\ adQ = <<>> /\ up /\ lock /\ capsKnown

(* As long as a session reports by itself the batch full event is          *)
(* registered: every path that unregisters it (a failed start, a stop, the *)
(* completion of a trip, the removal of a client) looks at the sessions    *)
(* that are left first.                                                    *)
FullRegistered ==
    Settled /\ AutoReportBatchingSessionsCount(ad) > 0 => ad.full

(* When all is settled the modem runs what the tables say: the routine     *)
(* sessions, one by one, and an outdoor trip exactly while there are       *)
(* trips, through restarts of the modem, updates that stop and start       *)
(* again, and the restarts of the shared trip.  And a session that was     *)
(* started, and neither stopped nor refused nor completed, is in the       *)
(* tables: it was not lost among the commands kept for an engine that is   *)
(* not up or is locked.                                                    *)
SessionsServed ==
    Settled => /\ routine = {s \in Sessions : /\ ad.bs[s] # NoOpt
                                             /\ ad.bs[s].mode # "trip"}
               /\ Trips(ad) # {} <=> trip # Off
               /\ \A s \in want : ad.bs[s] # NoOpt \/ ad.trips[s] # NoTrip

(* No trip is reported complete before its distance was travelled,         *)
(* although the modem counts for one trip only and its count starts over   *)
(* with every restart: the accumulated distances are rebased each time.    *)
NeverEarly == early = {}
=============================================================================
