# A verification project for the GNSS stack of the Essential PH-1

The repository is the device tree of the Essential PH-1 (mata). Most of it is
configuration; the code with logic of its own is the location stack under
`gps/` (the GNSS HAL) and `location/` (the modem interface, a HAL daemon and its
client libraries). This project models its concurrent core in TLA+, checks the
models with TLC on small instances and proves theorems about them with TLAPS.

## 1. Inventory

How a request travels: an Android service or the HAL daemon calls `LocationAPI`,
which calls an adapter (`GnssAdapter`, `BatchingAdapter`, `GeofenceAdapter`). An
adapter posts a message to its `MsgTask`, a queue with one worker thread. The
handler calls the `LocApi` object, which posts to the LocApi thread and there
talks to the modem over QMI (`LocApiV02`), asynchronously or with
`loc_sync_send_req`. The answer is posted back to the adapter as a
`LocApiResponse`. Modem events come in on a QMI callback thread and are posted
to the adapters too.

| component | state | operations | what is hard | what makes it correct |
|---|---|---|---|---|
| `msg_q`, `linked_list`, `MsgTask`, `LocThread` | list, mutex, condition variable, unblocked flag, shared and weak references to the runnable | send, receive, unblock, flush, destroy, start, stop | wakeups, stopping with messages queued, who frees the queue | every accepted message is run or flushed once, in order; the queue is freed last |
| `Agps.cpp` with the ATL part of `GnssAdapter.cpp` | per interface: state, type, subscribers | requestATL, releaseATL, open / failed / closed reports | handles join and leave while a connection opens or closes; late WDS answers; a report on the wrong thread | subscribers agree with the state; a granted handle is served; nothing leaks; everybody is answered |
| tracking sessions in `GnssAdapter.cpp` | two session tables, power state, NHz flags, kept messages, clients | start, update, stop, remove client, responses, engine up / down, lock, NHz change, reconfiguration | commands between a request and its response; failures; modem restarts; commands before the engine is open | once quiet the modem runs what the tables say; stopped sessions stay stopped; each command is answered once |
| `loc_api_sync_req.cpp` | array of slots with flags, payload pointers into callers' stacks | allocate, select, send, wait, free, process an indication | indication before, during and after the wait; timeouts; two waiters for one indication; a full array | slots have one owner; no payload goes to a dead stack; a call returns with its own answer or fails |
| `LocationAPI` | clients, pending destroys, loaded adapters, reference count of the OS framework | create, change callbacks, destroy, completion callbacks | destroy racing the completion of three adapters, one of which another client may just have loaded | an object is deleted when, and only when, no adapter knows it |
| `BatchingAdapter` with the batching part of `LocApiV02.cpp` | batching sessions, trip sessions with three accumulated distances each, the modem's one trip, kept commands, event registration | start, update, stop, remove client, responses, completed trips, engine up, lock | several trips share one trip of the modem, which starts over whenever one joins or leaves; unsigned distances; commands kept for two reasons | the modem serves the tables; no trip completes early; the batch full event is registered while needed |
| client API (`LocationClientApiImpl`) | registration, session, options, callback mask, pending response | start, stop, destroy, capabilities, daemon ready, responses | calls overtaken by the daemon's messages; messages lost with the daemon | the daemon has the session asked for last; a start is answered |
| HAL daemon (`LocationApiService`, `LocHalDaemonClientHandler`) | handlers by name, their sessions and pending message ids, power state | register, track, subscribe, power events, answers, maintenance | three threads; crash and restart; clients that vanish | an id for every answer; handlers of departed clients go away, once |
| `LocationAPIClientBase` | request queues, session maps | start / stop / update, responses | one queue for all sessions | as the client API |
| NI, ODCPI, DGNSS/NTRIP in `GnssAdapter.cpp` | request state, timers | report, response, timeout | timer against answer | one response per request |
| `GeofenceAdapter` | geofence tables | add, remove, pause, modem restart | as tracking | as tracking |
| `LocTimer`, `LocHeap` | heap of timers, one OS timer | start, stop, expire | stop against expiry | a stopped timer does not fire |
| `SystemStatus`, OS observer | subscription maps | subscribe, unsubscribe, notify | order | subscribers see the latest item |
| integration API, `LocIpc` | configuration requests, sockets | register, relay | restarts of either side | configuration is applied again |
| `gpt-utils`, power HAL, lights, Bluetooth transport | partition tables, poll threads | slot switch, hints | crash during a switch | one bootable slot |

Everything in the tree is listed in `PROJECT.json` under `components`, with the
reason for each part that is not modelled: generated code (`location_service_v02`),
translation layers (HIDL, protobuf, Synergy), formatting (NMEA), parsing, I/O.

## 2. Plan

Done, in this order: `MsgTask` (everything else relies on it), `Agps`,
`TrackingSessions`, `SyncReq`; then `LocationApi`, `LocationClient` and `HalDaemon`
with their composition `ClientDaemon`, and `Batching`.

What is left, most valuable first:
1. Proofs: types and `FullRegistered` in `Batching`, once its loops can be stated without a fold
   (section 5).
2. Extensions: requests without a buffer in `SyncReq` (engine-busy resenders), a
   modem restart in `Agps`, batching in `ClientDaemon`, terrestrial fixes in `HalDaemon`.
3. `NiSession`, `Odcpi`, `Dgnss` of `GnssAdapter`; `LocTimer`; `LocationAPIClientBase`.
4. `GeofenceAdapter`, the OS observer, the integration API.
5. `gpt-utils` slot switch, `InteractionHandler`, Bluetooth transport.

## 3. Modules

**`MsgTask`**. One step per critical section of `list_mutex`; `pthread_cond_wait`
is a step that sleeps and a step that re-reads the loop condition. Actions:
`SndAccepted`, `SndRefused` (msg_q_snd), `RcvTake`, `RcvWait`, `RcvRefused`,
`WokenTake`, `WokenWait`, `WokenLeave` (msg_q_rcv), `ProcDone` (run), `StopLock`,
`StopInterrupt`, `StopReturn` (the delegate's destructor with its temporary
`shared_ptr`), `ThreadExit`; `Release` is `~MTRunnable`, run by the last holder.
`SpuriousWakeup` is POSIX. **`SerialExecutor`** is its abstract specification:
messages are run one at a time in order and closing discards the rest.

**`Agps`**. `mState`, `mAgpsType` and the subscriber list (split into `active` and
`inactive`) per interface; `mQ` is the adapter's queue, which `MsgTask` justifies.
One action per message handler (`RequestATL`, `ReleaseATL`, `AtlOpenSuccess`,
`AtlPdn`, `AtlOpenFailed`, `AtlClosed`), built from one operator per
`processAgpsEvent...`. Modem and framework are external: the modem uses a handle for
one connection at a time, the framework carries out commands per interface in order and
may fail or lose a connection. `UseWds` adds the WDS lookup. `BadApn` adds connections with
an unusable APN, which `dataConnOpenCommand` reports to the state machine on the framework's
own thread and without a lock. So that this report can meet a handler half way, every event
handler is two steps: `Enter` (or `FwOpensBadApn`) reads the state it switches on into `at` (or
`fwBad`), the handler's action (or `DataConnOpenBadApn`) runs the branch of the state that was
read. `overlap` is history: both threads have been inside a machine at the same time.

**`TrackingSessions`**. The tables hold options or `NoOpt`. `apiQ` and `adQ` are the
queues of the LocApi and the adapter thread; a request carries the kind of its
response and the options its lambda captured. Client commands may come before
whatever `adQ` holds, because clients post from their own threads. The multiplexer is
three operators (`StartMultiplex`, `UpdateMultiplex`, `StopMultiplex`) that yield an
outcome: requests, flags, and whether the client is answered at once. Each
`LocApiResponse` lambda is an action (`RespStart`, `RespUpdate`, `RespSwitch`, ...).
`RemoveClient`, `RemoveTime`, `RemoveRest` are one handler in several steps, between
which only the LocApi thread and the modem move. Options are abstracted to interval, power
mode, "has a distance" and "TBM too long for M4". Left out: fix modes, DGNSS and ODCPI
flags the same handlers touch, fixes. With `OpenFails` the modem may fail to open (`ApiOpen`),
which nothing retries; a `LocOpenMsg` for another adapter or for an event mask may still open it
later (`Reopen`), without telling this adapter. `Patient` is the set of clients that wait for
the answer to a session's command before the next one. Two variables are history: `told`, the
adapter has been told of the modem as it is, and `hasty`, the sessions that got a command, or
lost their client, while an earlier command was unanswered. `updateNHzRequirementCb` runs on the engine hub's
thread without a lock; the model lets it happen between handlers.

**`SyncReq`**. One step per critical section of `loc_sync_call_mutex` and of a slot's
`sync_req_lock`. A thread's position (`pc`) walks through `loc_sync_send_req`;
`ProcessInd` is the callback thread. `buf` records which request's answer lies in a
caller's buffer. `Late` and `Spurious` switch late answers and spurious wakeups.

**`LocationApi`**. The objects, `gData` and the queue of the worker thread all adapters
share. `CreateInstance`, `UpdateCallbacks` and `Destroy` each hold `gDataMutex` for all they
do and are one step; `AddClient` and `RemoveClient` are the messages of the worker,
`RemoveClient` with the completion callback (`OnRemoveClientCompleteCb`). `Loadable` names
the adapters whose library is on the device. Destroying without a callback while no
adapter is loaded is left out: the test at LocationAPI.cpp:344 is inverted and the
process ends.

**`LocationClient`**. One application process and its client library: the calls
(`StartPositionSession` posts two messages, the second in `PostStartTracking`), and one action
per message of `mMsgTask` (`StartTrackingReq`, `CapabilitiesCallback`, `HalReady`, ...). A
session is its interval, 0 for a passive one; callbacks are a set.

**`HalDaemon`**. `mClients` maps a client to its handler or `NoHandler`; a handler keeps its
session, its subscription, the pending message ids and the answers the location API
still owes it. Actions of the receiver thread (`NewClient` ... `UpdateSubscription`), of the
adapters' worker (`OnResponseCb`, `OnCapabilitiesCallback`), power events (`Suspend`,
`Resume`), maintenance (`MaintenanceStart`, `Ping`, `FinishPurge`, two steps because the deletion
does not take the lock), `DaemonCrash` and `DaemonStart`. The adapters below are external:
they answer every operation once, which is what `AnsweredOnce` of the tracking runs says, in
any order: `GnssAdapter` answers an update that changes nothing for the engine at once
(GnssAdapter.cpp:3263), ahead of a start that waits for the modem (3088-3094). Capabilities
may overtake answers, and answers them. `cleanups` counts the calls of a handler's `cleanup()`.

**`ClientDaemon`** composes the two over the sockets: `inbox` is what is on its way to the
daemon, `task` the clients' queues. A send to a process that does not run is lost.

**`Batching`**. The adapter's tables (`ad`), its queue and that of the LocApi thread, the
modem's routine sessions and its one outdoor trip. A handler is an operator from tables
to tables and requests; each `LocApiResponse` lambda is an action (`StartedCb`, `NewTripCb`,
`ResizedCb`, ...). Distances are words modulo `Wrap`, so that the unsigned differences of
the code wrap as they do there. What the code reads past the end of a map, or in an entry
it has erased, is an arbitrary value (`Garbage`), as is the distance of a query that
failed. `covered`, `want` and `early` are history: the distance really travelled since a trip
began, the sessions that ought to run, the trips reported complete too early.

The `MC...` modules only name values for the configurations.

## 4. Runs

| run | instance | distinct states | shows |
|---|---|---|---|
| `msgtask` | 4 messages | 11 k | order, ownership, lifetime of the queue, no lost wakeup; nothing accepted leaks and a stop frees the queue; refinement of `SerialExecutor` |
| `agps` | 2 handles, 3 types, both machines | 170 k | `ACQUIRED` has a connection, none is leaked, requests and releases are answered |
| `agps_hostile` | 2 handles, WDS, bad APNs | 5.97 M (symmetry) | subscribers and grants stay consistent under late and misplaced reports until the unlocked one meets a handler half way |
| `agps_bad_apn` | 2 handles, bad APNs | violation | the unlocked report meets `processAgpsEventSubscribe`: a RELEASED machine with a subscriber |
| `tracking_restart` | 2 sessions, a patient and an impatient client, a modem restart with opens that may fail, an NHz change or a reconfiguration, careless options | 1.57 M | once quiet a modem the adapter was told of serves every session of both kinds; stopped sessions of a client that waits stay stopped, whatever the other does; the reported power state |
| `tracking_before_open` | patient clients, engine opens late, 3 updates per session, one lock change or reconfiguration | 3.5 M | each command answered once; up to the event engine, hub and distance based tracking off with the last session |
| `syncreq_slots` | 3 threads, 2 slots, one indication, late, spurious | 181 k | slots, flags and pointers; every call returns |
| `syncreq_prompt` | 3 threads with 2 calls, 3 slots, own indications | 964 k | own answer; timeout only if lost |
| `client_daemon` | one client, 2 calls, intervals 0, 200 and 1000, one crash, 2 power events, a capability change, unlocked deletions by maintenance | 47 k | both sides agree on the session, there is an id for every answer, departed clients are purged, starts are answered |
| `location_api` | 2 objects, 3 adapters of which one cannot be loaded, one change of callbacks | 9 k | no object is deleted under an adapter; one destroyed with a callback is deleted; the OS framework's count |
| `batching` | 2 sessions of 2 clients, both modes and trips of 2 lengths and rates, 2 events, distance 4 | 0.87 M | the modem serves the tables, no trip completes early, the batch full event |
| `client_purge` | as `client_daemon` | violation | `cleanup()` runs twice on one handler |

`agps_bad_apn` and `client_purge` are expected to fail and
document where the code does not do what a comment says; `findings` in
`PROJECT.json` quotes both sides of each. In `client_daemon` a second client
adds nothing: handlers share no state but the map. Three calls (392 k states) pass too.

**The environment of a run.** A property is claimed for the environment of its run,
no more. `SubscribersMatchState` and `GrantedIsServed` say nothing once two threads have met
inside a machine (`agps_bad_apn` shows what happens then). `StoppedStays` speaks of sessions
whose own client has waited for the answers, and lets the others do what they like;
`EngineServes` of a modem the adapter was told of, without lock changes and without a
modem that is up and refuses requests; `NothingLeftRunning` of clients that wait, up to the
first lock change or reconfiguration, without restarts and failures.
These limits are those of the code, and the hazards in `PROJECT.json` name the line for
each. Changing a constant of a passing configuration, or dropping a condition from a property,
shows the others:

| change | fails | because |
|---|---|---|
| `BadApn = TRUE` in `MCAgps.cfg` | `EveryoneAnswered` | a connection with an unusable APN is reported as closed, which the machine ignores in PENDING (GnssAdapter.cpp:5362, Agps.cpp:235): the request is never answered, although the comment says "In case of failure reporting the same" |
| `UseWds = TRUE` in `MCAgps.cfg` | `AcquiredIsUp` | a WDS answer for a closed connection is taken for the next one (GnssAdapter.cpp:5288) |
| `\ hasty` dropped from `StoppedStays` | `StoppedStays` | a stop between the two halves of a switch from distance to time based tracking is told ID_UNKNOWN, and the session then starts (GnssAdapter.cpp:3240) |
| `told` dropped from `EngineServes` | `EngineServes` | an open that failed is not tried again, and one for another adapter tells this one nothing (LocApiBase.cpp:100, 122) |
| `\ hasty` dropped from `EngineServes`, 3 updates | `EngineServes` | a session that got into both tables (below) loses its distance based tracking |
| `Patient = {"A"}`, `MaxUpdates = 2` and the last two options only, in `MCTrackingPending.cfg` | `NothingLeftRunning` (`AnsweredOnce` holds, as its theorem says) | with two updates of one session the second half of a distance based restart saves again what a switch to time based tracking erased (GnssAdapter.cpp:3278): the session is in both tables, its stop erases one of them and the hub is not told. With one update, two impatient clients do no harm (2.8 M states) |
| `events = 0 =>` dropped from `NothingLeftRunning` | `NothingLeftRunning` | a reconfiguration between a stop of a distance based session and its response starts the session again (GnssAdapter.cpp:2661), and the response only erases it; a locked modem may refuse a stop (LocApiV02.cpp:868), and the session is erased all the same |
| `CanFail = TRUE` in `MCTrackingPending.cfg` | `NothingLeftRunning` | a failed start erases the session, the hub was told before (GnssAdapter.cpp:3125) |
| `Careless = TRUE` in `MCTrackingPending.cfg` | `AnsweredOnce` | a start refused for its parameters is not answered (GnssAdapter.cpp:2998) |
| `DistSupported = FALSE` in `MCTrackingRestart.cfg` | `EngineServes` | an update to distance based tracking stops the engine and saves a time based session (GnssAdapter.cpp:3234) |
| `DistSupported = FALSE` in `MCTrackingPending.cfg` | `NothingLeftRunning` | the same update: the hub is told to stop, and the session is saved as a time based one (GnssAdapter.cpp:3234) |
| `NSlots = 1` in `MCSyncReqPrompt.cfg` | `SuccessHasAnswer` | with all slots taken the call returns SUCCESS without having sent anything (loc_api_sync_req.cpp:499) |
| `IndOf <- OneInd` in `MCSyncReqPrompt.cfg` | `SuccessHasAnswer`, `TimeoutOnlyIfLost` | an answer is matched by indication id alone (loc_api_sync_req.cpp:194) |
| `Late = TRUE` there | `TimeoutOnlyIfLost`, `SuccessHasAnswer` | an answer comes after the timeout, and may meet the next request |
| `Spurious = TRUE` there | `SuccessHasAnswer` | a wakeup is not checked against an arrival (loc_api_sync_req.cpp:452) |

The kept messages of `GnssAdapter` are not cleared when they are sent
(GnssAdapter.cpp:2627), so a second engine-up event sends deleted objects;
`BatchingAdapter` does clear its own.

`ClientDaemon` and `Batching` have a constant `Anytime` for this: the set of what may happen
at any time. The runs have it empty but for `"purge"`; each member breaks a property.

| member in `ClientDaemon` | fails | because |
|---|---|---|
| `"call"` | `SessionAgrees` | a stop handled before the capabilities indication's restart is undone by it (LocationClientApiImpl.cpp:2152-2158) |
| `"power"` | `PendingInStep` | a stop while suspended pushes a message id that nothing answers (LocationApiService.cpp:709) |
| `"caps"` | `PendingInStep` | new capabilities make the client start its running session again; the id is pushed, the location API not asked |
| `"start"` | `PendingInStep` | the client registers twice and a crash comes between |
| `"purge"` | `CleanedUpOnce` only | the run `client_purge`: `performMaintenance` deletes without the lock (LocationApiService.cpp:1510) |
| `~listened[c] =>` dropped from `SessionAgrees` | `SessionAgrees` | an active session that is made passive sends STOP_TRACKING (LocationClientApiImpl.cpp:1504-1511), for which the daemon ends the subscription (LocationApiService.cpp:708); LocationClientApi.h:2025 promises it "passive listening of the registered reports" |
| an interval of 300 | `SessionAgrees` | an update stores the interval as it came, and a resume passes that one on (LocHalDaemonClientHandler.cpp:231) |

| member in `Batching` | fails | because |
|---|---|---|
| `"command"` | `FullRegistered`, `NeverEarly` | a stop during an update is ignored; two stops of one trip; commands of the other client between request and response |
| `"update"` | `SessionsServed`, `NeverEarly` | the second half of an update refused by a locked engine is not kept; an update of one of several trips |
| `"travel"` | `NeverEarly` | a batch full event queued before the trips were rebased is counted against the new base |
| `"trip"` | `SessionsServed`, `NeverEarly` | a trip refused by a locked engine is never started; after a modem restart the counters are reset in copies (BatchingAdapter.cpp:308) and the differences wrap |
| `"leave"` | `SessionsServed` | a client whose trip has completed stops the trip of another one (BatchingAdapter.cpp:975) |
| `"recovery"` | `SessionsServed` | the engine comes up locked, or goes down again before its sessions were restarted |
| `"fail"` | `SessionsServed`, `FullRegistered` | a failed stop saves the session with default options (BatchingAdapter.cpp:597) |

**Bounds.** Two sessions of two clients show every interplay of one session with
"the others", except that the power mode of the engine depends on a third (GnssAdapter.cpp:3078);
no property speaks of it. Each session is started and stopped once and
updated at most `MaxUpdates` times (three in `tracking_before_open`, where one is too few for
the interesting overlaps); `MaxEvents` bounds restarts, lock changes, NHz changes
and reconfigurations together. In `tracking_restart` one client of two is impatient, to have a
session of each kind, and requests fail because the modem is down. Also checked were:
`EngineServes` with two patient clients and two events (1.2 M states), and with two impatient
ones and two options (11 M); `StoppedStays` with a modem that is up and refuses requests,
for one impatient client (4.8 M, locks included) and for two (15 M). In `Agps` `MaxQueue` stops new requests (and, for
lookups, new connections) when queues are long; it never blocks a handler. In `SyncReq`,
`MaxCalls` of 2 lets an answer meet the next call of its thread, and fewer slots than
threads makes the array full. In `Batching` a trip of length 1 and one of 3 with different
rates make the second trip join, outlive and outpace the first, in both orders;
`MaxTravel` of 4 lets both complete, `Wrap` of 16 is larger than any sum of distances, so a
difference wraps only if the code takes the smaller from the larger the wrong way round.
In `LocationApi` two objects show an adapter loaded by one while the other is destroyed,
and the missing library a mask that must not wait for it. Deadlock is checked in `agps`, whose system never stops;
elsewhere clients, senders and callers may simply have nothing more to do, and a bad
APN can leave the modem waiting.

**Fairness.** `MsgTask`: the worker thread is scheduled and handlers return; a destructor
that has begun goes on. Nobody has to send or stop. `Agps`: the adapter runs its queue
(which `msgtask` shows) and the framework carries out each command, successfully or
not. Nothing obliges the modem to release or the framework to lose a connection.
`SyncReq`: a thread inside a call goes on, a timed wait expires, the modem answers or
loses each request, the callback thread runs. No call has to be made. `LocationApi`: the
worker thread runs. `ClientDaemon`: the threads of both processes run, init restarts the
daemon, and the maintenance timer, which each maintenance starts again, fires;
applications, crashes, power events and capabilities owe nothing, and a client may stay
away for ever.

## 5. Proofs

All theorems are about `Spec`, without fairness, for every value of the constants
that satisfies the named assumptions (`NoMsgAssumption`, `AgpsAssumption`,
`TrackingAssumption`, `SyncReqAssumption`, `LocationApiAssumption`, those of `ClientDaemon`:
types of the
parameters, distinctness of the "none" values, and that there are finitely many
`LocationAPI` objects). Where a property needs a better-behaved environment than the
model allows, the theorem says so in its hypotheses; they are the same limits as those
of the runs in section 4, where a run shows what happens without them.

- **`MsgTaskProof`**: `TypeOK`, `DestroyedLast`, `AtMostOneLate`, `NoLostWakeup`, `Fifo`,
  `SingleOwner`, and `Refinement`: `MsgTask` implements `SerialExecutor`, step by step.
  None of the invariants but `NoLostWakeup` is inductive. `Lifecycle` ties the positions of
  worker and owner to the flags (the queue is freed exactly when both have let go);
  `LateBound` adds that after a late take the worker is not in or just after a wait, so the
  next thing it meets is the refusal at the top of `msg_q_rcv`; `Indices` states `Fifo` by
  positions, with accepted messages distinct, and gives `SingleOwner` the fact it needs:
  a message taken is no longer in the list.
- **`AgpsProof`**: `TypeOK`, `SubscribersMatchState` and `GrantedIsServed` without a hypothesis,
  so with late WDS answers and bad APNs, whose report may come between any two steps of the
  adapter thread; both properties end where the two threads have met inside a machine
  (`overlap`). `AcquiredIsUp` and `NoLeakedConnection` under `Orderly` (neither WDS lookups nor bad
  APNs). What makes the handlers' two steps harmless without an overlap is that the state a
  thread has read is still that of the machine when it acts on it. There is one lemma per
  event of the state machine, used by every handler that raises it, on either thread.
  `GrantedIsServed` needs `Ledger`: what the modem believes of a handle agrees with the
  requests and releases still queued and with the machine that has it, so no report can
  grant a handle that has left. The other two need `Connection`: a connection is in one
  place, namely the command that asks for it, the report of its failure, the framework, or
  the report of its end, and a machine has exactly one unless it is released.
- **`TrackingSessionsProof`**: `PowerFollowsSessions`, from a lemma that every step either
  leaves the tables alone or reports the power state of the new ones, and `TypeOK`. For
  failing requests, restarts and any options. `TypeOK` is not inductive: `Shape` adds
  which options and sessions a request of each kind carries, since its response saves them.
- **`TrackingAnswersProof`**:
  - `AnsweredOnce`, for impatient clients, failures and locks, given that the engine is open
    when the clients start or opens only once (`OneStart`; the kept messages are not
    cleared when they are sent), that clients have the callbacks tracking needs
    (`Mute = {}`) and pass options (`~Careless`); without one of these the code does not
    answer. `Accounts` is the ledger: what a session is owed is the number of its
    requests, responses and kept messages that will answer it. A response answers, passes
    the debt on to the next request, or was never owed; each handler has its lemma.
  - `StoppedStays`, with failures, locks, failed opens and restarts at any point, given an engine
    that is open when the clients start (`CapsAtStart`). No client has to wait: the property
    and its invariant are about one session at a time, and about those that are not `hasty`.
    `Lives` says of each such session which one command of it is under way and what its
    response will do to the tables: with nothing due a stopped session is in neither, a
    response that saves or restores a session is never under way for one that is over,
    and the table that a response will fill is empty.
  - `EngineServes`, with modem restarts, failed opens, NHz changes and reconfigurations at any
    point and impatient clients, given an open engine, no lock changes, and a
    modem that is up refuses nothing (`~CanLock`, `~CanFail`). `DistSupported` is needed too:
    without it an update to distance based tracking stops the engine and saves a time based
    session. The invariant `Serving` does not speak of what the modem does but of what the
    last request on its way will make it do (`Runs`, `Tracks`), so it holds between a command
    and its execution: fast enough for every session and, when
    `mSPEAlreadyRunningAtHighestInterval` makes the multiplexer skip a start, at the highest
    rate. While the modem is being opened, or was opened without the adapter being told,
    nothing of this holds; `Reach` says that once it was told, an engine-up event still follows
    every response that reports a failure, and `RestartServes` that the event repairs everything.
- **`ListFacts`**: what the queue proofs share. `Has`, `AtMostOne` and `InOrder` of a sequence,
  how many of its elements lie in a set, what the last of them says (`Finally`), and that two
  kinds of them take turns (`Alternates`), under appending, concatenating and taking the first
  element.
- **`SyncReqProof`**: `TypeOK`, `SlotsOwned` (a slot has one owner, and `in_use` is exact),
  `BufferAlive`, `WaitingMatches`, for any number of threads and slots, late answers and
  spurious wakeups. Together they are inductive with `Cleared`: a slot that selects an
  indication has a buffer, and a free slot has no waiter. `SuccessHasAnswer` and
  `TimeoutOnlyIfLost` under `Prompt`: no late answers, no spurious wakeups, as many slots as
  threads, and indications of their own. `PInv` follows a request from its sending to the
  return of its call: it is at the modem, lost, or its answer is in the buffer, and only the
  current request of a thread is anywhere at all.
- **`LocationApiProof`**: `TypeOK`, `FrameworkInUse`, `NoDanglingApi`. `Counted` says that the
  reference count is the number of live objects and that only a destroyed object waits.
  `NoDanglingApi` is not inductive; `Safe` adds what makes the last completion the right
  moment: only loaded adapters have clients or messages (`Known`), so `destroy` asks every
  adapter that can know the object; a removal follows every addition of a destroyed object
  (`Retires`), each adapter is asked once (`AskedOnce`), and every removal still queued is one
  the object waits for (`Awaited`).
- **`ClientDaemonProof`**: `TypeOK`, `PendingInStep`, `SessionAgrees`, for any number of clients,
  calls, daemon crashes, power events and capabilities indications. The hypotheses are what
  the table of `Anytime` in section 4 says the code needs: none for `TypeOK`; nothing but calls
  that overlap a capabilities indication (`OnlyCalls`, for `PendingInStep`); nothing at all, and
  intervals the engine supports as they are (`Supported`, for `SessionAgrees`). Answers may come in
  any order in all of them. The last two are not inductive:
  - `StillThere`: whoever maintenance is about to delete is still registered;
  - both need `Linked`, which describes the sockets between a client and the daemon.
    `Queued` is the order of the client's messages (capabilities, news of a daemon,
    registration). `Enlisted` says that a client the daemon does not know will register, and
    that one it knows has been or will be told so, once, and sends no request before. `Orders`
    says of the requests on their way that the daemon will ignore them all, as they belong
    to an earlier registration, or that each finds the session as the client left it: starts
    and stops alternate, and stops and updates come only where a session runs. From that,
    and because capabilities meet no running session (`Undisturbed`) and nothing is asked
    while suspended (`Calm`), each operation that pushes a message id also reaches the
    location API, which is `Matched`, the pending ids and the answers to come in step;
  - `SessionAgrees` adds `Agreed` and `Paced`, which speak of the last request on its way and so
    hold before it has arrived, and `Wanted`, the same for the application and its client
    library: what the last call in the queue asks for, or the session, is the application's
    last wish. With `"call"` in `Anytime` the restart that follows an indication breaks `Wanted`,
    and nothing else.
  A step is one of client c or of its handler, with a lemma per message handler, or leaves all
  that belongs to c alone; `Untouched` and the lemmas about it deal with that case once.

Model-checked only: liveness under fairness (out of the prover's reach);
`NothingLeftRunning`, which needs an environment without any disturbance; and all of `Batching`: the loops over the
sessions of a client (`StopClientSessions`) and over the trips (`Smallest`) depend on what
earlier rounds left and are folds, so even its types need an induction over data.

## 6. Not modelled

See `components`. In the modelled files:
- `AgpsManager::handleModemSSR`, `msg_q_rmv` and `linked_list_search` have no caller;
- requests without a payload buffer in `loc_api_sync_req`;
- in `Agps` what two threads do to one `std::list` inside a branch of a handler: a data race whose
  outcomes C++ does not define. The model interleaves the branches, each as one step;
- in `GnssAdapter` everything but tracking and ATL;
- in `LocationAPI` the control API and the calls that only forward a request, and that the
  completion callback, tested with the wrong sign (LocationAPI.cpp:169), is never invoked. A second
  `destroy` of one object, which decrements the framework's count again (LocationAPI.cpp:332-340),
  has no caller in the tree;
- in the client API and the daemon batching, geofences and one-shot queries, distance based
  sessions and the relay of reports. A send that fails although the client lives (a full
  socket buffer), after which the daemon purges the client, is not in the model: a send
  fails exactly when its receiver is gone;
- in `BatchingAdapter` the reports of positions and of the batch status, `getBatchedLocations`,
  and the errors of commands, most of which the code does not answer (BatchingAdapter.cpp:416),
  with the refusals of a start for its size or for lack of support (422-427). The modem always
  opens, and `getEngineLockStateSync`, which reads the lock at an open (LocApiV02.cpp:520), is left
  out: every property of the run is about an engine that is up and, where it matters, unlocked.
  The properties do not say that a stopped session is gone: a trip that joined others is saved in
  `mTripSessions` only (BatchingAdapter.cpp:913), so the adapter rejects its stop (565) and the trip
  runs on. Nor do they say that the batch full event is unregistered with the last session.

Hazards of this code that no property covers, because the code around them is not
modelled or claims nothing:
- `msg_q_snd` refuses a message and `sendMsg` drops the error: the message is leaked (msg_q.c:205);
- a release names the type of the latest request, not of the open connection (Agps.cpp:589);
- the handles of a modem that restarted keep their connection (Agps.cpp:664);
- the power mode of the engine depends on the order of the sessions: 0 is both the smallest value and
  the mark for not set, and with three sessions the engine may be restarted in the mode of the one
  that was fastest before (GnssAdapter.cpp:3071, 3078);
- the engine comes up locked: nothing restarts the sessions when it is unlocked (GnssAdapter.cpp:2624);
- `updateNHzRequirementCb` changes adapter state on the engine hub's thread (GnssAdapter.cpp:6655);
- an indication for a request without a buffer wakes the next slot too (loc_api_sync_req.cpp:208);
- an object destroyed without a callback is never deleted (LocationAPI.cpp:298);
- one FIFO answers tracking and batching requests, and `mTracking` survives a failed start
  (LocationAPIClientBase.cpp:972, 369);
- `startBatching` of the client API looks at the position session's id, and neither batching nor
  geofences are resumed after a restart of the daemon (LocationClientApiImpl.cpp:1558);
- a terrestrial fix that times out stops the network location if one request is left, not if
  none is (LocationApiService.cpp:1586).

Most of the tree's lines are out of reach for a different reason: the QMI service
definition, its encoder tables and the protobuf conversion are generated or field by
field translations without control, and the device configuration has none.
