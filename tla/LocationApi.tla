---------------------------- MODULE LocationApi ----------------------------
(***************************************************************************)
(* The life of LocationAPI objects, LocationAPI.cpp: an object is created  *)
(* for a client, entered in the adapters its callbacks are for, and taken  *)
(* out of all of them when it is destroyed.  The adapters do both on their *)
(* worker thread, in the order of its queue; the object may be deleted     *)
(* only when the last of them has let it go.                               *)
(*                                                                         *)
(* Every function holds gDataMutex for all it does to gData, so each is    *)
(* one step.  A message of the worker is one step: the mutex the           *)
(* completion callback takes protects what no other message touches.       *)
(* Calls without the mandatory callbacks return at once and are left out,  *)
(* as are the calls that only pass a request to an adapter, and the        *)
(* request for the capabilities that createInstance posts after the first  *)
(* addition: its message only looks the client up in mClientData and never *)
(* uses the object.                                                        *)
(***************************************************************************)
EXTENDS Naturals, Sequences, FiniteSets

CONSTANTS
    Apis,         \* the LocationAPI objects
    Loadable,     \* the adapters whose library is on the device
    CallbackKinds,  \* the sets of adapters a client's callbacks are for
    MaxUpdates    \* bound: calls of updateCallbacks

Adapters == {"gnss", "batching", "geofence"}

ASSUME LocationApiAssumption ==
    /\ IsFiniteSet(Apis)
    /\ Loadable \subseteq Adapters
    /\ CallbackKinds \subseteq SUBSET Adapters
    /\ MaxUpdates \in Nat

VARIABLES
    loaded,      \* gData.gnssInterface, batchingInterface, geofenceInterface
    loadFailed,  \* gGnssLoadFailed, gBatchingLoadFailed, gGeofenceLoadFailed
    clientData,  \* the keys of gData.clientData
    waiting,     \* gData.destroyClientData: who waits for a completion
    waitMask,    \* its waitAdapterMask
    refCount,    \* gOSFrameworkRefCount
    framework,   \* the OS framework exists
    queue,       \* the messages of the worker thread
    added,       \* mClientData of each adapter
    state,       \* of each object: "none", "live", "destroying", "deleted"
    updates      \* number of calls of updateCallbacks

vars == <<loaded, loadFailed, clientData, waiting, waitMask, refCount, framework,
          queue, added, state, updates>>

Init ==
    /\ loaded = {} /\ loadFailed = {} /\ clientData = {} /\ waiting = {}
    /\ waitMask = [a \in Apis |-> {}]
    /\ refCount = 0 /\ framework = FALSE
    /\ queue = <<>>
    /\ added = [d \in Adapters |-> {}]
    /\ state = [a \in Apis |-> "none"]
    /\ updates = 0

MutantLoadUnchecked(kinds) ==  \* the interface pointer is not checked
    /\ loaded' = loaded \cup kinds
    /\ loadFailed' = loadFailed

(* An adapter is loaded for the first client that needs it.                *)
Load(kinds) ==
    /\ loaded' = loaded \cup (kinds \cap Loadable)
    /\ loadFailed' = loadFailed \cup (kinds \ Loadable)

(* One message to each adapter in ds, in the order the code goes through   *)
(* them.                                                                   *)
Message(op, a, d) == [op |-> op, api |-> a, to |-> d]
OneTo(op, a, d, ds) == IF d \in ds THEN <<Message(op, a, d)>> ELSE <<>>
PostTo(op, a, ds) ==
    queue' = queue \o OneTo(op, a, "gnss", ds) \o OneTo(op, a, "batching", ds)
                   \o OneTo(op, a, "geofence", ds)

(* createInstance                                                          *)
CreateInstance(a, kinds) ==
    /\ state[a] = "none"
    /\ state' = [state EXCEPT ![a] = "live"]
    /\ refCount' = refCount + 1
    /\ framework' = (framework \/ refCount + 1 = 1)
    /\ Load(kinds)
    /\ PostTo("add", a, kinds \cap loaded')
    /\ clientData' = clientData \cup {a}
    /\ UNCHANGED <<waiting, waitMask, added, updates>>

(* updateCallbacks: adds the client to further adapters.                   *)
UpdateCallbacks(a, kinds) ==
    /\ state[a] = "live" /\ updates < MaxUpdates /\ updates' = updates + 1
    /\ Load(kinds)
    /\ PostTo("add", a, kinds \cap loaded')
    /\ clientData' = clientData \cup {a}
    /\ UNCHANGED <<waiting, waitMask, refCount, framework, added, state>>

MutantDestroy(a, withCb, mask, last) ==
    /\ state[a] = "live" /\ (withCb \/ loaded # {})
    /\ IF withCb /\ loaded # {}
       THEN /\ waiting' = waiting \cup {a}
            /\ waitMask' = [waitMask EXCEPT ![a] = mask]
       ELSE UNCHANGED <<waiting, waitMask>>
    /\ PostTo("remove", a, loaded)
    /\ clientData' = clientData \ {a}
    /\ framework' = (framework /\ refCount # last)
    /\ refCount' = refCount - 1
    /\ state' = [state EXCEPT ![a] = IF loaded = {} THEN "deleted" ELSE "destroying"]
    /\ UNCHANGED <<loaded, loadFailed, added, updates>>
MutantDestroyWaitsForAll(a, withCb) ==  \* also for adapters that are not loaded
    MutantDestroy(a, withCb, Adapters, 1)
MutantDestroyLate(a, withCb) ==  \* as if the count had been decremented
    MutantDestroy(a, withCb, loaded, 0)

(* destroy(destroyCompleteCb): waits for every adapter that is loaded, the *)
(* ones this client was never added to included.  Without a callback       *)
(* nothing is recorded and no completion will delete the object.  Left     *)
(* out: with neither a callback nor a loaded adapter the code, whose test  *)
(* of the callback is inverted, calls an empty function, which ends the    *)
(* process.                                                                *)
Destroy(a, withCb) ==
    /\ state[a] = "live" /\ (withCb \/ loaded # {})
    /\ IF withCb /\ loaded # {}
       THEN /\ waiting' = waiting \cup {a}
            /\ waitMask' = [waitMask EXCEPT ![a] = loaded]
       ELSE UNCHANGED <<waiting, waitMask>>
    /\ PostTo("remove", a, loaded)
    /\ clientData' = clientData \ {a}
    /\ framework' = (framework /\ refCount # 1)
    /\ refCount' = refCount - 1
    /\ state' = [state EXCEPT ![a] = IF loaded = {} THEN "deleted" ELSE "destroying"]
    /\ UNCHANGED <<loaded, loadFailed, added, updates>>

MutantCompleteAtOnce(a, d) ==  \* the first completion deletes the object
    IF a \in waiting
    THEN /\ waitMask' = [waitMask EXCEPT ![a] = {}]
         /\ waiting' = waiting \ {a}
         /\ state' = [state EXCEPT ![a] = "deleted"]
    ELSE UNCHANGED <<waitMask, waiting, state>>

(* onRemoveClientCompleteCb                                                *)
OnRemoveClientCompleteCb(a, d) ==
    LET left == waitMask[a] \ {d}
    IN IF a \in waiting
       THEN /\ waitMask' = [waitMask EXCEPT ![a] = left]
            /\ waiting' = IF left = {} THEN waiting \ {a} ELSE waiting
            /\ state' = IF left = {} THEN [state EXCEPT ![a] = "deleted"] ELSE state
       ELSE UNCHANGED <<waitMask, waiting, state>>

(* MsgAddClient                                                            *)
AddClient ==
    /\ queue # <<>> /\ Head(queue).op = "add"
    /\ added' = [added EXCEPT ![Head(queue).to] = @ \cup {Head(queue).api}]
    /\ queue' = Tail(queue)
    /\ UNCHANGED <<loaded, loadFailed, clientData, waiting, waitMask, refCount,
                   framework, state, updates>>

(* MsgRemoveClient                                                         *)
RemoveClient ==
    /\ queue # <<>> /\ Head(queue).op = "remove"
    /\ added' = [added EXCEPT ![Head(queue).to] = @ \ {Head(queue).api}]
    /\ OnRemoveClientCompleteCb(Head(queue).api, Head(queue).to)
    /\ queue' = Tail(queue)
    /\ UNCHANGED <<loaded, loadFailed, clientData, refCount, framework, updates>>

Worker == AddClient \/ RemoveClient

Next ==
    \/ \E a \in Apis, kinds \in CallbackKinds :
         CreateInstance(a, kinds) \/ UpdateCallbacks(a, kinds)
    \/ \E a \in Apis, withCb \in BOOLEAN : Destroy(a, withCb)
    \/ Worker

Spec == Init /\ [][Next]_vars

(* The worker thread of the adapters is scheduled.                         *)
FairSpec == Spec /\ WF_vars(Worker)
-----------------------------------------------------------------------------
TypeOK ==
    /\ loaded \subseteq Loadable /\ loadFailed \subseteq Adapters \ Loadable
    /\ clientData \subseteq Apis /\ waiting \subseteq Apis
    /\ waitMask \in [Apis -> SUBSET Adapters]
    /\ refCount \in Nat /\ framework \in BOOLEAN
    /\ queue \in Seq([op : {"add", "remove"}, api : Apis, to : Adapters])
    /\ added \in [Adapters -> SUBSET Apis]
    /\ state \in [Apis -> {"none", "live", "destroying", "deleted"}]
    /\ updates \in Nat

(* An object is deleted only when no adapter knows it any more and no      *)
(* message of the worker names it: neither destroy nor a completion of     *)
(* the first adapter may pull it away from under another one, although     *)
(* callbacks were changed and adapters loaded in between.                  *)
NoDanglingApi ==
    \A a \in Apis : state[a] = "deleted" =>
        /\ \A d \in Adapters : a \notin added[d]
        /\ \A i \in 1..Len(queue) : queue[i].api # a

(* The OS framework is there exactly while some object is in use, however  *)
(* creations and destructions interleave.                                  *)
FrameworkInUse == framework <=> \E a \in Apis : state[a] = "live"

(* An object destroyed with a completion callback is deleted in the end:   *)
(* the last completion finds its entry and an empty mask.                  *)
DestroyCompletes == \A a \in Apis : (a \in waiting) ~> (state[a] = "deleted")
=============================================================================
