-------------------------- MODULE LocationApiProof --------------------------
(***************************************************************************)
(* Proofs about LocationApi, for any finite set of objects, any adapters   *)
(* on the device and any sequence of calls.                                *)
(***************************************************************************)
EXTENDS LocationApi, FiniteSetTheorems, TLAPS

Messages == [op : {"add", "remove"}, api : Apis, to : Adapters]

Is(m, op, a, d) == m.op = op /\ m.api = a /\ m.to = d

(* The queue r is q after one conditional post of PostTo.                  *)
Grown(q, r, op, a, d, ds) ==
    /\ r \in Seq(Messages)
    /\ \A i \in 1..Len(q) : r[i] = q[i]
    /\ d \notin ds => Len(r) = Len(q)
    /\ d \in ds => Len(r) = Len(q) + 1 /\ Is(r[Len(q) + 1], op, a, d)

(* A post appends one message if the adapter is to have one.               *)
LEMMA OnePosted ==
    ASSUME NEW q \in Seq(Messages), NEW op \in {"add", "remove"}, NEW a \in Apis,
           NEW d \in Adapters, NEW ds
    PROVE  Grown(q, q \o OneTo(op, a, d, ds), op, a, d, ds)
  <1> DEFINE r == q \o OneTo(op, a, d, ds)
  <1>1. CASE d \in ds
    <2>1. r = q \o <<Message(op, a, d)>>
      BY <1>1 DEF OneTo
    <2>2. Message(op, a, d) \in Messages /\ Is(Message(op, a, d), op, a, d)
      BY DEF Message, Messages, Is
    <2> HIDE DEF r
    <2>3. Grown(q, r, op, a, d, ds)
      BY <1>1, <2>1, <2>2 DEF Grown
    <2> QED
      BY <2>3 DEF r
  <1>2. CASE d \notin ds
    <2>1. r = q \o <<>>
      BY <1>2 DEF OneTo
    <2>2. q \o <<>> = q
      OBVIOUS
    <2> HIDE DEF r
    <2>3. Grown(q, r, op, a, d, ds)
      BY <1>2, <2>1, <2>2 DEF Grown
    <2> QED
      BY <2>3 DEF r
  <1> QED
    BY <1>1, <1>2

(* What PostTo appends: one message for every adapter of ds.               *)
LEMMA Posted ==
    ASSUME queue \in Seq(Messages), NEW op \in {"add", "remove"}, NEW a \in Apis,
           NEW ds \in SUBSET Adapters, PostTo(op, a, ds)
    PROVE  /\ queue' \in Seq(Messages)
           /\ Len(queue) <= Len(queue')
           /\ \A i \in 1..Len(queue) : queue'[i] = queue[i]
           /\ \A i \in 1..Len(queue') : i > Len(queue) =>
                 \E d \in ds : Is(queue'[i], op, a, d)
           /\ \A d \in ds : \E i \in 1..Len(queue') :
                 i > Len(queue) /\ Is(queue'[i], op, a, d)
           /\ \A i, j \in 1..Len(queue') :
                 i > Len(queue) /\ j > Len(queue) /\ queue'[i].to = queue'[j].to => i = j
  <1> DEFINE q1 == queue \o OneTo(op, a, "gnss", ds)
             q2 == q1 \o OneTo(op, a, "batching", ds)
             q3 == q2 \o OneTo(op, a, "geofence", ds)
  <1>0. "gnss" \in Adapters /\ "batching" \in Adapters /\ "geofence" \in Adapters
    BY DEF Adapters
  <1>1. Grown(queue, q1, op, a, "gnss", ds)
    BY <1>0, OnePosted
  <1>2. Grown(q1, q2, op, a, "batching", ds)
    <2>1. q1 \in Seq(Messages)
      BY <1>1 DEF Grown
    <2> HIDE DEF q1
    <2> QED
      BY <1>0, <2>1, OnePosted
  <1>3. Grown(q2, q3, op, a, "geofence", ds)
    <2>1. q2 \in Seq(Messages)
      BY <1>2 DEF Grown
    <2> HIDE DEF q1, q2
    <2> QED
      BY <1>0, <2>1, OnePosted
  <1>4. queue' = q3
    BY DEF PostTo
  <1> HIDE DEF q1, q2, q3
  <1>5. Len(queue) \in Nat /\ Len(q1) \in Nat /\ Len(q2) \in Nat /\ Len(q3) \in Nat
    BY <1>1, <1>2, <1>3 DEF Grown
  <1>6. ds \subseteq {"gnss", "batching", "geofence"}
    BY DEF Adapters
  <1>7. \A i \in 1..Len(q1) : i > Len(queue) => "gnss" \in ds /\ Is(q3[i], op, a, "gnss")
                                                   /\ i = Len(queue) + 1
    BY <1>1, <1>2, <1>3, <1>5 DEF Grown
  <1>8. \A i \in 1..Len(q2) : i > Len(q1) => "batching" \in ds /\ Is(q3[i], op, a, "batching")
                                                /\ i = Len(q1) + 1
    BY <1>1, <1>2, <1>3, <1>5 DEF Grown
  <1>9. \A i \in 1..Len(q3) : i > Len(q2) => "geofence" \in ds /\ Is(q3[i], op, a, "geofence")
                                                /\ i = Len(q2) + 1
    BY <1>1, <1>2, <1>3, <1>5 DEF Grown
  <1>10. Len(queue) <= Len(q1) /\ Len(q1) <= Len(q2) /\ Len(q2) <= Len(q3)
    BY <1>1, <1>2, <1>3, <1>5 DEF Grown
  <1>11. \A i \in 1..Len(queue) : q3[i] = queue[i]
    BY <1>1, <1>2, <1>3, <1>5, <1>10 DEF Grown
  <1>12. \A i \in 1..Len(q3) : i > Len(queue) => \E d \in ds : Is(q3[i], op, a, d)
    BY <1>5, <1>7, <1>8, <1>9, <1>10
  <1>13. \A d \in ds : \E i \in 1..Len(q3) : i > Len(queue) /\ Is(q3[i], op, a, d)
    <2> SUFFICES ASSUME NEW d \in ds
                 PROVE  \E i \in 1..Len(q3) : i > Len(queue) /\ Is(q3[i], op, a, d)
      OBVIOUS
    <2>1. CASE d = "gnss"
      BY <2>1, <1>1, <1>5, <1>7, <1>10 DEF Grown
    <2>2. CASE d = "batching"
      BY <2>2, <1>2, <1>5, <1>8, <1>10 DEF Grown
    <2>3. CASE d = "geofence"
      BY <2>3, <1>3, <1>5, <1>9, <1>10 DEF Grown
    <2> QED
      BY <2>1, <2>2, <2>3, <1>6
  <1>14. \A i, j \in 1..Len(q3) :
            i > Len(queue) /\ j > Len(queue) /\ q3[i].to = q3[j].to => i = j
    BY <1>5, <1>7, <1>8, <1>9, <1>10 DEF Is
  <1> QED
    BY <1>3, <1>4, <1>5, <1>10, <1>11, <1>12, <1>13, <1>14 DEF Grown

(* What taking the first message leaves.                                   *)
LEMMA Popped ==
    ASSUME queue \in Seq(Messages), queue # <<>>, queue' = Tail(queue)
    PROVE  /\ Head(queue) = queue[1] /\ queue[1] \in Messages
           /\ queue' \in Seq(Messages)
           /\ Len(queue) \in Nat /\ Len(queue') = Len(queue) - 1
           /\ 1 \in 1..Len(queue)
           /\ \A i \in 1..Len(queue') : i + 1 \in 1..Len(queue) /\ queue'[i] = queue[i + 1]
           /\ \A i \in 1..Len(queue) : i # 1 =>
                 i - 1 \in 1..Len(queue') /\ queue'[i - 1] = queue[i]
  OBVIOUS
-----------------------------------------------------------------------------
Live == {a \in Apis : state[a] = "live"}

(* gOSFrameworkRefCount is the number of objects in use, so the count that *)
(* reaches one and the count that leaves one are the first and the last.   *)
Counted ==
    /\ refCount = Cardinality(Live)
    /\ framework <=> Live # {}
    /\ \A a \in waiting : state[a] = "destroying"

(* Loading keeps what is loaded, and loads only what the device has.       *)
LEMMA LoadType ==
    ASSUME TypeOK, NEW kinds \in CallbackKinds, Load(kinds)
    PROVE  /\ loaded' \subseteq Loadable /\ loadFailed' \subseteq Adapters \ Loadable
           /\ kinds \cap loaded' \in SUBSET Adapters
           /\ loaded \subseteq loaded'
  BY LocationApiAssumption DEF TypeOK, Load

(* The objects in use can be counted.                                      *)
LEMMA LiveFinite ==
    /\ IsFiniteSet(Live)
    /\ Cardinality(Live) \in Nat
    /\ Cardinality(Live) = 0 <=> Live = {}
  <1>1. IsFiniteSet(Live)
    BY LocationApiAssumption, FS_Subset DEF Live
  <1> QED
    BY <1>1, FS_CardinalityType, FS_EmptySet

(* Initially nothing is in use.                                            *)
LEMMA TypeInit == Init => TypeOK /\ Counted
  <1> SUFFICES ASSUME Init
               PROVE  TypeOK /\ Counted
    OBVIOUS
  <1>1. TypeOK
    <2>1. queue \in Seq([op : {"add", "remove"}, api : Apis, to : Adapters])
      BY DEF Init
    <2>2. framework \in BOOLEAN
      BY DEF Init
    <2>3. added \in [Adapters -> SUBSET Apis] /\ waitMask \in [Apis -> SUBSET Adapters]
      BY DEF Init
    <2> QED
      BY <2>1, <2>2, <2>3 DEF Init, TypeOK
  <1>2. Live = {}
    BY DEF Init, Live
  <1> QED
    BY <1>1, <1>2, FS_EmptySet DEF Init, Counted

(* Every call and every message keeps the count right; a completion never  *)
(* changes an object in use, because only a destroyed one waits.           *)
LEMMA TypeStep == TypeOK /\ Counted /\ [Next]_vars => TypeOK' /\ Counted'
  <1> SUFFICES ASSUME TypeOK, Counted, [Next]_vars
               PROVE  TypeOK' /\ Counted'
    OBVIOUS
  <1>q. queue \in Seq(Messages)
    BY DEF TypeOK, Messages
  <1>1. ASSUME NEW a \in Apis, NEW kinds \in CallbackKinds, CreateInstance(a, kinds)
        PROVE  TypeOK' /\ Counted'
    <2>1. queue' \in Seq(Messages)
      <3>1. Load(kinds) /\ PostTo("add", a, kinds \cap loaded')
        BY <1>1 DEF CreateInstance
      <3> QED
        BY <3>1, <1>q, LoadType, Posted
    <2>2. TypeOK'
      <3>1. Load(kinds)
        BY <1>1 DEF CreateInstance
      <3> QED
        BY <1>1, <2>1, <3>1, LoadType DEF CreateInstance, TypeOK, Messages
    <2>3. Live' = Live \cup {a} /\ a \notin Live
      BY <1>1 DEF CreateInstance, TypeOK, Live
    <2>4. Cardinality(Live') = Cardinality(Live) + 1
      BY <2>3, LiveFinite, FS_AddElement
    <2>5. refCount' = Cardinality(Live')
      BY <1>1, <2>4 DEF CreateInstance, Counted
    <2>6. framework' /\ Live' # {}
      <3>1. Live' # {}
        BY <2>3
      <3>2. framework' = (framework \/ refCount + 1 = 1)
        BY <1>1 DEF CreateInstance
      <3>3. Live = {} => refCount + 1 = 1
        BY LiveFinite DEF Counted
      <3>4. Live # {} => framework
        BY DEF Counted
      <3>5. framework'
        BY <3>2, <3>3, <3>4, Zenon
      <3> QED
        BY <3>1, <3>5
    <2>7. \A b \in waiting' : state'[b] = "destroying"
      BY <1>1 DEF CreateInstance, Counted, TypeOK
    <2> QED
      BY <2>2, <2>5, <2>6, <2>7 DEF Counted
  <1>2. ASSUME NEW a \in Apis, NEW kinds \in CallbackKinds, UpdateCallbacks(a, kinds)
        PROVE  TypeOK' /\ Counted'
    <2>0. Load(kinds) /\ PostTo("add", a, kinds \cap loaded')
      BY <1>2 DEF UpdateCallbacks
    <2>1. queue' \in Seq(Messages)
      BY <2>0, <1>q, LoadType, Posted
    <2>2. TypeOK'
      BY <1>2, <2>0, <2>1, LoadType DEF UpdateCallbacks, TypeOK, Messages
    <2> QED
      BY <1>2, <2>2 DEF UpdateCallbacks, Counted, Live
  <1>3. ASSUME NEW a \in Apis, NEW withCb \in BOOLEAN, Destroy(a, withCb)
        PROVE  TypeOK' /\ Counted'
    <2>0. PostTo("remove", a, loaded) /\ loaded \in SUBSET Adapters
      BY <1>3, LocationApiAssumption DEF Destroy, TypeOK
    <2>1. queue' \in Seq(Messages)
      BY <2>0, <1>q, Posted
    <2>2. Live' = Live \ {a} /\ a \in Live
      BY <1>3 DEF Destroy, TypeOK, Live
    <2>3. Cardinality(Live') = Cardinality(Live) - 1
      BY <2>2, LiveFinite, FS_RemoveElement
    <2>4. Cardinality(Live') \in Nat /\ (Cardinality(Live') = 0 <=> Live' = {})
      BY <2>2, LiveFinite, FS_RemoveElement, FS_EmptySet, FS_CardinalityType
    <2>5. refCount' = Cardinality(Live') /\ refCount' \in Nat
      BY <1>3, <2>3, <2>4 DEF Destroy, Counted
    <2>6. framework' <=> Live' # {}
      <3>1. framework' = (framework /\ refCount # 1) /\ refCount = Cardinality(Live)
        BY <1>3 DEF Destroy, Counted
      <3>2. framework
        BY <2>2 DEF Counted
      <3>3. refCount # 1 <=> Cardinality(Live') # 0
        BY <2>3, <3>1, LiveFinite
      <3> QED
        BY <2>4, <3>1, <3>2, <3>3
    <2>7. waiting' \subseteq Apis /\ waitMask' \in [Apis -> SUBSET Adapters]
      BY <1>3, <2>0 DEF Destroy, TypeOK
    <2>8. state' \in [Apis -> {"none", "live", "destroying", "deleted"}]
      BY <1>3 DEF Destroy, TypeOK
    <2>9. framework' \in BOOLEAN
      BY <1>3 DEF Destroy
    <2>10. TypeOK'
      BY <1>3, <2>1, <2>5, <2>7, <2>8, <2>9 DEF Destroy, TypeOK, Messages
    <2>11. \A b \in waiting' : state'[b] = "destroying"
      BY <1>3 DEF Destroy, Counted, TypeOK
    <2> QED
      BY <2>5, <2>6, <2>10, <2>11 DEF Counted
  <1>4. CASE AddClient
    <2>1. queue' \in Seq(Messages) /\ Head(queue) \in Messages
      BY <1>4, <1>q, Popped DEF AddClient
    <2>2. added' \in [Adapters -> SUBSET Apis]
      BY <1>4, <2>1 DEF AddClient, TypeOK, Messages
    <2> QED
      BY <1>4, <2>1, <2>2 DEF AddClient, TypeOK, Messages, Counted, Live
  <1>5. CASE RemoveClient
    <2>1. queue' \in Seq(Messages) /\ Head(queue) \in Messages
      BY <1>5, <1>q, Popped DEF RemoveClient
    <2>2. added' \in [Adapters -> SUBSET Apis]
      BY <1>5, <2>1 DEF RemoveClient, TypeOK, Messages
    <2> DEFINE a == Head(queue).api
               d == Head(queue).to
    <2>3. a \in Apis /\ d \in Adapters
      BY <2>1 DEF Messages
    <2>4. OnRemoveClientCompleteCb(a, d)
      BY <1>5 DEF RemoveClient
    <2> HIDE DEF a, d
    <2>5. /\ waiting' \subseteq Apis /\ waitMask' \in [Apis -> SUBSET Adapters]
          /\ state' \in [Apis -> {"none", "live", "destroying", "deleted"}]
      BY <2>3, <2>4 DEF OnRemoveClientCompleteCb, TypeOK
    <2>6. \A b \in waiting' : state'[b] = "destroying"
      BY <2>3, <2>4 DEF OnRemoveClientCompleteCb, TypeOK, Counted
    <2>7. \A b \in Apis : state'[b] = "live" <=> state[b] = "live"
      BY <2>3, <2>4 DEF OnRemoveClientCompleteCb, TypeOK, Counted
    <2>8. Live' = Live
      BY <2>7 DEF Live
    <2>9. TypeOK'
      BY <1>5, <2>1, <2>2, <2>5 DEF RemoveClient, TypeOK, Messages
    <2> QED
      BY <1>5, <2>6, <2>8, <2>9 DEF RemoveClient, Counted
  <1>6. CASE UNCHANGED vars
    BY <1>6 DEF vars, TypeOK, Counted, Live
  <1> QED
    BY <1>1, <1>2, <1>3, <1>4, <1>5, <1>6 DEF Next, Worker

(* Every state of LocationApi is of the declared type: the reference count *)
(* never falls below zero.                                                 *)
THEOREM TypeCorrect == Spec => []TypeOK
  <1>1. Spec => [](TypeOK /\ Counted)
    BY TypeInit, TypeStep, PTL DEF Spec
  <1> QED
    BY <1>1, PTL

(* The OS framework exists exactly while an object is in use, for any      *)
(* number of objects, created and destroyed in any order.                  *)
THEOREM FrameworkInUseThm == Spec => []FrameworkInUse
  <1>1. Spec => [](TypeOK /\ Counted)
    BY TypeInit, TypeStep, PTL DEF Spec
  <1>2. Counted => FrameworkInUse
    BY DEF Counted, FrameworkInUse, Live
  <1> QED
    BY <1>1, <1>2, PTL
-----------------------------------------------------------------------------
(* No adapter knows the object and no message names it.                    *)
Nowhere(a) ==
    /\ \A d \in Adapters : a \notin added[d]
    /\ \A i \in 1..Len(queue) : queue[i].api # a

(* Only adapters that are loaded have clients or messages, so destroy,     *)
(* which asks the loaded ones, asks all that can know the object.          *)
Known ==
    /\ \A i \in 1..Len(queue) : queue[i].to \in loaded
    /\ \A a \in Apis, d \in Adapters : a \in added[d] => d \in loaded

Untouched ==
    \A a \in Apis : state[a] \in {"none", "deleted"} => Nowhere(a)

(* A live object is only being added.                                      *)
LiveAdds ==
    \A a \in Apis : state[a] = "live" =>
        \A i \in 1..Len(queue) : queue[i].api = a => queue[i].op = "add"

(* Wherever a destroyed object is, or is still to be added, a later        *)
(* message takes it out.                                                   *)
Retires ==
    \A a \in Apis : state[a] = "destroying" =>
        /\ \A d \in Adapters : a \in added[d] =>
              \E j \in 1..Len(queue) : Is(queue[j], "remove", a, d)
        /\ \A d \in Adapters, i \in 1..Len(queue) : Is(queue[i], "add", a, d) =>
              \E j \in 1..Len(queue) : j > i /\ Is(queue[j], "remove", a, d)

(* An adapter is asked once.                                               *)
AskedOnce ==
    \A i, j \in 1..Len(queue) :
        /\ queue[i].op = "remove" /\ queue[j].op = "remove"
        /\ queue[i].api = queue[j].api /\ queue[i].to = queue[j].to
        => i = j

(* Every completion still to come is one that the object waits for.        *)
Awaited ==
    \A a \in waiting, i \in 1..Len(queue) :
        queue[i].op = "remove" /\ queue[i].api = a => queue[i].to \in waitMask[a]

Safe == Known /\ Untouched /\ LiveAdds /\ Retires /\ AskedOnce /\ Awaited

(* Initially no adapter and no message knows an object.                    *)
LEMMA SafeInit == Init => Safe
  BY DEF Init, Safe, Known, Untouched, Nowhere, LiveAdds, Retires, AskedOnce, Awaited

(* Additions of a live object, by createInstance and updateCallbacks.      *)
LEMMA SafeAdds ==
    ASSUME TypeOK, Counted, Safe,
           NEW a \in Apis, NEW kinds \in CallbackKinds, state[a] \in {"none", "live"},
           Load(kinds), PostTo("add", a, kinds \cap loaded'),
           state' = [state EXCEPT ![a] = "live"],
           UNCHANGED <<waiting, waitMask, added>>
    PROVE  Safe'
  <1>q. queue \in Seq(Messages) /\ Len(queue) \in Nat
    BY DEF TypeOK, Messages
  <1>l. loaded \subseteq loaded' /\ kinds \cap loaded' \in SUBSET Adapters
    BY LoadType
  <1>p. /\ queue' \in Seq(Messages)
        /\ Len(queue) <= Len(queue')
        /\ \A i \in 1..Len(queue) : queue'[i] = queue[i]
        /\ \A i \in 1..Len(queue') : i > Len(queue) =>
              \E d \in kinds \cap loaded' : Is(queue'[i], "add", a, d)
    BY <1>q, <1>l, Posted
  <1>n. Len(queue') \in Nat
    BY <1>p
  <1>o. \A i \in 1..Len(queue') :
           \/ i \in 1..Len(queue) /\ queue'[i] = queue[i]
           \/ queue'[i].op = "add" /\ queue'[i].api = a /\ queue'[i].to \in loaded'
    BY <1>q, <1>n, <1>p DEF Is
  <1>s. /\ state'[a] = "live"
        /\ \A b \in Apis : b # a => state'[b] = state[b]
    BY DEF TypeOK
  <1>w. \A b \in waiting : b # a
    BY DEF Counted
  <1>1. Known'
    BY <1>l, <1>o DEF Safe, Known
  <1>2. Untouched'
    BY <1>o, <1>s DEF Safe, Untouched, Nowhere
  <1>3. LiveAdds'
    BY <1>o, <1>s DEF Safe, LiveAdds, Untouched, Nowhere
  <1>4. Retires'
    <2> SUFFICES ASSUME NEW b \in Apis, state'[b] = "destroying", NEW d \in Adapters
                 PROVE  /\ b \in added'[d] =>
                             \E j \in 1..Len(queue') : Is(queue'[j], "remove", b, d)
                        /\ \A i \in 1..Len(queue') : Is(queue'[i], "add", b, d) =>
                             \E j \in 1..Len(queue') : j > i /\ Is(queue'[j], "remove", b, d)
      BY DEF Retires
    <2>1. b # a /\ state[b] = "destroying"
      BY <1>s
    <2>2. \A j \in 1..Len(queue) : j \in 1..Len(queue') /\ queue'[j] = queue[j]
      BY <1>q, <1>n, <1>p
    <2>3. b \in added[d] => \E j \in 1..Len(queue) : Is(queue[j], "remove", b, d)
      BY <2>1 DEF Safe, Retires
    <2>4. \A i \in 1..Len(queue) : Is(queue[i], "add", b, d) =>
             \E j \in 1..Len(queue) : j > i /\ Is(queue[j], "remove", b, d)
      BY <2>1 DEF Safe, Retires
    <2>5. \A i \in 1..Len(queue') : Is(queue'[i], "add", b, d) => i \in 1..Len(queue)
      BY <1>o, <2>1 DEF Is
    <2> QED
      BY <2>2, <2>3, <2>4, <2>5
  <1>5. AskedOnce'
    BY <1>o DEF Safe, AskedOnce
  <1>6. Awaited'
    BY <1>o, <1>w DEF Safe, Awaited
  <1> QED
    BY <1>1, <1>2, <1>3, <1>4, <1>5, <1>6 DEF Safe

(* destroy: every adapter that can know the object is asked to let it go.  *)
LEMMA SafeDestroy ==
    ASSUME TypeOK, Counted, Safe, NEW a \in Apis, NEW withCb \in BOOLEAN,
           Destroy(a, withCb)
    PROVE  Safe'
  <1>q. queue \in Seq(Messages) /\ Len(queue) \in Nat
    BY DEF TypeOK, Messages
  <1>d. /\ state[a] = "live"
        /\ PostTo("remove", a, loaded)
        /\ UNCHANGED <<loaded, added>>
        /\ loaded \in SUBSET Adapters
    BY LocationApiAssumption DEF Destroy, TypeOK
  <1>p. /\ queue' \in Seq(Messages)
        /\ Len(queue) <= Len(queue')
        /\ \A i \in 1..Len(queue) : queue'[i] = queue[i]
        /\ \A i \in 1..Len(queue') : i > Len(queue) =>
              \E d \in loaded : Is(queue'[i], "remove", a, d)
        /\ \A d \in loaded : \E i \in 1..Len(queue') :
              i > Len(queue) /\ Is(queue'[i], "remove", a, d)
        /\ \A i, j \in 1..Len(queue') :
              i > Len(queue) /\ j > Len(queue) /\ queue'[i].to = queue'[j].to => i = j
    BY <1>q, <1>d, Posted
  <1>n. Len(queue') \in Nat
    BY <1>p
  <1>o. \A i \in 1..Len(queue') :
           \/ i \in 1..Len(queue) /\ queue'[i] = queue[i]
           \/ /\ i > Len(queue) /\ queue'[i].op = "remove"
              /\ queue'[i].api = a /\ queue'[i].to \in loaded
    BY <1>q, <1>n, <1>p DEF Is
  <1>k. \A j \in 1..Len(queue) : j \in 1..Len(queue') /\ queue'[j] = queue[j]
    BY <1>q, <1>n, <1>p
  <1>s. /\ state'[a] = IF loaded = {} THEN "deleted" ELSE "destroying"
        /\ \A b \in Apis : b # a => state'[b] = state[b]
    BY DEF Destroy, TypeOK
  <1>1. Known'
    BY <1>d, <1>o DEF Safe, Known
  <1>2. Untouched'
    <2>1. ASSUME NEW b \in Apis, b # a, state'[b] \in {"none", "deleted"}
          PROVE  Nowhere(b)'
      BY <2>1, <1>d, <1>o, <1>s DEF Safe, Untouched, Nowhere
    <2>2. ASSUME loaded = {}
          PROVE  Nowhere(a)'
      BY <2>2, <1>d, <1>o DEF Safe, Known, Nowhere
    <2> QED
      BY <2>1, <2>2, <1>s DEF Untouched
  <1>3. LiveAdds'
    BY <1>o, <1>s DEF Safe, LiveAdds
  <1>4. Retires'
    <2> SUFFICES ASSUME NEW b \in Apis, state'[b] = "destroying", NEW d \in Adapters
                 PROVE  /\ b \in added'[d] =>
                             \E j \in 1..Len(queue') : Is(queue'[j], "remove", b, d)
                        /\ \A i \in 1..Len(queue') : Is(queue'[i], "add", b, d) =>
                             \E j \in 1..Len(queue') : j > i /\ Is(queue'[j], "remove", b, d)
      BY DEF Retires
    <2>1. CASE b # a
      <3>1. state[b] = "destroying"
        BY <1>s, <2>1
      <3>2. b \in added[d] => \E j \in 1..Len(queue) : Is(queue[j], "remove", b, d)
        BY <3>1 DEF Safe, Retires
      <3>3. \A i \in 1..Len(queue) : Is(queue[i], "add", b, d) =>
               \E j \in 1..Len(queue) : j > i /\ Is(queue[j], "remove", b, d)
        BY <3>1 DEF Safe, Retires
      <3>4. \A i \in 1..Len(queue') : Is(queue'[i], "add", b, d) => i \in 1..Len(queue)
        BY <1>o, <2>1 DEF Is
      <3> QED
        BY <1>d, <1>k, <3>2, <3>3, <3>4
    <2>2. CASE b = a
      <3>1. b \in added'[d] => d \in loaded
        BY <1>d DEF Safe, Known
      <3>2. \A i \in 1..Len(queue') : Is(queue'[i], "add", b, d) =>
               i <= Len(queue) /\ d \in loaded
        BY <1>q, <1>o DEF Is, Safe, Known
      <3>3. \A d1 \in loaded : \E j \in 1..Len(queue') :
               j > Len(queue) /\ Is(queue'[j], "remove", b, d1)
        BY <1>p, <2>2
      <3>4. ASSUME NEW i \in 1..Len(queue'), Is(queue'[i], "add", b, d)
            PROVE  \E j \in 1..Len(queue') : j > i /\ Is(queue'[j], "remove", b, d)
        <4>1. i <= Len(queue) /\ d \in loaded
          BY <3>2, <3>4
        <4>2. PICK j \in 1..Len(queue') : j > Len(queue) /\ Is(queue'[j], "remove", b, d)
          BY <4>1, <3>3
        <4>3. j > i
          BY <4>1, <4>2, <1>q, <1>n
        <4> QED
          BY <4>2, <4>3
      <3> QED
        BY <3>1, <3>3, <3>4
    <2> QED
      BY <2>1, <2>2
  <1>5. AskedOnce'
    <2>1. \A i \in 1..Len(queue) : queue[i].api = a => queue[i].op = "add"
      BY <1>d DEF Safe, LiveAdds
    <2> QED
      BY <1>o, <1>p, <2>1 DEF Safe, AskedOnce
  <1>6. Awaited'
    <2> SUFFICES ASSUME NEW b \in waiting', NEW i \in 1..Len(queue'),
                        queue'[i].op = "remove", queue'[i].api = b
                 PROVE  queue'[i].to \in waitMask'[b]
      BY DEF Awaited
    <2>1. b = a => a \notin waiting
      BY <1>d DEF Counted
    <2>2. CASE b # a
      <3>1. b \in waiting /\ waitMask'[b] = waitMask[b]
        BY <2>2 DEF Destroy, TypeOK
      <3> QED
        BY <1>o, <2>2, <3>1 DEF Safe, Awaited
    <2>3. CASE b = a
      <3>1. waitMask'[a] = loaded
        BY <2>1, <2>3 DEF Destroy, TypeOK
      <3>2. \A k \in 1..Len(queue) : queue[k].api = a => queue[k].op = "add"
        BY <1>d DEF Safe, LiveAdds
      <3> QED
        BY <1>o, <2>3, <3>1, <3>2
    <2> QED
      BY <2>2, <2>3
  <1> QED
    BY <1>1, <1>2, <1>3, <1>4, <1>5, <1>6 DEF Safe

(* MsgAddClient                                                            *)
LEMMA SafeAddClient ==
    ASSUME TypeOK, Counted, Safe, AddClient
    PROVE  Safe'
  <1> DEFINE a == queue[1].api
             d == queue[1].to
  <1>q. queue \in Seq(Messages)
    BY DEF TypeOK, Messages
  <1>p. /\ Head(queue) = queue[1] /\ queue[1] \in Messages
        /\ queue' \in Seq(Messages)
        /\ Len(queue) \in Nat /\ Len(queue') = Len(queue) - 1
        /\ 1 \in 1..Len(queue)
        /\ \A i \in 1..Len(queue') : i + 1 \in 1..Len(queue) /\ queue'[i] = queue[i + 1]
        /\ \A i \in 1..Len(queue) : i # 1 =>
              i - 1 \in 1..Len(queue') /\ queue'[i - 1] = queue[i]
    BY <1>q, Popped DEF AddClient
  <1>a. /\ a \in Apis /\ d \in Adapters /\ Is(queue[1], "add", a, d)
        /\ added' = [added EXCEPT ![d] = @ \cup {a}]
        /\ UNCHANGED <<loaded, waiting, waitMask, state>>
    BY <1>p DEF AddClient, Messages, Is
  <1>b. \A b \in Apis, e \in Adapters : b \in added'[e] => b \in added[e] \/ (b = a /\ e = d)
    BY <1>a DEF TypeOK
  <1>h. a = queue[1].api /\ d = queue[1].to
    OBVIOUS
  <1> HIDE DEF a, d
  <1>1. Known'
    BY <1>a, <1>b, <1>h, <1>p DEF Safe, Known
  <1>2. Untouched'
    <2>1. state[a] \notin {"none", "deleted"}
      BY <1>a, <1>h, <1>p DEF Safe, Untouched, Nowhere
    <2> QED
      BY <2>1, <1>a, <1>b, <1>p DEF Safe, Untouched, Nowhere
  <1>3. LiveAdds'
    BY <1>a, <1>p DEF Safe, LiveAdds
  <1>4. Retires'
    <2> SUFFICES ASSUME NEW b \in Apis, state[b] = "destroying", NEW e \in Adapters
                 PROVE  /\ b \in added'[e] =>
                             \E j \in 1..Len(queue') : Is(queue'[j], "remove", b, e)
                        /\ \A i \in 1..Len(queue') : Is(queue'[i], "add", b, e) =>
                             \E j \in 1..Len(queue') : j > i /\ Is(queue'[j], "remove", b, e)
      BY <1>a DEF Retires
    <2>1. /\ b \in added[e] => \E j \in 1..Len(queue) : Is(queue[j], "remove", b, e)
          /\ \A i \in 1..Len(queue) : Is(queue[i], "add", b, e) =>
                \E j \in 1..Len(queue) : j > i /\ Is(queue[j], "remove", b, e)
      BY DEF Safe, Retires
    <2>2. \A j \in 1..Len(queue) : Is(queue[j], "remove", b, e) =>
             j # 1 /\ j - 1 \in 1..Len(queue') /\ Is(queue'[j - 1], "remove", b, e)
      BY <1>a, <1>p DEF Is
    <2>3. ASSUME b \in added'[e]
          PROVE  \E j \in 1..Len(queue') : Is(queue'[j], "remove", b, e)
      <3>1. PICK j \in 1..Len(queue) : Is(queue[j], "remove", b, e)
        BY <1>a, <1>b, <1>p, <2>1, <2>3
      <3> QED
        BY <2>2, <3>1
    <2>4. ASSUME NEW i \in 1..Len(queue'), Is(queue'[i], "add", b, e)
          PROVE  \E j \in 1..Len(queue') : j > i /\ Is(queue'[j], "remove", b, e)
      <3>1. i + 1 \in 1..Len(queue) /\ Is(queue[i + 1], "add", b, e)
        BY <1>p, <2>4
      <3>2. PICK j \in 1..Len(queue) : j > i + 1 /\ Is(queue[j], "remove", b, e)
        BY <2>1, <3>1
      <3>3. j - 1 \in 1..Len(queue') /\ j - 1 > i /\ Is(queue'[j - 1], "remove", b, e)
        BY <2>2, <3>2
      <3> QED
        BY <3>3
    <2> QED
      BY <2>3, <2>4
  <1>5. AskedOnce'
    <2> SUFFICES ASSUME NEW i \in 1..Len(queue'), NEW j \in 1..Len(queue'),
                        queue'[i].op = "remove", queue'[j].op = "remove",
                        queue'[i].api = queue'[j].api, queue'[i].to = queue'[j].to
                 PROVE  i = j
      BY DEF AskedOnce
    <2>1. /\ i + 1 \in 1..Len(queue) /\ queue'[i] = queue[i + 1]
          /\ j + 1 \in 1..Len(queue) /\ queue'[j] = queue[j + 1]
      BY <1>p
    <2>2. i + 1 = j + 1
      BY <2>1 DEF Safe, AskedOnce
    <2> QED
      BY <2>2
  <1>6. Awaited'
    BY <1>a, <1>p DEF Safe, Awaited
  <1> QED
    BY <1>1, <1>2, <1>3, <1>4, <1>5, <1>6 DEF Safe

(* MsgRemoveClient: the last completion finds the object nowhere.          *)
LEMMA SafeRemoveClient ==
    ASSUME TypeOK, Counted, Safe, RemoveClient
    PROVE  Safe'
  <1> DEFINE a == queue[1].api
             d == queue[1].to
  <1>q. queue \in Seq(Messages)
    BY DEF TypeOK, Messages
  <1>p. /\ Head(queue) = queue[1] /\ queue[1] \in Messages
        /\ queue' \in Seq(Messages)
        /\ Len(queue) \in Nat /\ Len(queue') = Len(queue) - 1
        /\ 1 \in 1..Len(queue)
        /\ \A i \in 1..Len(queue') : i + 1 \in 1..Len(queue) /\ queue'[i] = queue[i + 1]
        /\ \A i \in 1..Len(queue) : i # 1 =>
              i - 1 \in 1..Len(queue') /\ queue'[i - 1] = queue[i]
    BY <1>q, Popped DEF RemoveClient
  <1>a. /\ a \in Apis /\ d \in Adapters /\ Is(queue[1], "remove", a, d)
        /\ added' = [added EXCEPT ![d] = @ \ {a}]
        /\ OnRemoveClientCompleteCb(a, d)
        /\ loaded' = loaded
    BY <1>p DEF RemoveClient, Messages, Is
  <1>b. /\ a \notin added'[d]
        /\ \A b \in Apis, e \in Adapters : b \in added'[e] => b \in added[e]
    BY <1>a DEF TypeOK
  <1>h. a = queue[1].api /\ d = queue[1].to
    OBVIOUS
  <1> HIDE DEF a, d
  <1>f. state[a] = "destroying"
    <2>1. state[a] \notin {"none", "deleted"}
      BY <1>a, <1>h, <1>p DEF Safe, Untouched, Nowhere
    <2>2. state[a] # "live"
      BY <1>a, <1>h, <1>p DEF Safe, LiveAdds, Is
    <2> QED
      BY <1>a, <2>1, <2>2 DEF TypeOK
  <1>s. /\ \A b \in Apis : b # a => state'[b] = state[b]
        /\ state'[a] \in {"destroying", "deleted"}
        /\ state'[a] = "deleted" => a \in waiting /\ waitMask[a] \ {d} = {}
    BY <1>a, <1>f DEF OnRemoveClientCompleteCb, TypeOK
  <1>w. /\ waiting' \subseteq waiting
        /\ \A b \in waiting : b # a => waitMask'[b] = waitMask[b]
        /\ a \in waiting => waitMask'[a] = waitMask[a] \ {d}
    BY <1>a DEF OnRemoveClientCompleteCb, TypeOK
  (* The message just taken was the only one like it. *)
  <1>u. \A i \in 1..Len(queue') :
           ~ Is(queue'[i], "remove", a, d)
    <2> SUFFICES ASSUME NEW i \in 1..Len(queue'), Is(queue'[i], "remove", a, d)
                 PROVE  FALSE
      OBVIOUS
    <2>1. i + 1 \in 1..Len(queue) /\ Is(queue[i + 1], "remove", a, d)
      BY <1>p
    <2>2. i + 1 = 1
      BY <1>a, <1>p, <2>1 DEF Safe, AskedOnce, Is
    <2> QED
      BY <2>2
  <1>1. Known'
    BY <1>a, <1>b, <1>p DEF Safe, Known
  <1>3. LiveAdds'
    BY <1>p, <1>s DEF Safe, LiveAdds
  <1>4. \A b \in Apis, e \in Adapters : state[b] = "destroying" =>
           /\ b \in added'[e] =>
                \E j \in 1..Len(queue') : Is(queue'[j], "remove", b, e)
           /\ \A i \in 1..Len(queue') : Is(queue'[i], "add", b, e) =>
                \E j \in 1..Len(queue') : j > i /\ Is(queue'[j], "remove", b, e)
    <2> SUFFICES ASSUME NEW b \in Apis, NEW e \in Adapters, state[b] = "destroying"
                 PROVE  /\ b \in added'[e] =>
                             \E j \in 1..Len(queue') : Is(queue'[j], "remove", b, e)
                        /\ \A i \in 1..Len(queue') : Is(queue'[i], "add", b, e) =>
                             \E j \in 1..Len(queue') : j > i /\ Is(queue'[j], "remove", b, e)
      OBVIOUS
    <2>1. /\ b \in added[e] => \E j \in 1..Len(queue) : Is(queue[j], "remove", b, e)
          /\ \A i \in 1..Len(queue) : Is(queue[i], "add", b, e) =>
                \E j \in 1..Len(queue) : j > i /\ Is(queue[j], "remove", b, e)
      BY DEF Safe, Retires
    <2>2. \A j \in 1..Len(queue) : Is(queue[j], "remove", b, e) /\ j # 1 =>
             j - 1 \in 1..Len(queue') /\ Is(queue'[j - 1], "remove", b, e)
      BY <1>p
    <2>3. ASSUME b \in added'[e]
          PROVE  \E j \in 1..Len(queue') : Is(queue'[j], "remove", b, e)
      <3>1. PICK j \in 1..Len(queue) : Is(queue[j], "remove", b, e)
        BY <1>b, <2>1, <2>3
      <3>2. ~ (b = a /\ e = d)
        BY <1>b, <2>3
      <3>3. j # 1
        BY <1>a, <3>1, <3>2 DEF Is
      <3> QED
        BY <2>2, <3>1, <3>3
    <2>4. ASSUME NEW i \in 1..Len(queue'), Is(queue'[i], "add", b, e)
          PROVE  \E j \in 1..Len(queue') : j > i /\ Is(queue'[j], "remove", b, e)
      <3>1. i + 1 \in 1..Len(queue) /\ Is(queue[i + 1], "add", b, e)
        BY <1>p, <2>4
      <3>2. PICK j \in 1..Len(queue) : j > i + 1 /\ Is(queue[j], "remove", b, e)
        BY <2>1, <3>1
      <3>3. j - 1 \in 1..Len(queue') /\ j - 1 > i /\ Is(queue'[j - 1], "remove", b, e)
        BY <2>2, <3>2
      <3> QED
        BY <3>3
    <2> QED
      BY <2>3, <2>4
  <1>5. Retires'
    <2>1. \A b \in Apis : state'[b] = "destroying" => state[b] = "destroying"
      BY <1>f, <1>s
    <2> QED
      BY <1>4, <2>1 DEF Retires
  <1>6. Untouched'
    <2>1. ASSUME NEW b \in Apis, b # a, state'[b] \in {"none", "deleted"}
          PROVE  Nowhere(b)'
      BY <2>1, <1>b, <1>p, <1>s DEF Safe, Untouched, Nowhere
    <2>2. ASSUME state'[a] = "deleted"
          PROVE  /\ \A e \in Adapters : a \notin added'[e]
                 /\ \A i \in 1..Len(queue') : queue'[i].api # a
      <3>1. \A i \in 1..Len(queue') : ~ (queue'[i].op = "remove" /\ queue'[i].api = a)
        <4> SUFFICES ASSUME NEW i \in 1..Len(queue'),
                            queue'[i].op = "remove", queue'[i].api = a
                     PROVE  FALSE
          OBVIOUS
        <4>1. queue'[i].to \in waitMask[a]
          BY <1>p, <1>s, <2>2 DEF Safe, Awaited
        <4>2. queue'[i].to = d
          BY <4>1, <1>s, <2>2
        <4> QED
          BY <4>2, <1>u DEF Is
      <3>2. \A e \in Adapters : a \notin added'[e]
        BY <1>4, <1>a, <1>f, <3>1 DEF Is
      <3>3. \A i \in 1..Len(queue') : queue'[i].api # a
        <4> SUFFICES ASSUME NEW i \in 1..Len(queue'), queue'[i].api = a
                     PROVE  FALSE
          OBVIOUS
        <4>1. queue'[i] \in Messages
          BY <1>p
        <4>2. queue'[i].to \in Adapters /\ Is(queue'[i], "add", a, queue'[i].to)
          BY <3>1, <4>1 DEF Messages, Is
        <4> QED
          BY <1>4, <1>a, <1>f, <3>1, <4>2 DEF Is
      <3> QED
        BY <3>2, <3>3
    <2> QED
      BY <2>1, <2>2, <1>s DEF Untouched, Nowhere
  <1>7. AskedOnce'
    <2> SUFFICES ASSUME NEW i \in 1..Len(queue'), NEW j \in 1..Len(queue'),
                        queue'[i].op = "remove", queue'[j].op = "remove",
                        queue'[i].api = queue'[j].api, queue'[i].to = queue'[j].to
                 PROVE  i = j
      BY DEF AskedOnce
    <2>1. /\ i + 1 \in 1..Len(queue) /\ queue'[i] = queue[i + 1]
          /\ j + 1 \in 1..Len(queue) /\ queue'[j] = queue[j + 1]
      BY <1>p
    <2>2. i + 1 = j + 1
      BY <2>1 DEF Safe, AskedOnce
    <2> QED
      BY <2>2
  <1>8. Awaited'
    <2> SUFFICES ASSUME NEW b \in waiting', NEW i \in 1..Len(queue'),
                        queue'[i].op = "remove", queue'[i].api = b
                 PROVE  queue'[i].to \in waitMask'[b]
      BY DEF Awaited
    <2>1. b \in waiting /\ queue'[i].to \in waitMask[b]
      BY <1>p, <1>w DEF Safe, Awaited
    <2>2. b = a => queue'[i].to # d
      BY <1>u DEF Is
    <2> QED
      BY <1>w, <2>1, <2>2
  <1> QED
    BY <1>1, <1>3, <1>5, <1>6, <1>7, <1>8 DEF Safe

(* Every call and every message keeps the strengthened invariant.          *)
LEMMA SafeStep == TypeOK /\ Counted /\ Safe /\ [Next]_vars => Safe'
  <1> SUFFICES ASSUME TypeOK, Counted, Safe, [Next]_vars
               PROVE  Safe'
    OBVIOUS
  <1>1. ASSUME NEW a \in Apis, NEW kinds \in CallbackKinds, CreateInstance(a, kinds)
        PROVE  Safe'
    BY <1>1, SafeAdds DEF CreateInstance
  <1>2. ASSUME NEW a \in Apis, NEW kinds \in CallbackKinds, UpdateCallbacks(a, kinds)
        PROVE  Safe'
    <2>1. state' = [state EXCEPT ![a] = "live"]
      BY <1>2 DEF UpdateCallbacks, TypeOK
    <2> QED
      BY <1>2, <2>1, SafeAdds DEF UpdateCallbacks
  <1>3. ASSUME NEW a \in Apis, NEW withCb \in BOOLEAN, Destroy(a, withCb)
        PROVE  Safe'
    BY <1>3, SafeDestroy
  <1>4. CASE AddClient
    BY <1>4, SafeAddClient
  <1>5. CASE RemoveClient
    BY <1>5, SafeRemoveClient
  <1>6. CASE UNCHANGED vars
    BY <1>6 DEF vars, Safe, Known, Untouched, Nowhere, LiveAdds, Retires, AskedOnce, Awaited
  <1> QED
    BY <1>1, <1>2, <1>3, <1>4, <1>5, <1>6 DEF Next, Worker

(* An object that is deleted is known to no adapter and named by no        *)
(* message of the worker, for any number of objects, any adapters on the   *)
(* device and any calls of updateCallbacks in between.                     *)
THEOREM NoDanglingApiThm == Spec => []NoDanglingApi
  <1>1. Init => TypeOK /\ Counted /\ Safe
    BY TypeInit, SafeInit
  <1>2. TypeOK /\ Counted /\ Safe /\ [Next]_vars => (TypeOK /\ Counted /\ Safe)'
    BY TypeStep, SafeStep
  <1>3. Safe => NoDanglingApi
    BY DEF Safe, Untouched, Nowhere, NoDanglingApi
  <1> QED
    BY <1>1, <1>2, <1>3, PTL DEF Spec
=============================================================================
