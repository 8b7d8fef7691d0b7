------------------------ MODULE TrackingAnswersProof ------------------------
(***************************************************************************)
(* Every tracking command is answered once, a stopped session stays        *)
(* stopped, and the modem serves the sessions there are, for any number of *)
(* sessions and clients.                                                   *)
(*                                                                         *)
(* All rest on a ledger: the answers a client is owed for a session are    *)
(* the requests and responses for that session still in the two queues,    *)
(* and the commands kept until the engine is open.  From it follows what a *)
(* response finds (Lives), and from that what the requests on their way    *)
(* will make of the modem (Serving).                                       *)
(***************************************************************************)
EXTENDS TrackingSessionsProof

(* The requests, and the messages to the adapter, that will answer the     *)
(* client of session s.                                                    *)
ReqFor(s) == {r \in ReqShape : r.k \notin {"none", "erase"} /\ s \in r.ids}
MsgFor(s) == {m \in MsgShape : m.k \notin {"erase", "engineUp"} /\ s \in m.ids}
Posted(s) == Count(apiQ, ReqFor(s))
Answers(s) == Count(adQ, MsgFor(s))
Kept(s) == IF flushes = 0 THEN Count(mPendingMsgs, MsgFor(s)) ELSE 0
Due(s) == Posted(s) + Answers(s) + Kept(s)

(* The engine becomes ready: LocOpenMsg or LocSsrMsg, and the event.       *)
OpenReq == {r \in ReqShape : r.op = "open"}
UpMsg == {m \in MsgShape : m.k = "engineUp"}
Opens == Count(apiQ, OpenReq)
Ups == Count(adQ, UpMsg)

(* The terms of the ledger are natural numbers.                            *)
LEMMA DueTypes ==
    ASSUME Shape
    PROVE  /\ \A s \in Sessions : /\ Posted(s) \in Nat /\ Answers(s) \in Nat
                                  /\ Kept(s) \in Nat /\ Due(s) \in Nat
           /\ Opens \in Nat /\ Ups \in Nat
<1>1. apiQ \in Seq(ReqShape) /\ adQ \in Seq(MsgShape) /\ mPendingMsgs \in Seq(CmdShape)
  BY DEF Shape, AdapterOK, OtherOK
<1>2. Opens \in Nat /\ Ups \in Nat
  BY <1>1, CountFinite DEF Opens, Ups
<1>3. ASSUME NEW s \in Sessions
      PROVE  Posted(s) \in Nat /\ Answers(s) \in Nat /\ Kept(s) \in Nat
  BY <1>1, CountFinite DEF Posted, Answers, Kept
<1> QED
  BY <1>2, <1>3 DEF Due

(* The same after a step that keeps the shape.                             *)
LEMMA DueTypesNext ==
    ASSUME Shape'
    PROVE  \A s \in Sessions : /\ Posted(s)' \in Nat /\ Answers(s)' \in Nat
                               /\ Kept(s)' \in Nat /\ Due(s)' \in Nat
                               /\ owed'[s] \in Int
<1>1. /\ apiQ' \in Seq(ReqShape) /\ adQ' \in Seq(MsgShape)
      /\ mPendingMsgs' \in Seq(CmdShape) /\ owed' \in [Sessions -> Int]
  BY DEF Shape, AdapterOK, OtherOK
<1>2. ASSUME NEW s \in Sessions
      PROVE  Posted(s)' \in Nat /\ Answers(s)' \in Nat /\ Kept(s)' \in Nat
  BY <1>1, CountFinite DEF Posted, Answers, Kept
<1> QED
  BY <1>1, <1>2 DEF Due

(* Requests nobody waits for do not change the ledger.                     *)
Silent(q) == \A i \in DOMAIN q : q[i].k = "none" /\ q[i].op # "open"

(* A queue of such requests has nothing to count.                          *)
LEMMA SilentCounts ==
    ASSUME NEW q \in Seq(ReqShape), Silent(q)
    PROVE  Count(q, OpenReq) = 0 /\ \A s \in Sessions : Count(q, ReqFor(s)) = 0
<1>1. ~Has(q, OpenReq) /\ \A s \in Sessions : ~Has(q, ReqFor(s))
  BY DEF Silent, Has, OpenReq, ReqFor
<1> QED
  BY <1>1, CountFinite

(* Posting such requests changes no account.                               *)
LEMMA SilentPost ==
    ASSUME Shape, NEW q \in Seq(ReqShape), Silent(q), apiQ' = apiQ \o q
    PROVE  Opens' = Opens /\ \A s \in Sessions : Posted(s)' = Posted(s)
<1>1. apiQ \in Seq(ReqShape)
  BY DEF Shape, AdapterOK
<1>2. Opens' = Opens
  <2>1. Opens' = Opens + Count(q, OpenReq)
    BY <1>1, CountConcat DEF Opens
  <2> QED
    BY <2>1, SilentCounts, DueTypes
<1>3. ASSUME NEW s \in Sessions PROVE Posted(s)' = Posted(s)
  <2>1. Posted(s)' = Posted(s) + Count(q, ReqFor(s))
    BY <1>1, CountConcat DEF Posted
  <2> QED
    BY <2>1, SilentCounts, DueTypes
<1> QED
  BY <1>2, <1>3

(* One request for session x that will answer adds one to its account.     *)
LEMMA RequestPost ==
    ASSUME Shape, NEW x \in Sessions, NEW r \in ReqShape, r.ids = {x},
           r.k \notin {"none", "erase"}, NEW q \in Seq(ReqShape), Silent(q),
           apiQ' = apiQ \o <<r>> \o q
    PROVE  /\ Opens' = Opens /\ Posted(x)' = Posted(x) + 1
           /\ \A s \in Sessions \ {x} : Posted(s)' = Posted(s)
<1>1. apiQ \in Seq(ReqShape)
  BY DEF Shape, AdapterOK
<1>2. <<r>> \in Seq(ReqShape)
  OBVIOUS
<1>3. apiQ \o <<r>> \in Seq(ReqShape)
  BY <1>1, <1>2, ConcatProperties
<1>4. ASSUME NEW P, Count(q, P) = 0
      PROVE  Count(apiQ', P) = Count(apiQ, P) + (IF r \in P THEN 1 ELSE 0)
  <2>1. Count(apiQ', P) = Count(apiQ \o <<r>>, P) + 0
    BY <1>3, <1>4, CountConcat
  <2>2. Count(apiQ \o <<r>>, P) = Count(apiQ, P) + Count(<<r>>, P)
    BY <1>1, <1>2, CountConcat
  <2>3. Count(<<r>>, P) = IF r \in P THEN 1 ELSE 0
    BY CountOne
  <2>4. Count(apiQ, P) \in Nat
    BY <1>1, CountFinite
  <2> QED
    BY <2>1, <2>2, <2>3, <2>4
<1>5. r \notin OpenReq /\ r \in ReqFor(x) /\ \A s \in Sessions \ {x} : r \notin ReqFor(s)
  BY DEF OpenReq, ReqFor, ReqShape
<1>6. Opens' = Opens
  BY <1>4, <1>5, SilentCounts, DueTypes DEF Opens
<1>7. Posted(x)' = Posted(x) + 1
  BY <1>4, <1>5, SilentCounts, DueTypes DEF Posted
<1>8. ASSUME NEW s \in Sessions \ {x} PROVE Posted(s)' = Posted(s)
  <2>1. Count(q, ReqFor(s)) = 0 /\ r \notin ReqFor(s) /\ Posted(s) \in Nat
    BY <1>5, SilentCounts, DueTypes
  <2>2. Posted(s)' = Posted(s) + 0
    BY <1>4, <2>1 DEF Posted
  <2> QED
    BY <2>1, <2>2
<1> QED
  BY <1>6, <1>7, <1>8

(* What a multiplexing step and the requests after it do to the ledger.    *)
LEMMA OutcomePost ==
    ASSUME Shape, NEW x \in Sessions, NEW out, NEW K, Posts(out, x, K),
           "none" \notin K, "erase" \notin K,
           NEW q \in Seq(ReqShape), Silent(q), Post(out, q)
    PROVE  /\ Opens' = Opens
           /\ Posted(x)' = Posted(x) + (IF out.now THEN 0 ELSE 1)
           /\ \A s \in Sessions \ {x} : Posted(s)' = Posted(s)
<1>1. CASE out.reqs = <<>> /\ out.now = TRUE
  <2>1. apiQ \in Seq(ReqShape)
    BY DEF Shape, AdapterOK
  <2>2. apiQ' = apiQ \o q
    BY <1>1, <2>1, ConcatEmptySeq DEF Post
  <2> QED
    BY <1>1, <2>2, SilentPost, DueTypes
<1>2. ASSUME NEW r \in ReqShape, out.reqs = <<r>>, out.now = FALSE,
             r.ids = {x}, r.k \in K
      PROVE  /\ Opens' = Opens
             /\ Posted(x)' = Posted(x) + (IF out.now THEN 0 ELSE 1)
             /\ \A s \in Sessions \ {x} : Posted(s)' = Posted(s)
  <2>1. apiQ' = apiQ \o <<r>> \o q
    BY <1>2 DEF Post
  <2>2. r.k \notin {"none", "erase"}
    BY <1>2
  <2> QED
    BY <1>2, <2>1, <2>2, RequestPost
<1> QED
  BY <1>1, <1>2 DEF Posts

(* The same for a request appended alone.                                  *)
LEMMA AppendPost ==
    ASSUME Shape, NEW x \in Sessions, NEW r \in ReqShape, r.ids = {x},
           r.k \notin {"none", "erase"}, apiQ' = Append(apiQ, r)
    PROVE  /\ Opens' = Opens /\ Posted(x)' = Posted(x) + 1
           /\ \A s \in Sessions \ {x} : Posted(s)' = Posted(s)
<1>1. apiQ \in Seq(ReqShape)
  BY DEF Shape, AdapterOK
<1>2. <<>> \in Seq(ReqShape) /\ Silent(<<>>)
  BY EmptySeq DEF Silent
<1>3. apiQ \o <<r>> \in Seq(ReqShape)
  BY <1>1, ConcatProperties
<1>4. apiQ' = apiQ \o <<r>> \o <<>>
  BY <1>1, <1>3, AppendIsConcat, ConcatEmptySeq
<1> QED
  BY <1>2, <1>4, RequestPost

-----------------------------------------------------------------------------
(* Commands.  n is 1 for a command just received and 0 for a kept one.     *)

(* A command for session x settles what it adds to the account: it is      *)
(* answered at once, or a request or a kept command will answer it.  Only  *)
(* a refused start (mute) leaves the client waiting.                       *)
Balance(x, mute, n) ==
    /\ Opens' = Opens
    /\ capsKnown => UNCHANGED mPendingMsgs
    /\ \A s \in Sessions \ {x} : /\ owed'[s] = owed[s]
                                 /\ Posted(s)' = Posted(s) /\ Kept(s)' = Kept(s)
    /\ IF Owner[x] \in clients
       THEN LET gain == (owed'[x] - Posted(x)' - Kept(x)')
                        - (owed[x] - Posted(x) - Kept(x))
            IN \/ gain = n - 1
               \/ gain = n /\ mute
       ELSE owed'[x] = owed[x]

(* A command that stays in mPendingMsgs.                                   *)
LEMMA KeepPost ==
    ASSUME Shape, flushes = 0, UNCHANGED flushes,
           NEW x \in Sessions, NEW m \in CmdShape, m.ids = {x},
           mPendingMsgs' = Append(mPendingMsgs, m)
    PROVE  /\ Kept(x)' = Kept(x) + 1
           /\ \A s \in Sessions \ {x} : Kept(s)' = Kept(s)
<1>1. mPendingMsgs \in Seq(CmdShape)
  BY DEF Shape, AdapterOK
<1>2. m \in MsgFor(x) /\ \A s \in Sessions \ {x} : m \notin MsgFor(s)
  BY DEF CmdShape, MsgFor
<1>3. \A P : /\ Count(mPendingMsgs', P) = Count(mPendingMsgs, P) + (IF m \in P THEN 1 ELSE 0)
             /\ Count(mPendingMsgs, P) \in Nat
  BY <1>1, CountAppend, CountFinite
<1> QED
  BY <1>2, <1>3 DEF Kept

(* What Owed does to the answers owed.                                     *)
LEMMA OwedFacts ==
    ASSUME Shape, NEW x \in Sessions, NEW n \in {0, 1}, NEW now \in BOOLEAN,
           owed' = Owed(x, n, now)
    PROVE  /\ \A s \in Sessions \ {x} : owed'[s] = owed[s]
           /\ Owner[x] \in clients => owed'[x] = owed[x] + n - (IF now THEN 1 ELSE 0)
           /\ Owner[x] \notin clients => owed'[x] = owed[x]
BY DEF Owed, Shape, AdapterOK

(* The three ways in which a handler can leave the ledger.                 *)
LEMMA BalanceCases ==
    ASSUME Shape, UNCHANGED flushes, NEW x \in Sessions, NEW mute \in BOOLEAN, NEW n \in {0, 1},
           NEW now \in BOOLEAN, owed' = Owed(x, n, now), Opens' = Opens,
           UNCHANGED mPendingMsgs,
           \A s \in Sessions \ {x} : Posted(s)' = Posted(s)
    PROVE  /\ Posted(x)' = Posted(x) + (IF now THEN 0 ELSE 1) => Balance(x, mute, n)
           /\ ~now /\ Posted(x)' = Posted(x)
                /\ (Owner[x] \in clients => mute) => Balance(x, mute, n)
<1>1. \A s \in Sessions : Kept(s)' = Kept(s)
  BY DEF Kept
<1>2. \A s \in Sessions : Posted(s) \in Nat /\ Kept(s) \in Nat
  BY DueTypes
<1>3. /\ \A s \in Sessions \ {x} : owed'[s] = owed[s]
      /\ Owner[x] \in clients => owed'[x] = owed[x] + n - (IF now THEN 1 ELSE 0)
      /\ Owner[x] \notin clients => owed'[x] = owed[x]
  BY OwedFacts
<1>4. owed[x] \in Int
  BY DEF Shape, AdapterOK
<1>5. ASSUME Posted(x)' = Posted(x) + (IF now THEN 0 ELSE 1) PROVE Balance(x, mute, n)
  BY <1>1, <1>2, <1>3, <1>4, <1>5 DEF Balance
<1>6. ASSUME ~now, Posted(x)' = Posted(x), Owner[x] \in clients => mute
      PROVE  Balance(x, mute, n)
  BY <1>1, <1>2, <1>3, <1>4, <1>6 DEF Balance
<1> QED
  BY <1>5, <1>6

(* Missing callbacks or options of size 0.                                 *)
MayRefuse(o) == Mute # {} \/ o = NoOpt

(* MsgStartTracking::proc settles its account.                             *)
LEMMA StartBalance ==
    ASSUME Shape, UNCHANGED flushes, capsKnown \/ flushes = 0,
           NEW s \in Sessions, NEW o \in OptOrNone, NEW n \in {0, 1},
           StartTracking(s, o, n)
    PROVE  Balance(s, MayRefuse(o), n)
<1>e. <<>> \in Seq(ReqShape) /\ Silent(<<>>)
  BY EmptySeq DEF Silent
<1>b. MayRefuse(o) \in BOOLEAN
  BY DEF MayRefuse
<1>1. CASE StartKept(s, o, n)
  <2> DEFINE m == Message("startCmd", {s}, o, TRUE)
  <2>1. o \in TrackingOptions /\ ~capsKnown /\ flushes = 0
    BY <1>1 DEF StartKept, MustWait, OptOrNone
  <2>2. m \in CmdShape /\ m.ids = {s}
    BY <2>1, CmdMessages DEF Message
  <2>3. mPendingMsgs' = Append(mPendingMsgs, m) /\ owed' = Owed(s, n, FALSE) /\ UNCHANGED apiQ
    BY <1>1 DEF StartKept
  <2> HIDE DEF m
  <2>4. Kept(s)' = Kept(s) + 1 /\ \A x \in Sessions \ {s} : Kept(x)' = Kept(x)
    BY <2>1, <2>2, <2>3, KeepPost
  <2>5. Opens' = Opens /\ \A x \in Sessions : Posted(x)' = Posted(x)
    BY <2>3 DEF Opens, Posted
  <2>6. /\ \A x \in Sessions \ {s} : owed'[x] = owed[x]
        /\ Owner[s] \in clients => owed'[s] = owed[s] + n - 0
        /\ Owner[s] \notin clients => owed'[s] = owed[s]
    BY <2>3, OwedFacts
  <2>7. Posted(s) \in Nat /\ Kept(s) \in Nat /\ owed[s] \in Int
    BY DueTypes DEF Shape, AdapterOK
  <2> QED
    BY <2>1, <2>4, <2>5, <2>6, <2>7 DEF Balance
<1>2. CASE StartRefused(s, o, n)
  <2>1. /\ owed' = Owed(s, n, FALSE) /\ UNCHANGED <<apiQ, mPendingMsgs>>
        /\ Owner[s] \in clients => MayRefuse(o)
    BY <1>2 DEF StartRefused, MayRefuse
  <2>2. Opens' = Opens /\ \A x \in Sessions : Posted(x)' = Posted(x)
    BY <2>1 DEF Opens, Posted
  <2> QED
    BY <2>1, <2>2, <1>b, BalanceCases
<1>3. CASE StartDistance(s, o, n)
  <2> DEFINE r == Request("startDbt", {s}, NoOpt, "dbtStart", NoOpt)
  <2>1. /\ owed' = Owed(s, n, FALSE) /\ UNCHANGED mPendingMsgs
        /\ apiQ' = Append(apiQ, r) /\ o \in TrackingOptions
    BY <1>3 DEF StartDistance, StartAllowed, OptOrNone
  <2>2. r \in ReqShape /\ r.ids = {s} /\ r.k \notin {"none", "erase"}
    BY <2>1, DistanceRequests DEF Request
  <2> HIDE DEF r
  <2>3. /\ Opens' = Opens /\ Posted(s)' = Posted(s) + 1
        /\ \A x \in Sessions \ {s} : Posted(x)' = Posted(x)
    BY <2>1, <2>2, AppendPost
  <2> QED
    BY <2>1, <2>3, <1>b, BalanceCases
<1>4. CASE StartTime(s, o, n)
  <2> DEFINE p == M2Fallback(Clamped(o))
             out == StartMultiplex(s, p)
  <2>1. p \in TrackingOptions
    BY <1>4, ClampedOptions DEF StartTime, StartAllowed, OptOrNone
  <2>2. Post(out, <<>>) /\ owed' = Owed(s, n, out.now) /\ UNCHANGED mPendingMsgs
    BY <1>4 DEF StartTime
  <2>3. Posts(out, s, {"start"})
    BY <2>1, MultiplexPosts
  <2> HIDE DEF out, p
  <2>4. /\ Opens' = Opens /\ Posted(s)' = Posted(s) + (IF out.now THEN 0 ELSE 1)
        /\ \A x \in Sessions \ {s} : Posted(x)' = Posted(x)
    BY <1>e, <2>2, <2>3, OutcomePost
  <2>5. out.now \in BOOLEAN
    BY <2>3 DEF Posts
  <2> QED
    BY <2>2, <2>4, <2>5, <1>b, BalanceCases
<1> QED
  BY <1>1, <1>2, <1>3, <1>4 DEF StartTracking

(* MsgUpdateTracking::proc settles its account.                            *)
LEMMA UpdateBalance ==
    ASSUME Shape, UNCHANGED flushes, capsKnown \/ flushes = 0,
           NEW s \in Sessions, NEW o \in OptOrNone, NEW n \in {0, 1},
           UpdateTracking(s, o, n)
    PROVE  Balance(s, FALSE, n)
<1>e. <<>> \in Seq(ReqShape) /\ Silent(<<>>)
  BY EmptySeq DEF Silent
<1> DEFINE p == M2Fallback(Clamped(o))
<1>a. UpdateAllowed(s, o) => o \in TrackingOptions /\ p \in TrackingOptions
  BY ClampedOptions DEF UpdateAllowed, OptOrNone
<1>r. ASSUME NEW r \in ReqShape, r.ids = {s}, r.k \notin {"none", "erase"},
             apiQ' = Append(apiQ, r), owed' = Owed(s, n, FALSE), UNCHANGED mPendingMsgs
      PROVE  Balance(s, FALSE, n)
  <2>1. /\ Opens' = Opens /\ Posted(s)' = Posted(s) + 1
        /\ \A x \in Sessions \ {s} : Posted(x)' = Posted(x)
    BY <1>r, AppendPost
  <2> QED
    BY <1>r, <2>1, BalanceCases
<1>q. ASSUME NEW out, NEW K, Posts(out, s, K), "none" \notin K, "erase" \notin K,
             NEW q \in Seq(ReqShape), Silent(q), Post(out, q),
             owed' = Owed(s, n, out.now), UNCHANGED mPendingMsgs
      PROVE  Balance(s, FALSE, n)
  <2>1. /\ Opens' = Opens /\ Posted(s)' = Posted(s) + (IF out.now THEN 0 ELSE 1)
        /\ \A x \in Sessions \ {s} : Posted(x)' = Posted(x)
    BY <1>q, OutcomePost
  <2>2. out.now \in BOOLEAN
    BY <1>q DEF Posts
  <2> QED
    BY <1>q, <2>1, <2>2, BalanceCases
<1>1. CASE UpdateKept(s, o, n)
  <2> DEFINE m == Message("updateCmd", {s}, o, TRUE)
  <2>1. o \in TrackingOptions /\ ~capsKnown /\ flushes = 0
    BY <1>1 DEF UpdateKept, MustWait, OptOrNone
  <2>2. m \in CmdShape /\ m.ids = {s}
    BY <2>1, CmdMessages DEF Message
  <2>3. mPendingMsgs' = Append(mPendingMsgs, m) /\ owed' = Owed(s, n, FALSE) /\ UNCHANGED apiQ
    BY <1>1 DEF UpdateKept
  <2> HIDE DEF m
  <2>4. Kept(s)' = Kept(s) + 1 /\ \A x \in Sessions \ {s} : Kept(x)' = Kept(x)
    BY <2>1, <2>2, <2>3, KeepPost
  <2>5. Opens' = Opens /\ \A x \in Sessions : Posted(x)' = Posted(x)
    BY <2>3 DEF Opens, Posted
  <2>6. /\ \A x \in Sessions \ {s} : owed'[x] = owed[x]
        /\ Owner[s] \in clients => owed'[s] = owed[s] + n - 0
        /\ Owner[s] \notin clients => owed'[s] = owed[s]
    BY <2>3, OwedFacts
  <2>7. Posted(s) \in Nat /\ Kept(s) \in Nat /\ owed[s] \in Int
    BY DueTypes DEF Shape, AdapterOK
  <2> QED
    BY <2>1, <2>4, <2>5, <2>6, <2>7 DEF Balance
<1>2. CASE UpdateRefused(s, o, n)
  <2>1. owed' = Owed(s, n, TRUE) /\ UNCHANGED <<apiQ, mPendingMsgs>>
    BY <1>2 DEF UpdateRefused
  <2>2. Opens' = Opens /\ \A x \in Sessions : Posted(x)' = Posted(x)
    BY <2>1 DEF Opens, Posted
  <2>3. Posted(s)' = Posted(s) + 0
    BY <2>2, DueTypes
  <2> QED
    BY <2>1, <2>2, <2>3, BalanceCases
<1>3. CASE UpdateToDistance(s, o, n)
  <2> DEFINE out == StopMultiplex(s)
             a == Request("startDbt", {s}, NoOpt, "none", NoOpt)
             more == <<a>>
  <2>1. /\ UpdateAllowed(s, o) /\ Post(out, more)
        /\ owed' = Owed(s, n, out.now) /\ UNCHANGED mPendingMsgs
    BY <1>3 DEF UpdateToDistance
  <2>2. a \in ReqShape /\ a.k = "none" /\ a.op # "open"
    BY <1>a, <2>1, DistanceRequests DEF Request
  <2>3. more \in Seq(ReqShape) /\ Silent(more)
    <3> HIDE DEF a
    <3> QED
      BY <2>2 DEF Silent
  <2>4. Posts(out, s, {"start", "stop"})
    BY MultiplexPosts
  <2> HIDE DEF out, p, more
  <2> QED
    BY <1>q, <2>1, <2>3, <2>4
<1>4. CASE UpdateToTime(s, o, n)
  <2> DEFINE r == Request("stopDbt", {s}, NoOpt, "switch", p)
  <2>1. /\ UpdateAllowed(s, o) /\ apiQ' = Append(apiQ, r)
        /\ UNCHANGED mPendingMsgs /\ owed' = Owed(s, n, FALSE)
    BY <1>4 DEF UpdateToTime
  <2>2. r \in ReqShape /\ r.ids = {s} /\ r.k \notin {"none", "erase"}
    <3> HIDE DEF p
    <3> QED
      BY <1>a, <2>1, DistanceRequests DEF Request
  <2> HIDE DEF r
  <2> QED
    BY <1>r, <2>1, <2>2
<1>5. CASE UpdateTime(s, o, n)
  <2> DEFINE out == UpdateMultiplex(s, p)
  <2>1. /\ UpdateAllowed(s, o) /\ s \in TimeSet /\ Post(out, <<>>)
        /\ owed' = Owed(s, n, out.now) /\ UNCHANGED mPendingMsgs
    BY <1>5 DEF UpdateTime
  <2> HIDE DEF p
  <2>2. Posts(out, s, {"update"})
    BY <1>a, <2>1, MultiplexPosts
  <2> HIDE DEF out
  <2> QED
    BY <1>e, <1>q, <2>1, <2>2
<1>6. CASE UpdateDistance(s, o, n)
  <2> DEFINE r == Request("stopDbt", {s}, NoOpt, "restart", p)
  <2>1. /\ UpdateAllowed(s, o) /\ apiQ' = Append(apiQ, r)
        /\ UNCHANGED mPendingMsgs /\ owed' = Owed(s, n, FALSE)
    BY <1>6 DEF UpdateDistance
  <2>2. r \in ReqShape /\ r.ids = {s} /\ r.k \notin {"none", "erase"}
    <3> HIDE DEF p
    <3> QED
      BY <1>a, <2>1, DistanceRequests DEF Request
  <2> HIDE DEF r
  <2> QED
    BY <1>r, <2>1, <2>2
<1> QED
  BY <1>1, <1>2, <1>3, <1>4, <1>5, <1>6 DEF UpdateTracking

-----------------------------------------------------------------------------
(* The ledger.                                                             *)

(* The engine is open when the clients start, or the modem never restarts: *)
(* otherwise the commands kept in mPendingMsgs are sent, and answered, at  *)
(* every engine-up event.                                                  *)
OneStart == CapsAtStart \/ ~CanRestart

Boot ==
    /\ CapsAtStart => capsKnown /\ mPendingMsgs = <<>>
    /\ ~CanRestart => Opens + Ups <= 1 /\ (capsKnown => Opens + Ups = 0)
    /\ flushes > 0 => capsKnown
    /\ removing \in clients \cup {NoClient}

(* A client that is neither gone nor being removed is owed what is under   *)
(* way for its session (or more, after a refused start); one that is gone  *)
(* is owed nothing.                                                        *)
Account(s) ==
    /\ Owner[s] \notin clients => owed[s] = 0
    /\ Owner[s] = removing => owed[s] >= 0
    /\ Owner[s] \in clients \ {removing} =>
         /\ owed[s] >= Due(s)
         /\ Mute = {} /\ ~Careless => owed[s] = Due(s)
Accounts == \A s \in Sessions : Account(s)

(* What the steps do to one account: nothing,                              *)
LEMMA AccountKept ==
    ASSUME NEW s \in Sessions, Account(s), UNCHANGED <<clients, removing>>,
           owed'[s] = owed[s], Due(s)' = Due(s)
    PROVE  Account(s)'
BY DEF Account

(* or a change that balances.                                              *)
LEMMA AccountBalanced ==
    ASSUME Shape, Shape', NEW s \in Sessions, Account(s),
           UNCHANGED <<clients, removing>>, removing = NoClient,
           Owner[s] \in clients =>
              \/ owed'[s] - Due(s)' = owed[s] - Due(s)
              \/ /\ owed'[s] - Due(s)' = owed[s] - Due(s) + 1
                 /\ Mute # {} \/ Careless,
           Owner[s] \notin clients => owed'[s] = owed[s]
    PROVE  Account(s)'
<1>1. Due(s) \in Nat /\ owed[s] \in Int
  BY DueTypes DEF Shape, AdapterOK
<1>2. Due(s)' \in Nat /\ owed'[s] \in Int
  BY DueTypesNext
<1>3. Owner[s] # NoClient
  BY TrackingAssumption
<1>4. CASE Owner[s] \in clients
  <2>1. owed[s] >= Due(s)
    BY <1>3, <1>4 DEF Account
  <2>2. owed'[s] >= Due(s)'
    BY <1>1, <1>2, <1>4, <2>1
  <2>3. ASSUME Mute = {}, ~Careless PROVE owed'[s] = Due(s)'
    BY <1>1, <1>2, <1>3, <1>4, <2>3 DEF Account
  <2> QED
    BY <1>3, <1>4, <2>2, <2>3 DEF Account
<1>5. CASE Owner[s] \notin clients
  BY <1>3, <1>5 DEF Account
<1> QED
  BY <1>4, <1>5

(* Taking a message off the adapter's queue.                               *)
LEMMA HandleCounts ==
    ASSUME Shape, adQ # <<>>, adQ' = Tail(adQ)
    PROVE  /\ Head(adQ).k # "engineUp" => Ups' = Ups
           /\ Head(adQ).k = "engineUp" => Ups = Ups' + 1 /\ Ups' \in Nat
           /\ \A s \in Sessions :
                /\ Answers(s)' \in Nat
                /\ Answers(s) = Answers(s)' +
                     (IF Head(adQ).k \notin {"erase", "engineUp"} /\ s \in Head(adQ).ids
                      THEN 1 ELSE 0)
<1>1. adQ \in Seq(MsgShape) /\ Head(adQ) \in MsgShape /\ Tail(adQ) \in Seq(MsgShape)
  BY HeadTailProperties DEF Shape, OtherOK
<1>2. \A P : /\ Count(adQ, P) = Count(adQ', P) + (IF Head(adQ) \in P THEN 1 ELSE 0)
             /\ Count(adQ', P) \in Nat
  BY <1>1, CountTail, CountFinite
<1>3. Head(adQ) \in UpMsg <=> Head(adQ).k = "engineUp"
  BY <1>1 DEF UpMsg
<1>4. ASSUME NEW s \in Sessions
      PROVE  Head(adQ) \in MsgFor(s)
                <=> Head(adQ).k \notin {"erase", "engineUp"} /\ s \in Head(adQ).ids
  BY <1>1 DEF MsgFor
<1>5. Ups = Ups' + (IF Head(adQ) \in UpMsg THEN 1 ELSE 0) /\ Ups' \in Nat
  BY <1>2 DEF Ups
<1>6. ASSUME NEW s \in Sessions
      PROVE  /\ Answers(s)' \in Nat
             /\ Answers(s) = Answers(s)' + (IF Head(adQ) \in MsgFor(s) THEN 1 ELSE 0)
  BY <1>2 DEF Answers
<1>7. ASSUME NEW s \in Sessions
      PROVE  /\ Answers(s)' \in Nat
             /\ Answers(s) = Answers(s)' +
                     (IF Head(adQ).k \notin {"erase", "engineUp"} /\ s \in Head(adQ).ids
                      THEN 1 ELSE 0)
  BY <1>4, <1>6
<1>8. ASSUME Head(adQ).k # "engineUp" PROVE Ups' = Ups
  <2>1. Ups = Ups' + 0 /\ Ups' \in Nat
    BY <1>3, <1>5, <1>8
  <2> QED
    BY <2>1 DEF Ups
<1>9. Head(adQ).k = "engineUp" => Ups = Ups' + 1 /\ Ups' \in Nat
  BY <1>3, <1>5
<1> QED
  BY <1>7, <1>8, <1>9

(* A response whose handler answers the client, or starts what will.       *)
LEMMA ResponseStep ==
    ASSUME Shape, Shape', Boot, Accounts, NEW k, Handle(k),
           k \notin {"erase", "engineUp"},
           UNCHANGED <<mPendingMsgs, capsKnown>>, Opens' = Opens,
           NEW x \in Sessions, Head(adQ).ids = {x},
           \A s \in Sessions \ {x} : Posted(s)' = Posted(s) /\ owed'[s] = owed[s],
           Owner[x] \in clients => owed'[x] - Posted(x)' = owed[x] - Posted(x) - 1,
           Owner[x] \notin clients => owed'[x] = owed[x]
    PROVE  Boot' /\ Accounts'
<1>1. /\ adQ # <<>> /\ adQ' = Tail(adQ) /\ Head(adQ).k = k /\ removing = NoClient
      /\ UNCHANGED <<clients, removing, flushes>>
  BY DEF Handle, AdapterIdle, histVars
<1>2. /\ Ups' = Ups
      /\ \A s \in Sessions : /\ Answers(s)' \in Nat
                             /\ Answers(s) = Answers(s)' + (IF s = x THEN 1 ELSE 0)
  BY <1>1, HandleCounts
<1>3. Boot'
  BY <1>1, <1>2 DEF Boot
<1>4. \A s \in Sessions : Kept(s)' = Kept(s)
  BY <1>1 DEF Kept
<1>5. \A s \in Sessions : /\ Posted(s) \in Nat /\ Kept(s) \in Nat /\ Answers(s) \in Nat
                          /\ owed[s] \in Int
  BY DueTypes DEF Shape, AdapterOK
<1>6. ASSUME NEW s \in Sessions \ {x} PROVE Account(s)'
  <2>1. Due(s)' = Due(s)
    BY <1>2, <1>4, <1>5 DEF Due
  <2> QED
    BY <1>1, <2>1, AccountKept DEF Accounts
<1>7. Account(x)'
  <2>1. /\ Answers(x) = Answers(x)' + 1 /\ Kept(x)' = Kept(x) /\ Answers(x)' \in Nat
    BY <1>2, <1>4
  <2>2. Posted(x)' \in Nat /\ owed'[x] \in Int
    BY DueTypesNext
  <2>3. Owner[x] \in clients => owed'[x] - Due(x)' = owed[x] - Due(x)
    BY <1>5, <2>1, <2>2 DEF Due
  <2> QED
    BY <1>1, <2>3, AccountBalanced DEF Accounts
<1> QED
  BY <1>3, <1>6, <1>7 DEF Accounts

(* A step that leaves the ledger alone.                                    *)
LEMMA LedgerKept ==
    ASSUME Boot, Accounts, UNCHANGED <<clients, removing, owed, capsKnown,
                                       mPendingMsgs, flushes>>,
           Opens' + Ups' = Opens + Ups \/ Opens' + Ups' = 0 \/ CanRestart,
           \A s \in Sessions : Posted(s)' + Answers(s)' = Posted(s) + Answers(s)
    PROVE  Boot' /\ Accounts'
<1>1. Boot'
  BY DEF Boot
<1>2. ASSUME NEW s \in Sessions PROVE Account(s)'
  <2>1. Kept(s)' = Kept(s)
    BY DEF Kept
  <2>2. Due(s)' = Due(s)
    BY <2>1 DEF Due
  <2> QED
    BY <2>2, AccountKept DEF Accounts
<1> QED
  BY <1>1, <1>2 DEF Accounts

(* No step disturbs the ledger.                                            *)
LEMMA LedgerStep ==
    ASSUME OneStart, Shape, Shape', Boot, Accounts, [Next]_vars
    PROVE  Boot' /\ Accounts'
<1>0. \A s \in Sessions : /\ Posted(s) \in Nat /\ Kept(s) \in Nat /\ Answers(s) \in Nat
                          /\ owed[s] \in Int /\ Due(s) \in Nat
                          /\ Owner[s] \in Clients /\ Owner[s] # NoClient
  BY DueTypes, TrackingAssumption DEF Shape, AdapterOK
<1>n. /\ \A s \in Sessions : /\ Posted(s)' \in Nat /\ Answers(s)' \in Nat
                             /\ Kept(s)' \in Nat /\ Due(s)' \in Nat
                             /\ owed'[s] \in Int
  BY DueTypesNext
<1>t. Opens \in Nat /\ Ups \in Nat /\ apiQ \in Seq(ReqShape) /\ adQ \in Seq(MsgShape)
  BY DueTypes DEF Shape, AdapterOK, OtherOK
<1>e. <<>> \in Seq(ReqShape) /\ Silent(<<>>)
  BY EmptySeq DEF Silent
<1>f. capsKnown \/ flushes = 0
  BY DEF Boot, Shape, OtherOK
<1>c. ASSUME NEW x \in Sessions, NEW mute \in BOOLEAN, Balance(x, mute, 1),
             mute => Mute # {} \/ Careless, AdapterIdle,
             UNCHANGED <<capsKnown, clients, removing, adQ, flushes>>
      PROVE  Boot' /\ Accounts'
  <2>1. Boot'
    BY <1>c DEF Boot, Balance, Ups
  <2>2. \A s \in Sessions : Answers(s)' = Answers(s)
    BY <1>c DEF Answers
  <2>3. ASSUME NEW s \in Sessions \ {x} PROVE Account(s)'
    <3>1. Due(s)' = Due(s) /\ owed'[s] = owed[s]
      BY <1>c, <2>2 DEF Due, Balance
    <3> QED
      BY <1>c, <3>1, AccountKept DEF Accounts
  <2>4. Account(x)'
    <3>1. ASSUME Owner[x] \in clients
          PROVE  \/ owed'[x] - Due(x)' = owed[x] - Due(x)
                 \/ owed'[x] - Due(x)' = owed[x] - Due(x) + 1 /\ mute
      <4>1. LET gain == (owed'[x] - Posted(x)' - Kept(x)')
                        - (owed[x] - Posted(x) - Kept(x))
            IN gain = 1 - 1 \/ (gain = 1 /\ mute)
        BY <1>c, <3>1 DEF Balance
      <4>2. Answers(x)' = Answers(x)
        BY <2>2
      <4> QED
        BY <1>0, <1>n, <4>1, <4>2 DEF Due
    <3>2. Owner[x] \notin clients => owed'[x] = owed[x]
      BY <1>c DEF Balance
    <3> QED
      BY <1>c, <3>1, <3>2, AccountBalanced DEF Accounts, AdapterIdle
  <2> QED
    BY <2>1, <2>3, <2>4 DEF Accounts
<1>1. ASSUME NEW s \in Sessions, NEW o \in Options \cup {NoOpt}, Start(s, o)
      PROVE  Boot' /\ Accounts'
  <2>1. /\ StartTracking(s, o, 1) /\ AdapterIdle /\ (o = NoOpt => Careless)
        /\ UNCHANGED <<capsKnown, clients, removing, adQ, flushes>>
    BY <1>1 DEF Start
  <2>2. o \in OptOrNone
    BY TrackingAssumption DEF OptOrNone
  <2>3. Balance(s, MayRefuse(o), 1)
    BY <1>f, <2>1, <2>2, StartBalance
  <2>4. MayRefuse(o) \in BOOLEAN /\ (MayRefuse(o) => Mute # {} \/ Careless)
    BY <2>1 DEF MayRefuse
  <2> QED
    BY <1>c, <2>1, <2>3, <2>4
<1>2. ASSUME NEW s \in Sessions, NEW o \in Options \cup {NoOpt}, Update(s, o)
      PROVE  Boot' /\ Accounts'
  <2>1. /\ UpdateTracking(s, o, 1) /\ AdapterIdle
        /\ UNCHANGED <<capsKnown, clients, removing, adQ, flushes>>
    BY <1>2 DEF Update
  <2>2. o \in OptOrNone
    BY TrackingAssumption DEF OptOrNone
  <2>3. Balance(s, FALSE, 1)
    BY <1>f, <2>1, <2>2, UpdateBalance
  <2> QED
    BY <1>c, <2>1, <2>3
<1>3. ASSUME NEW s \in Sessions, Stop(s) PROVE Boot' /\ Accounts'
  <2>1. /\ AdapterIdle
        /\ UNCHANGED <<mPendingMsgs, capsKnown, clients, removing, adQ, flushes>>
    BY <1>3 DEF Stop
  <2>2. CASE StopUnknown(s)
    <3>1. \A x \in Sessions : Posted(x)' = Posted(x) /\ Answers(x)' = Answers(x)
      BY <2>1, <2>2 DEF StopUnknown, Posted, Answers
    <3>2. Opens' = Opens /\ Ups' = Ups
      BY <2>1, <2>2 DEF StopUnknown, Opens, Ups
    <3> QED
      BY <2>1, <2>2, <3>1, <3>2, LedgerKept DEF StopUnknown
  <2>3. CASE StopTime(s)
    <3> DEFINE out == StopMultiplex(s)
    <3>1. Post(out, <<>>) /\ owed' = Owed(s, 1, out.now)
      BY <2>3 DEF StopTime
    <3>2. Posts(out, s, {"start", "stop"})
      BY MultiplexPosts
    <3> HIDE DEF out
    <3>3. /\ Opens' = Opens /\ Posted(s)' = Posted(s) + (IF out.now THEN 0 ELSE 1)
          /\ \A x \in Sessions \ {s} : Posted(x)' = Posted(x)
      BY <1>e, <3>1, <3>2, OutcomePost
    <3>4. out.now \in BOOLEAN
      BY <3>2 DEF Posts
    <3>5. Balance(s, FALSE, 1)
      BY <2>1, <3>1, <3>3, <3>4, BalanceCases
    <3> QED
      BY <1>c, <2>1, <3>5
  <2>4. CASE StopDistance(s)
    <3> DEFINE r == Request("stopDbt", {s}, NoOpt, "dbtStop", NoOpt)
    <3>1. apiQ' = Append(apiQ, r) /\ owed' = Owed(s, 1, FALSE)
      BY <2>4 DEF StopDistance
    <3>2. r \in ReqShape /\ r.ids = {s} /\ r.k \notin {"none", "erase"}
      <4>1. dist[s] \in TrackingOptions
        BY <2>4 DEF StopDistance, DistSet, Shape, AdapterOK, Tables, OptOrNone
      <4> QED
        BY <4>1, DistanceRequests DEF Request
    <3> HIDE DEF r
    <3>3. /\ Opens' = Opens /\ Posted(s)' = Posted(s) + 1
          /\ \A x \in Sessions \ {s} : Posted(x)' = Posted(x)
      BY <3>1, <3>2, AppendPost
    <3>4. Balance(s, FALSE, 1)
      BY <2>1, <3>1, <3>3, BalanceCases
    <3> QED
      BY <1>c, <2>1, <3>4
  <2> QED
    BY <1>3, <2>2, <2>3, <2>4 DEF Stop
<1>4. ASSUME NEW c \in Clients, RemoveClient(c) PROVE Boot' /\ Accounts'
  <2>1. /\ removing = NoClient /\ removing' = c /\ c \in clients
        /\ UNCHANGED <<apiQ, adQ, mPendingMsgs, capsKnown, clients, owed, flushes>>
    BY <1>4 DEF RemoveClient, AdapterIdle
  <2>2. Boot'
    BY <2>1 DEF Boot, Opens, Ups
  <2>3. ASSUME NEW s \in Sessions PROVE Account(s)'
    <3>1. Due(s)' = Due(s)
      BY <2>1 DEF Due, Posted, Answers, Kept
    <3> QED
      BY <1>0, <2>1, <3>1 DEF Accounts, Account
  <2> QED
    BY <2>2, <2>3 DEF Accounts
<1>5. ASSUME NEW s \in Sessions, RemoveTime(s) PROVE Boot' /\ Accounts'
  <2> DEFINE out == StopMultiplex(s)
  <2>1. /\ Post(out, <<>>) /\ Owner[s] = removing
        /\ UNCHANGED <<mPendingMsgs, owed, capsKnown, clients, removing, adQ, flushes>>
    BY <1>5 DEF RemoveTime, histVars, Owned
  <2>2. Posts(out, s, {"start", "stop"})
    BY MultiplexPosts
  <2> HIDE DEF out
  <2>3. /\ Opens' = Opens
        /\ \A x \in Sessions \ {s} : Posted(x)' = Posted(x)
    BY <1>e, <2>1, <2>2, OutcomePost
  <2>4. Boot'
    BY <2>1, <2>3 DEF Boot, Ups
  <2>5. ASSUME NEW x \in Sessions \ {s} PROVE Account(x)'
    <3>1. Due(x)' = Due(x)
      BY <2>1, <2>3 DEF Due, Answers, Kept
    <3> QED
      BY <2>1, <3>1, AccountKept DEF Accounts
  <2>6. Account(s)'
    <3>1. Owner[s] \in clients
      BY <1>0, <2>1 DEF Boot
    <3> QED
      BY <2>1, <3>1 DEF Accounts, Account
  <2> QED
    BY <2>4, <2>5, <2>6 DEF Accounts
<1>6. CASE RemoveRest
  <2> DEFINE mine == Owned(removing) \cap DistSet
             r == Request("stopDbt", mine, NoOpt, "erase", NoOpt)
  <2>1. /\ apiQ' = apiQ \/ apiQ' = Append(apiQ, r)
        /\ removing # NoClient /\ clients' = clients \ {removing} /\ removing' = NoClient
        /\ owed' = [s \in Sessions |-> IF s \in Owned(removing) THEN 0 ELSE owed[s]]
        /\ UNCHANGED <<mPendingMsgs, capsKnown, adQ, flushes>>
    BY <1>6 DEF RemoveRest, histVars
  <2>2. r \in ReqShape /\ r.k = "erase" /\ r.op = "stopDbt"
    <3>1. r \in Requests
      BY DEF Request, Requests, OptOrNone, RespKinds, DistSet
    <3> QED
      BY <3>1 DEF Request, ReqShape, Carriers
  <2> HIDE DEF r
  <2>3. Opens' = Opens /\ \A s \in Sessions : Posted(s)' = Posted(s)
    <3>1. CASE apiQ' = apiQ
      BY <3>1 DEF Opens, Posted
    <3>2. CASE apiQ' = Append(apiQ, r)
      <4>1. ASSUME NEW P, r \notin P PROVE Count(apiQ', P) = Count(apiQ, P)
        <5>1. Count(apiQ', P) = Count(apiQ, P) + 0 /\ Count(apiQ, P) \in Nat
          BY <1>t, <2>2, <3>2, <4>1, CountAppend, CountFinite
        <5> QED
          BY <5>1
      <4>2. r \notin OpenReq /\ \A s \in Sessions : r \notin ReqFor(s)
        BY <2>2 DEF OpenReq, ReqFor
      <4> QED
        BY <4>1, <4>2 DEF Opens, Posted
    <3> QED
      BY <2>1, <3>1, <3>2
  <2>4. Boot'
    BY <2>1, <2>3 DEF Boot, Ups
  <2>5. ASSUME NEW s \in Sessions PROVE Account(s)'
    <3>1. Due(s)' = Due(s)
      BY <2>1, <2>3 DEF Due, Answers, Kept
    <3>2. CASE Owner[s] = removing
      BY <1>0, <2>1, <3>2 DEF Account, Owned
    <3>3. CASE Owner[s] # removing
      BY <1>0, <2>1, <3>1, <3>3 DEF Accounts, Account, Owned
    <3> QED
      BY <3>2, <3>3
  <2> QED
    BY <2>4, <2>5 DEF Accounts
<1>h. ASSUME NEW k, Handle(k), k \notin {"erase", "engineUp"}, OnlySessions,
             \E s \in Head(adQ).ids : owed' = Owed(s, 0, TRUE)
      PROVE  Boot' /\ Accounts'
  <2>1. PICK s \in Sessions : Head(adQ).ids = {s}
    BY <1>h, HandleShape DEF MsgShape
  <2>2. owed' = Owed(s, 0, TRUE)
    BY <1>h, <2>1
  <2>3. /\ \A x \in Sessions \ {s} : owed'[x] = owed[x]
        /\ Owner[s] \in clients => owed'[s] = owed[s] + 0 - 1
        /\ Owner[s] \notin clients => owed'[s] = owed[s]
    BY <2>2, OwedFacts
  <2>4. UNCHANGED <<apiQ, mPendingMsgs, capsKnown>>
    BY <1>h DEF OnlySessions
  <2>5. Opens' = Opens /\ \A x \in Sessions : Posted(x)' = Posted(x)
    BY <2>4 DEF Opens, Posted
  <2>6. Owner[s] \in clients => owed'[s] - Posted(s)' = owed[s] - Posted(s) - 1
    BY <1>0, <2>3, <2>5
  <2> QED
    BY <1>h, <2>1, <2>3, <2>4, <2>5, <2>6, ResponseStep
<1>7. ASSUME NEW k \in {"start", "dbtStart"}, RespStart(k) PROVE Boot' /\ Accounts'
  <2>1. /\ Handle(k) /\ OnlySessions /\ k \notin {"erase", "engineUp"}
        /\ \E s \in Head(adQ).ids : owed' = Owed(s, 0, TRUE)
    BY <1>7 DEF RespStart
  <2> QED
    BY <1>h, <2>1
<1>8. CASE RespUpdate
  BY <1>h, <1>8 DEF RespUpdate
<1>9. CASE RespStop
  BY <1>h, <1>9 DEF RespStop
<1>10. CASE RespDistanceStop
  BY <1>h, <1>10 DEF RespDistanceStop
<1>11. CASE RespClientStop
  <2>1. Handle("erase") /\ OnlySessions /\ UNCHANGED owed
    BY <1>11 DEF RespClientStop
  <2>2. /\ adQ # <<>> /\ adQ' = Tail(adQ) /\ Head(adQ).k = "erase"
        /\ UNCHANGED <<clients, removing, flushes, apiQ, mPendingMsgs, capsKnown>>
    BY <2>1 DEF Handle, OnlySessions, histVars
  <2>3. Ups' = Ups /\ \A s \in Sessions : Answers(s) = Answers(s)' + 0
    BY <2>2, HandleCounts
  <2>4. Opens' = Opens /\ \A s \in Sessions : Posted(s)' = Posted(s)
    BY <2>2 DEF Opens, Posted
  <2>5. \A s \in Sessions : Posted(s)' + Answers(s)' = Posted(s) + Answers(s)
    BY <1>0, <1>n, <2>3, <2>4
  <2> QED
    BY <2>1, <2>2, <2>3, <2>4, <2>5, LedgerKept
<1>12. CASE RespSwitch
  <2>1. Handle("switch") /\ UNCHANGED <<capsKnown, mPendingMsgs>>
    BY <1>12 DEF RespSwitch
  <2>2. PICK s \in Sessions : Head(adQ).ids = {s}
    BY <2>1, HandleShape DEF MsgShape
  <2> DEFINE o == Head(adQ).o
             out == StartMultiplex(s, o)
  <2>3. Post(out, <<>>) /\ owed' = Owed(s, 0, out.now)
    BY <1>12, <2>2 DEF RespSwitch
  <2>4. o \in TrackingOptions
    BY <2>1, HandleShape DEF MsgShape, Carriers
  <2>5. Posts(out, s, {"start"})
    BY <2>4, MultiplexPosts
  <2> HIDE DEF out
  <2>6. /\ Opens' = Opens /\ Posted(s)' = Posted(s) + (IF out.now THEN 0 ELSE 1)
        /\ \A x \in Sessions \ {s} : Posted(x)' = Posted(x)
    BY <1>e, <2>3, <2>5, OutcomePost
  <2>7. out.now \in BOOLEAN
    BY <2>5 DEF Posts
  <2>8. /\ \A x \in Sessions \ {s} : owed'[x] = owed[x]
        /\ Owner[s] \in clients => owed'[s] = owed[s] + 0 - (IF out.now THEN 1 ELSE 0)
        /\ Owner[s] \notin clients => owed'[s] = owed[s]
    BY <2>3, <2>7, OwedFacts
  <2>9. Owner[s] \in clients => owed'[s] - Posted(s)' = owed[s] - Posted(s) - 1
    BY <1>0, <2>6, <2>7, <2>8
  <2> QED
    BY <2>1, <2>2, <2>6, <2>8, <2>9, ResponseStep
<1>13. CASE RespRestart
  <2>1. Handle("restart") /\ UNCHANGED <<capsKnown, mPendingMsgs, owed>>
    BY <1>13 DEF RespRestart
  <2>2. PICK s \in Sessions : Head(adQ).ids = {s}
    BY <2>1, HandleShape DEF MsgShape
  <2> DEFINE r == Request("startDbt", Head(adQ).ids, NoOpt, "restarted", Head(adQ).o)
  <2>3. Head(adQ).ok = TRUE /\ Head(adQ).o \in TrackingOptions
    <3>1. Head(adQ) \in MsgShape /\ Head(adQ).k = "restart"
      BY <2>1, HandleShape
    <3>2. Head(adQ).ok = TRUE
      BY <3>1 DEF MsgShape
    <3> QED
      BY <3>1, <3>2 DEF MsgShape, Carriers
  <2>4. apiQ' = Append(apiQ, r)
    BY <1>13, <2>3 DEF RespRestart
  <2>5. r \in ReqShape /\ r.ids = {s} /\ r.k \notin {"none", "erase"}
    BY <2>2, <2>3, DistanceRequests DEF Request
  <2> HIDE DEF r
  <2>6. /\ Opens' = Opens /\ Posted(s)' = Posted(s) + 1
        /\ \A x \in Sessions \ {s} : Posted(x)' = Posted(x)
    BY <2>4, <2>5, AppendPost
  <2>7. owed'[s] - Posted(s)' = owed[s] - Posted(s) - 1
    BY <1>0, <2>1, <2>6
  <2> QED
    BY <2>1, <2>2, <2>6, <2>7, ResponseStep
<1>14. CASE RespRestarted
  BY <1>h, <1>14 DEF RespRestarted
<1>p. ASSUME NEW k \in {"startCmd", "updateCmd"}, Handle(k), UNCHANGED capsKnown,
             NEW s \in Sessions, Head(adQ).ids = {s}, NEW mute \in BOOLEAN,
             Balance(s, mute, 0), mute => Mute # {}
      PROVE  Boot' /\ Accounts'
  <2>1. /\ adQ # <<>> /\ adQ' = Tail(adQ) /\ Head(adQ).k = k /\ removing = NoClient
        /\ UNCHANGED <<clients, removing, flushes>>
    BY <1>p DEF Handle, AdapterIdle, histVars
  <2>2. /\ Ups' = Ups
        /\ \A x \in Sessions : Answers(x) = Answers(x)' + (IF x = s THEN 1 ELSE 0)
    BY <1>p, <2>1, HandleCounts
  <2>3. Boot'
    BY <1>p, <2>1, <2>2 DEF Boot, Balance
  <2>4. ASSUME NEW x \in Sessions \ {s} PROVE Account(x)'
    <3>1. Answers(x) = Answers(x)' + 0 /\ owed'[x] = owed[x]
          /\ Posted(x)' = Posted(x) /\ Kept(x)' = Kept(x)
      BY <1>p, <2>2 DEF Balance
    <3>2. Due(x)' = Due(x)
      BY <1>0, <1>n, <3>1 DEF Due
    <3> QED
      BY <2>1, <3>1, <3>2, AccountKept DEF Accounts
  <2>5. Account(s)'
    <3>1. Answers(s) = Answers(s)' + 1
      BY <2>2
    <3>2. Owner[s] \in clients =>
              \/ owed'[s] - Due(s)' = owed[s] - Due(s)
              \/ owed'[s] - Due(s)' = owed[s] - Due(s) + 1 /\ mute
      BY <1>0, <1>n, <1>p, <3>1 DEF Due, Balance
    <3>3. Owner[s] \notin clients => owed'[s] = owed[s]
      BY <1>p DEF Balance
    <3> QED
      BY <1>p, <2>1, <3>2, <3>3, AccountBalanced DEF Accounts
  <2> QED
    BY <2>3, <2>4, <2>5 DEF Accounts
<1>15. CASE PendingStart
  <2>1. Handle("startCmd") /\ UNCHANGED capsKnown /\ UNCHANGED flushes
    BY <1>15 DEF PendingStart, Handle, histVars
  <2>2. PICK s \in Sessions : Head(adQ).ids = {s}
    BY <2>1, HandleShape DEF MsgShape
  <2>3. StartTracking(s, Head(adQ).o, 0) /\ Head(adQ).o \in TrackingOptions
    BY <1>15, <2>1, <2>2, HandleShape DEF PendingStart, MsgShape
  <2>4. Balance(s, MayRefuse(Head(adQ).o), 0)
    BY <1>f, <2>1, <2>3, StartBalance DEF OptOrNone
  <2>5. MayRefuse(Head(adQ).o) \in BOOLEAN /\ (MayRefuse(Head(adQ).o) => Mute # {})
    BY <2>3, TrackingAssumption DEF MayRefuse
  <2> QED
    BY <1>p, <2>1, <2>2, <2>4, <2>5
<1>16. CASE PendingUpdate
  <2>1. Handle("updateCmd") /\ UNCHANGED capsKnown /\ UNCHANGED flushes
    BY <1>16 DEF PendingUpdate, Handle, histVars
  <2>2. PICK s \in Sessions : Head(adQ).ids = {s}
    BY <2>1, HandleShape DEF MsgShape
  <2>3. UpdateTracking(s, Head(adQ).o, 0) /\ Head(adQ).o \in TrackingOptions
    BY <1>16, <2>1, <2>2, HandleShape DEF PendingUpdate, MsgShape
  <2>4. Balance(s, FALSE, 0)
    BY <1>f, <2>1, <2>3, UpdateBalance DEF OptOrNone
  <2> QED
    BY <1>p, <2>1, <2>2, <2>4
<1>17. CASE EngineUp
  <2>1. /\ adQ # <<>> /\ Head(adQ).k = "engineUp" /\ capsKnown' = TRUE
        /\ UNCHANGED <<mPendingMsgs, clients, removing, owed>>
    BY <1>17 DEF EngineUp
  <2> DEFINE t == Tail(adQ)
  <2>2. t \in Seq(MsgShape) /\ mPendingMsgs \in Seq(MsgShape)
    <3>1. CmdShape \subseteq MsgShape
      BY DEF CmdShape
    <3>2. mPendingMsgs \in Seq(MsgShape)
      BY <3>1, SeqDef DEF Shape, AdapterOK
    <3> QED
      BY <1>t, <2>1, <3>2, HeadTailProperties
  <2>3. \A P : /\ Count(adQ, P) = Count(t, P) + (IF Head(adQ) \in P THEN 1 ELSE 0)
               /\ Count(t, P) \in Nat
    BY <1>t, <2>1, <2>2, CountTail, CountFinite
  <2>4. Head(adQ) \in UpMsg /\ \A s \in Sessions : Head(adQ) \notin MsgFor(s)
    BY <1>t, <2>1, HeadTailProperties DEF UpMsg, MsgFor
  <2>5. Ups = Count(t, UpMsg) + 1 /\ Count(t, UpMsg) \in Nat
    BY <2>3, <2>4 DEF Ups
  <2>6. ASSUME NEW s \in Sessions PROVE Answers(s) = Count(t, MsgFor(s))
    <3>1. Answers(s) = Count(t, MsgFor(s)) + 0 /\ Count(t, MsgFor(s)) \in Nat
      BY <2>3, <2>4 DEF Answers
    <3> QED
      BY <3>1
  <2>7. mPendingMsgs = <<>> \/ flushes = 0
    <3>1. CASE CapsAtStart
      BY <3>1 DEF Boot
    <3>2. CASE ~CanRestart
      BY <1>f, <1>t, <2>5, <3>2 DEF Boot
    <3> QED
      BY <3>1, <3>2 DEF OneStart
  <2>8. Count(mPendingMsgs, UpMsg) = 0
    <3>1. mPendingMsgs \in Seq(CmdShape)
      BY DEF Shape, AdapterOK
    <3>2. \A i \in DOMAIN mPendingMsgs : mPendingMsgs[i] \in CmdShape
      BY <3>1, LenProperties
    <3>3. ~Has(mPendingMsgs, UpMsg)
      BY <3>2 DEF Has, UpMsg, CmdShape
    <3> QED
      BY <2>2, <3>3, CountFinite
  <2>9. CASE lock
    <3>1. /\ apiQ' = apiQ \o RestartRequests(nHz) /\ adQ' = t \o mPendingMsgs
          /\ flushes' = IF mPendingMsgs = <<>> THEN flushes ELSE flushes + 1
      BY <1>17, <2>9 DEF EngineUp
    <3> HIDE DEF t
    <3>2. Opens' = Opens /\ \A s \in Sessions : Posted(s)' = Posted(s)
      <4>1. RestartRequests(nHz) \in Seq(ReqShape) /\ Silent(RestartRequests(nHz))
        BY RestartPosts DEF Shape, OtherOK, Silent
      <4> QED
        BY <3>1, <4>1, SilentPost
    <3>3. \A P : Count(adQ', P) = Count(t, P) + Count(mPendingMsgs, P)
      BY <2>2, <3>1, CountConcat
    <3>4. Ups = Ups' + 1 /\ Ups' \in Nat
      BY <2>5, <2>8, <3>3 DEF Ups
    <3>5. Boot'
      BY <1>t, <2>1, <3>1, <3>2, <3>4 DEF Boot, Opens, Ups
    <3>6. ASSUME NEW s \in Sessions PROVE Due(s)' = Due(s)
      <4>1. Answers(s)' = Answers(s) + Count(mPendingMsgs, MsgFor(s))
        BY <2>6, <3>3 DEF Answers
      <4>2. Kept(s) = Count(mPendingMsgs, MsgFor(s)) /\ Kept(s)' = 0
        <5>1. CASE mPendingMsgs = <<>>
          BY <2>1, <5>1, CountEmpty DEF Kept
        <5>2. CASE mPendingMsgs # <<>>
          <6>1. flushes = 0 /\ flushes' = 1
            BY <2>7, <3>1, <5>2
          <6> QED
            BY <6>1 DEF Kept
        <5> QED
          BY <5>1, <5>2
      <4> QED
        BY <1>0, <1>n, <3>2, <4>1, <4>2 DEF Due
    <3>7. ASSUME NEW s \in Sessions PROVE Account(s)'
      BY <2>1, <3>6, AccountKept DEF Accounts
    <3> QED
      BY <3>5, <3>7 DEF Accounts
  <2>10. CASE ~lock
    <3>1. adQ' = t /\ UNCHANGED <<apiQ, flushes>>
      BY <1>17, <2>10 DEF EngineUp
    <3> HIDE DEF t
    <3>2. Opens' = Opens /\ Ups = Ups' + 1 /\ Ups' \in Nat
      BY <2>5, <3>1 DEF Opens, Ups
    <3>3. Boot'
      BY <1>t, <2>1, <3>1, <3>2 DEF Boot, Opens, Ups
    <3>4. ASSUME NEW s \in Sessions PROVE Due(s)' = Due(s)
      <4>1. Answers(s)' = Answers(s)
        BY <2>6, <3>1 DEF Answers
      <4> QED
        BY <2>1, <3>1, <4>1 DEF Due, Posted, Kept
    <3>5. ASSUME NEW s \in Sessions PROVE Account(s)'
      BY <2>1, <3>4, AccountKept DEF Accounts
    <3> QED
      BY <3>3, <3>5 DEF Accounts
  <2> QED
    BY <2>9, <2>10
<1>18. CASE LocApi
  <2>1. /\ UNCHANGED <<clients, removing, owed, capsKnown, mPendingMsgs, flushes>>
        /\ apiQ # <<>> /\ apiQ' = Tail(apiQ)
    BY <1>18 DEF LocApi, ApiStart, ApiStop, ApiStartDbt, ApiStopDbt, ApiOpen, Respond,
                 ApiOnly, histVars
  <2> DEFINE r == Head(apiQ)
  <2>2. r \in ReqShape /\ Tail(apiQ) \in Seq(ReqShape)
    BY <1>t, <2>1, HeadTailProperties
  <2>3. \A P : /\ Count(apiQ, P) = Count(apiQ', P) + (IF r \in P THEN 1 ELSE 0)
               /\ Count(apiQ', P) \in Nat
    BY <1>t, <2>1, <2>2, CountTail, CountFinite
  <2>4. ASSUME NEW m \in MsgShape, adQ' = Append(adQ, m)
        PROVE  \A P : /\ Count(adQ', P) = Count(adQ, P) + (IF m \in P THEN 1 ELSE 0)
                      /\ Count(adQ, P) \in Nat
    BY <1>t, <2>4, CountAppend, CountFinite
  <2>5. CASE ApiOpen /\ adQ' # adQ
    <3> DEFINE m == Message("engineUp", {}, NoOpt, TRUE)
    <3>1. m \in MsgShape /\ m.k = "engineUp"
      <4>1. m \in Messages
        BY DEF Message, Messages, OptOrNone
      <4> QED
        BY <4>1 DEF Message, MsgShape, Carriers
    <3>2. adQ' = Append(adQ, m) /\ r.op = "open"
      BY <2>5 DEF ApiOpen
    <3> HIDE DEF m
    <3>3. m \in UpMsg /\ \A s \in Sessions : m \notin MsgFor(s)
      BY <3>1 DEF UpMsg, MsgFor
    <3>4. r \in OpenReq /\ \A s \in Sessions : r \notin ReqFor(s)
      BY <2>2, <3>2 DEF OpenReq, ReqFor, ReqShape
    <3> HIDE DEF r
    <3>5. Opens = Opens' + 1 /\ Opens' \in Nat
      BY <2>3, <3>4 DEF Opens
    <3>6. Ups' = Ups + 1
      BY <2>4, <3>1, <3>2, <3>3 DEF Ups
    <3>7. ASSUME NEW s \in Sessions
          PROVE  Posted(s)' + Answers(s)' = Posted(s) + Answers(s)
      <4>1. Posted(s) = Posted(s)' + 0
        BY <2>3, <3>4 DEF Posted
      <4>2. Answers(s)' = Answers(s) + 0
        BY <2>4, <3>1, <3>2, <3>3 DEF Answers
      <4> QED
        BY <1>0, <1>n, <4>1, <4>2
    <3>8. Opens' + Ups' = Opens + Ups
      BY <1>t, <3>5, <3>6
    <3> QED
      BY <2>1, <3>7, <3>8, LedgerKept
  <2>7. CASE ApiOpen /\ adQ' = adQ
    <3>1. r.op = "open" /\ Ups' = Ups /\ \A s \in Sessions : Answers(s)' = Answers(s)
      BY <2>7 DEF ApiOpen, Ups, Answers
    <3>2. r \in OpenReq /\ \A s \in Sessions : r \notin ReqFor(s)
      BY <2>2, <3>1 DEF OpenReq, ReqFor, ReqShape
    <3> HIDE DEF r
    <3>3. Opens = Opens' + 1 /\ Opens' \in Nat
      BY <2>3, <3>2 DEF Opens
    <3>4. ASSUME NEW s \in Sessions PROVE Posted(s)' + Answers(s)' = Posted(s) + Answers(s)
      <4>1. Posted(s) = Posted(s)' + 0 /\ Posted(s)' \in Nat
        BY <2>3, <3>2 DEF Posted
      <4> QED
        BY <3>1, <4>1
    <3>5. ~CanRestart => Opens' + Ups' = 0
      <4>1. Ups \in Nat /\ (~CanRestart => Opens + Ups <= 1)
        BY DueTypes DEF Boot
      <4>2. Ups' = Ups /\ Opens = Opens' + 1 /\ Opens' \in Nat
        BY <3>1, <3>3
      <4>3. ASSUME NEW a \in Nat, NEW b \in Nat, (a + 1) + b <= 1 PROVE a + b = 0
        BY <4>3
      <4> HIDE DEF Opens, Ups
      <4> QED
        BY <4>1, <4>2, <4>3
    <3> QED
      BY <2>1, <3>4, <3>5, LedgerKept
  <2>6. CASE ~ApiOpen
    <3>1. PICK ok \in BOOLEAN : Respond(ok)
      BY <1>18, <2>6 DEF LocApi, ApiStart, ApiStop, ApiStartDbt, ApiStopDbt
    <3>2. r.op # "open"
      BY <1>18, <2>6 DEF LocApi, ApiStart, ApiStop, ApiStartDbt, ApiStopDbt
    <3>3. r \notin OpenReq
      BY <3>2 DEF OpenReq
    <3>4. Opens' = Opens
      <4>1. Opens = Opens' + 0 /\ Opens' \in Nat
        BY <2>3, <3>3 DEF Opens
      <4> QED
        BY <4>1 DEF Opens
    <3>5. CASE r.k = "none"
      <4>1. adQ' = adQ
        BY <3>1, <3>5 DEF Respond
      <4>2. \A s \in Sessions : r \notin ReqFor(s)
        BY <3>5 DEF ReqFor
      <4> HIDE DEF r
      <4>3. ASSUME NEW s \in Sessions
            PROVE  Posted(s)' + Answers(s)' = Posted(s) + Answers(s)
        <5>1. Posted(s) = Posted(s)' + 0
          BY <2>3, <4>2 DEF Posted
        <5>2. Answers(s)' = Answers(s)
          BY <4>1 DEF Answers
        <5> QED
          BY <1>0, <1>n, <5>1, <5>2
      <4>4. Opens' + Ups' = Opens + Ups
        BY <3>4, <4>1 DEF Ups
      <4> QED
        BY <2>1, <4>3, <4>4, LedgerKept
    <3>6. CASE r.k # "none"
      <4> DEFINE m == Message(r.k, r.ids, r.ro, ok)
      <4>1. adQ' = Append(adQ, m)
        BY <3>1, <3>6 DEF Respond
      <4>2. m.k = r.k /\ m.ids = r.ids
        BY DEF Message
      <4>3. m.k # "engineUp"
        BY <2>2, <3>6, <4>2 DEF ReqShape, Requests, RespKinds
      <4>4. m \in MsgShape
        <5>1. adQ' \in Seq(MsgShape)
          BY DEF Shape, OtherOK
        <5>2. Len(adQ) + 1 \in DOMAIN adQ' /\ adQ'[Len(adQ) + 1] = m
          <6> HIDE DEF m
          <6>1. Len(adQ) \in Nat
            BY <1>t, LenProperties
          <6>2. adQ \in Seq(MsgShape \cup {m}) /\ m \in MsgShape \cup {m}
            BY <1>t, SeqDef
          <6>3. /\ Len(adQ') = Len(adQ) + 1 /\ adQ'[Len(adQ) + 1] = m
            BY <4>1, <6>1, <6>2, AppendProperties
          <6>4. DOMAIN adQ' = 1 .. Len(adQ')
            BY <5>1, LenProperties
          <6> QED
            BY <6>1, <6>3, <6>4
        <5> HIDE DEF m
        <5>3. adQ'[Len(adQ) + 1] \in MsgShape
          BY <5>1, <5>2, LenProperties
        <5> QED
          BY <5>2, <5>3
      <4>5. m \notin UpMsg
        BY <4>3 DEF UpMsg
      <4>6. ASSUME NEW s \in Sessions PROVE m \in MsgFor(s) <=> r \in ReqFor(s)
        BY <2>2, <3>6, <4>2, <4>3, <4>4 DEF MsgFor, ReqFor
      <4> HIDE DEF m, r
      <4>7. Ups' = Ups + 0
        BY <2>4, <4>1, <4>4, <4>5 DEF Ups
      <4>8. ASSUME NEW s \in Sessions
            PROVE  Posted(s)' + Answers(s)' = Posted(s) + Answers(s)
        <5>1. Posted(s) = Posted(s)' + (IF r \in ReqFor(s) THEN 1 ELSE 0)
          BY <2>3 DEF Posted
        <5>2. Answers(s)' = Answers(s) + (IF m \in MsgFor(s) THEN 1 ELSE 0)
          BY <2>4, <4>1, <4>4 DEF Answers
        <5> QED
          BY <1>0, <1>n, <4>6, <5>1, <5>2
      <4>9. Opens' + Ups' = Opens + Ups
        BY <1>t, <3>4, <4>7
      <4> QED
        BY <2>1, <4>8, <4>9, LedgerKept
    <3> QED
      BY <3>5, <3>6
  <2> QED
    BY <2>5, <2>6, <2>7
<1>s. ASSUME UNCHANGED <<clients, removing, owed, capsKnown, mPendingMsgs, flushes, adQ>>,
             Opens' = Opens \/ CanRestart, \A s \in Sessions : Posted(s)' = Posted(s)
      PROVE  Boot' /\ Accounts'
  <2>1. Ups' = Ups /\ \A s \in Sessions : Answers(s)' = Answers(s)
    BY <1>s DEF Ups, Answers
  <2> QED
    BY <1>s, <2>1, LedgerKept
<1>19. CASE NHzChanged
  <2>1. /\ apiQ' = apiQ \o RestartRequests(nHz') /\ nHz' \in BOOLEAN
        /\ UNCHANGED <<clients, removing, owed, capsKnown, mPendingMsgs, flushes, adQ>>
    BY <1>19 DEF NHzChanged, histVars
  <2>2. RestartRequests(nHz') \in Seq(ReqShape) /\ Silent(RestartRequests(nHz'))
    BY <2>1, RestartPosts DEF Silent
  <2>3. Opens' = Opens /\ \A s \in Sessions : Posted(s)' = Posted(s)
    BY <2>1, <2>2, SilentPost
  <2> QED
    BY <1>s, <2>1, <2>3
<1>20. CASE Reconfigure
  <2> DEFINE a == Request("stop", {}, NoOpt, "none", NoOpt)
             halt == IF TimeSet = {} THEN <<>> ELSE <<a>>
             R == RestartRequests(nHz)
  <2>1. /\ apiQ' = apiQ \o halt \o R
        /\ UNCHANGED <<clients, removing, owed, capsKnown, mPendingMsgs, flushes, adQ>>
    BY <1>20 DEF Reconfigure, histVars
  <2>2. a \in ReqShape /\ a.k = "none" /\ a.op # "open"
    <3>1. a \in Requests
      BY DEF Request, Requests, OptOrNone, RespKinds
    <3> QED
      BY <3>1 DEF Request, ReqShape, Carriers
  <2>3. halt \in Seq(ReqShape) /\ Silent(halt)
    <3> HIDE DEF a
    <3>1. CASE TimeSet = {}
      BY <1>e, <3>1
    <3>2. CASE TimeSet # {}
      BY <2>2, <3>2 DEF Silent
    <3> QED
      BY <3>1, <3>2
  <2>4. R \in Seq(ReqShape) /\ Silent(R)
    BY RestartPosts DEF Shape, OtherOK, Silent
  <2> HIDE DEF R, halt
  <2>5. ASSUME NEW P, Count(halt, P) = 0, Count(R, P) = 0
        PROVE  Count(apiQ', P) = Count(apiQ, P)
    <3>1. apiQ \o halt \in Seq(ReqShape)
      BY <1>t, <2>3, ConcatProperties
    <3>2. Count(apiQ', P) = Count(apiQ \o halt, P) + 0
      <4>1. Count((apiQ \o halt) \o R, P) = Count(apiQ \o halt, P) + Count(R, P)
        BY <2>4, <3>1, CountConcat
      <4> QED
        BY <2>1, <2>5, <4>1
    <3>3. Count(apiQ \o halt, P) = Count(apiQ, P) + 0
      BY <1>t, <2>3, <2>5, CountConcat
    <3>4. Count(apiQ, P) \in Nat
      BY <1>t, CountFinite
    <3> QED
      BY <3>2, <3>3, <3>4
  <2>6. Opens' = Opens /\ \A s \in Sessions : Posted(s)' = Posted(s)
    BY <2>3, <2>4, <2>5, SilentCounts DEF Opens, Posted
  <2> QED
    BY <1>s, <2>1, <2>6
<1>21. CASE EngineDown
  <2> DEFINE r == Request("open", {}, NoOpt, "none", NoOpt)
  <2>1. /\ CanRestart /\ apiQ' = Append(apiQ, r)
        /\ UNCHANGED <<clients, removing, owed, capsKnown, mPendingMsgs, flushes, adQ>>
    BY <1>21 DEF EngineDown, histVars
  <2>2. r \in ReqShape /\ \A s \in Sessions : r \notin ReqFor(s)
    <3>1. r \in Requests
      BY DEF Request, Requests, OptOrNone, RespKinds
    <3> QED
      BY <3>1 DEF Request, ReqShape, Carriers, ReqFor
  <2> HIDE DEF r
  <2>3. ASSUME NEW s \in Sessions PROVE Posted(s)' = Posted(s)
    <3>1. Posted(s)' = Posted(s) + 0
      BY <1>t, <2>1, <2>2, CountAppend DEF Posted
    <3> QED
      BY <1>0, <3>1
  <2> QED
    BY <1>s, <2>1, <2>3
<1>22. CASE Reopen \/ LockChanged
  <2>1. UNCHANGED <<clients, removing, owed, capsKnown, mPendingMsgs, flushes, adQ, apiQ>>
    BY <1>22 DEF Reopen, ApiOnly, LockChanged, histVars
  <2> QED
    BY <1>s, <2>1 DEF Opens, Posted
<1>23. CASE UNCHANGED vars
  <2>1. UNCHANGED <<clients, removing, owed, capsKnown, mPendingMsgs, flushes, adQ, apiQ>>
    BY <1>23 DEF vars
  <2> QED
    BY <1>s, <2>1 DEF Opens, Posted
<1> QED
  BY <1>1, <1>2, <1>3, <1>4, <1>5, <1>6, <1>7, <1>8, <1>9, <1>10, <1>11, <1>12,
     <1>13, <1>14, <1>15, <1>16, <1>17, <1>18, <1>19, <1>20, <1>21, <1>22, <1>23
     DEF Next, Command, Removal, Response

(* Initially nothing is owed.                                              *)
LEMMA LedgerInit == Init => Boot /\ Accounts
<1> SUFFICES ASSUME Init PROVE Boot /\ Accounts
  OBVIOUS
<1>1. Shape
  BY ShapeInit
<1> DEFINE r == Request("open", {}, NoOpt, "none", NoOpt)
<1>2. apiQ = <<>> \/ (apiQ = <<r>> /\ ~CapsAtStart)
  BY DEF Init
<1>3. /\ adQ = <<>> /\ mPendingMsgs = <<>> /\ capsKnown = CapsAtStart /\ clients = Clients
      /\ removing = NoClient /\ flushes = 0 /\ owed = [s \in Sessions |-> 0]
  BY DEF Init
<1>4. r \in ReqShape /\ \A s \in Sessions : r \notin ReqFor(s)
  <2>1. r \in Requests
    BY DEF Request, Requests, OptOrNone, RespKinds
  <2> QED
    BY <2>1 DEF Request, ReqShape, Carriers, ReqFor
<1> HIDE DEF r
<1>5. Ups = 0 /\ \A s \in Sessions : Answers(s) = 0 /\ Kept(s) = 0
  BY <1>3, CountEmpty DEF Ups, Answers, Kept
<1>6. CASE apiQ = <<>>
  <2>1. Opens = 0 /\ \A s \in Sessions : Posted(s) = 0
    BY <1>6, CountEmpty DEF Opens, Posted
  <2>2. \A s \in Sessions : Due(s) = 0
    BY <1>5, <2>1 DEF Due
  <2>3. Boot
    BY <1>3, <1>5, <2>1 DEF Boot
  <2> QED
    BY <1>3, <2>2, <2>3, TrackingAssumption DEF Accounts, Account
<1>7. CASE apiQ = <<r>> /\ ~CapsAtStart
  <2>1. \A P : Count(apiQ, P) = IF r \in P THEN 1 ELSE 0
    BY <1>4, <1>7, CountOne
  <2>2. Opens <= 1 /\ Opens \in Nat /\ \A s \in Sessions : Posted(s) = 0
    BY <1>4, <2>1 DEF Opens, Posted
  <2>3. \A s \in Sessions : Due(s) = 0
    BY <1>5, <2>2 DEF Due
  <2>4. Boot
    BY <1>3, <1>5, <1>7, <2>2 DEF Boot, Opens
  <2> QED
    BY <1>3, <2>3, <2>4, TrackingAssumption DEF Accounts, Account
<1> QED
  BY <1>2, <1>6, <1>7

(* The ledger holds in every reachable state.                              *)
LEMMA LedgerInvariance ==
    ASSUME OneStart PROVE Spec => [](Shape /\ Boot /\ Accounts)
<1>1. Init => Shape /\ Boot /\ Accounts
  BY ShapeInit, LedgerInit
<1>2. Shape /\ Boot /\ Accounts /\ [Next]_vars => (Shape /\ Boot /\ Accounts)'
  BY ShapeStep, LedgerStep
<1> QED
  BY <1>1, <1>2, PTL DEF Spec

(* When both threads are idle nothing is under way.                        *)
LEMMA QuietDue ==
    ASSUME Shape, Quiet, NEW s \in Sessions
    PROVE  Due(s) = Kept(s)
<1>1. Posted(s) = 0 /\ Answers(s) = 0
  BY CountEmpty DEF Quiet, Posted, Answers
<1> QED
  BY <1>1, DueTypes DEF Due

(* Every tracking command is answered, and answered once (MsgStartTracking *)
(* to MsgStopTracking::proc, and the LocApiResponse lambdas), for any      *)
(* number of sessions and clients, any overlap of their commands and       *)
(* whatever the modem refuses, if every client passes the callbacks and    *)
(* options tracking needs and the kept commands are sent once.             *)
THEOREM AnsweredOnceThm ==
    ASSUME OneStart, Mute = {}, ~Careless
    PROVE  Spec => []AnsweredOnce
<1>1. Shape /\ Boot /\ Accounts => AnsweredOnce
  <2> SUFFICES ASSUME Shape, Boot, Accounts, NEW s \in Sessions
               PROVE  /\ owed[s] >= 0
                      /\ (Quiet /\ (mPendingMsgs = <<>> \/ flushes > 0)) => owed[s] = 0
    BY DEF AnsweredOnce
  <2>1. Due(s) \in Nat /\ Owner[s] \in Clients /\ Owner[s] # NoClient
    BY DueTypes, TrackingAssumption
  <2>2. \/ Owner[s] \notin clients \/ Owner[s] = removing
        \/ Owner[s] \in clients \ {removing}
    OBVIOUS
  <2>3. owed[s] >= 0
    BY <2>1, <2>2 DEF Accounts, Account
  <2>4. ASSUME Quiet, mPendingMsgs = <<>> \/ flushes > 0 PROVE owed[s] = 0
    <3>1. Kept(s) = 0
      BY <2>4, CountEmpty DEF Kept
    <3>2. Due(s) = 0
      BY <2>4, <3>1, QuietDue
    <3>3. Owner[s] # removing
      BY <2>1, <2>4 DEF Quiet
    <3> QED
      BY <2>2, <3>2, <3>3 DEF Accounts, Account
  <2> QED
    BY <2>3, <2>4
<1> QED
  BY <1>1, LedgerInvariance, PTL

-----------------------------------------------------------------------------
(* A stopped session stays stopped.                                        *)

(* What is under way for session s: requests and responses of the kinds K. *)
ReqOf(K, s) == {r \in ReqShape : r.k \in K /\ s \in r.ids}
MsgOf(K, s) == {m \in MsgShape : m.k \in K /\ s \in m.ids}
Asked(K, s) == Has(apiQ, ReqOf(K, s))
Told(K, s) == Has(adQ, MsgOf(K, s))

(* The responses that may save session s in the time based table, or in    *)
(* the distance based one, and those that erase it.                        *)
ToTime == {"update", "switch"}
ToDist == {"restart", "restarted"}
ToStop == {"dbtStop"}
ToErase == {"erase"}
ToRestart == {"restart"}
Watched == {ToTime, ToDist, ToStop, ToErase, ToRestart}
TimeDue(s) == Asked(ToTime, s) \/ Told(ToTime, s)
DistDue(s) == Asked(ToDist, s) \/ Told(ToDist, s)
StopDue(s) == Asked(ToStop, s) \/ Told(ToStop, s)
EraseDue(s) == Asked(ToErase, s) \/ Told(ToErase, s)

(* The options such a response carries belong in that table, and no kept   *)
(* command is on its way.                                                  *)
Side(k, o) == /\ k \in ToTime => ~(o.far /\ DistSupported)
              /\ k \in ToDist => o.far /\ DistSupported
WrongReq == {r \in ReqShape : ~Side(r.k, r.ro)}
WrongMsg == {m \in MsgShape : ~Side(m.k, m.o) \/ m.k \in {"startCmd", "updateCmd"}}
Sided == ~Has(apiQ, WrongReq) /\ ~Has(adQ, WrongMsg)

(* A session of a client that waits for its answers is in one table only,  *)
(* and a response on its way will not bring it back.                       *)
Calm(s) ==
    /\ time[s] = NoOpt \/ dist[s] = NoOpt
    /\ TimeDue(s) => dist[s] = NoOpt /\ s \notin over
    /\ DistDue(s) => time[s] = NoOpt /\ s \notin over
    /\ s \in over /\ Owner[s] \in clients \ {removing} =>
         time[s] = NoOpt /\ (dist[s] # NoOpt => StopDue(s))
    /\ Owner[s] \notin clients =>
         time[s] = NoOpt /\ (dist[s] # NoOpt => EraseDue(s))
    /\ owed[s] <= 1

Life(s) ==
    /\ time[s] # NoOpt => ~(time[s].far /\ DistSupported)
    /\ dist[s] # NoOpt => DistSupported
    /\ Owner[s] \notin clients \ {removing} => s \in over
    /\ s \notin started => /\ time[s] = NoOpt /\ dist[s] = NoOpt /\ owed[s] = 0
                           /\ s \in over => Owner[s] \notin clients \ {removing}
                           /\ s \notin hasty
    /\ s \notin hasty => Calm(s)
Lives == \A s \in Sessions : Life(s)

(* A step that puts session s into no table and loses no response that it  *)
(* still needs.                                                            *)
LEMMA LifeShrinks ==
    ASSUME NEW s \in Sessions, Life(s), UNCHANGED <<clients, removing>>,
           s \in started' <=> s \in started, s \in over' <=> s \in over,
           s \in hasty' <=> s \in hasty,
           time'[s] \in {time[s], NoOpt}, dist'[s] \in {dist[s], NoOpt},
           TimeDue(s)' => TimeDue(s), DistDue(s)' => DistDue(s),
           dist'[s] # NoOpt => /\ StopDue(s) => StopDue(s)'
                               /\ EraseDue(s) => EraseDue(s)',
           s \notin hasty => owed'[s] <= 1, s \notin started => owed'[s] = 0
    PROVE  Life(s)'
BY DEF Life, Calm

-----------------------------------------------------------------------------
(* The kinds that are watched.                                             *)
LEMMA WatchedKinds ==
    \A J \in Watched : /\ J \subseteq RespKinds
                       /\ "none" \notin J /\ "start" \notin J /\ "stop" \notin J
                       /\ "dbtStart" \notin J
                       /\ J # ToErase => "erase" \notin J
BY DEF ToRestart, Watched, ToTime, ToDist, ToStop, ToErase, RespKinds

(* Posting requests nobody waits for.                                      *)
LEMMA SilentAsked ==
    ASSUME Shape, NEW q \in Seq(ReqShape), Silent(q), apiQ' = apiQ \o q
    PROVE  /\ \A J \in Watched, s \in Sessions : Asked(J, s)' <=> Asked(J, s)
           /\ Has(apiQ', WrongReq) <=> Has(apiQ, WrongReq)
<1>1. apiQ \in Seq(ReqShape)
  BY DEF Shape, AdapterOK
<1>2. \A P : Has(apiQ', P) <=> Has(apiQ, P) \/ Has(q, P)
  BY <1>1, ConcatHas
<1>3. ~Has(q, WrongReq)
  BY DEF Has, Silent, WrongReq, Side, ToTime, ToDist
<1>4. ASSUME NEW J \in Watched, NEW s \in Sessions PROVE ~Has(q, ReqOf(J, s))
  BY WatchedKinds DEF Has, Silent, ReqOf
<1> QED
  BY <1>2, <1>3, <1>4 DEF Asked

(* Posting one request for session x.                                      *)
LEMMA AppendAsked ==
    ASSUME Shape, NEW r \in ReqShape, Side(r.k, r.ro), apiQ' = Append(apiQ, r)
    PROVE  /\ \A J \in Watched, s \in Sessions :
                Asked(J, s)' <=> Asked(J, s) \/ (r.k \in J /\ s \in r.ids)
           /\ Has(apiQ', WrongReq) <=> Has(apiQ, WrongReq)
<1>1. apiQ \in Seq(ReqShape)
  BY DEF Shape, AdapterOK
<1>2. \A P : Has(apiQ', P) <=> Has(apiQ, P) \/ r \in P
  BY <1>1, AppendHas
<1>3. r \notin WrongReq
  BY DEF WrongReq
<1>4. \A J, s : r \in ReqOf(J, s) <=> r.k \in J /\ s \in r.ids
  BY DEF ReqOf
<1> QED
  BY <1>2, <1>3, <1>4 DEF Asked

(* Posting what a multiplexing step decides: none of it is watched, or it  *)
(* is an update.                                                           *)
LEMMA OutcomeAsked ==
    ASSUME Shape, NEW x \in Sessions, NEW out, NEW K, Posts(out, x, K),
           K \subseteq {"start", "stop"},
           NEW q \in Seq(ReqShape), Silent(q), Post(out, q)
    PROVE  /\ \A J \in Watched, s \in Sessions : Asked(J, s)' <=> Asked(J, s)
           /\ Has(apiQ', WrongReq) <=> Has(apiQ, WrongReq)
<1>1. apiQ \in Seq(ReqShape)
  BY DEF Shape, AdapterOK
<1>2. CASE out.reqs = <<>>
  <2>1. apiQ' = apiQ \o q
    BY <1>1, <1>2, ConcatEmptySeq DEF Post
  <2> QED
    BY <2>1, SilentAsked
<1>3. ASSUME NEW r \in ReqShape, out.reqs = <<r>>, r.k \in K
      PROVE  /\ \A J \in Watched, s \in Sessions : Asked(J, s)' <=> Asked(J, s)
             /\ Has(apiQ', WrongReq) <=> Has(apiQ, WrongReq)
  <2>1. apiQ \o <<r>> \in Seq(ReqShape) /\ apiQ \o <<r>> = Append(apiQ, r)
    BY <1>1, ConcatProperties, AppendIsConcat
  <2>2. apiQ' = (apiQ \o <<r>>) \o q
    BY <1>3 DEF Post
  <2>3. \A P : Has(apiQ', P) <=> Has(apiQ \o <<r>>, P) \/ Has(q, P)
    BY <2>1, <2>2, ConcatHas
  <2>4. \A P : Has(apiQ \o <<r>>, P) <=> Has(apiQ, P) \/ r \in P
    <3>1. \A P : Has(Append(apiQ, r), P) <=> Has(apiQ, P) \/ r \in P
      BY <1>1, AppendHas
    <3> QED
      BY <2>1, <3>1
  <2>5. ~Has(q, WrongReq) /\ r \notin WrongReq
    BY <1>3 DEF Has, Silent, WrongReq, Side, ToTime, ToDist
  <2>6. ASSUME NEW J \in Watched, NEW s \in Sessions
        PROVE  ~Has(q, ReqOf(J, s)) /\ r \notin ReqOf(J, s)
    BY <1>3, WatchedKinds DEF Has, Silent, ReqOf
  <2> QED
    BY <2>3, <2>4, <2>5, <2>6 DEF Asked
<1> QED
  BY <1>2, <1>3 DEF Posts

(* Taking a message off the adapter's queue.                               *)
LEMMA TakeTold ==
    ASSUME Shape, adQ # <<>>, adQ' = Tail(adQ)
    PROVE  /\ \A J \in Watched, s \in Sessions :
                Told(J, s) <=> Told(J, s)' \/ (Head(adQ).k \in J /\ s \in Head(adQ).ids)
           /\ ~Has(adQ, WrongMsg) => ~Has(adQ', WrongMsg) /\ Head(adQ) \notin WrongMsg
           /\ Head(adQ) \in MsgShape
<1>1. adQ \in Seq(MsgShape) /\ Head(adQ) \in MsgShape
  BY HeadTailProperties DEF Shape, OtherOK
<1>2. \A P : Has(adQ, P) <=> Has(adQ', P) \/ Head(adQ) \in P
  BY <1>1, TailHas
<1>3. \A J, s : Head(adQ) \in MsgOf(J, s) <=> Head(adQ).k \in J /\ s \in Head(adQ).ids
  BY <1>1 DEF MsgOf
<1> QED
  BY <1>1, <1>2, <1>3 DEF Told

(* A session whose client is owed nothing has nothing under way.           *)
LEMMA NothingUnderWay ==
    ASSUME Shape, Accounts, NEW x \in Sessions, Owner[x] \in clients \ {removing},
           owed[x] = 0
    PROVE  \A J \in Watched \ {ToErase} : ~Asked(J, x) /\ ~Told(J, x)
<1>1. apiQ \in Seq(ReqShape) /\ adQ \in Seq(MsgShape)
  BY DEF Shape, AdapterOK, OtherOK
<1>2. Posted(x) = 0 /\ Answers(x) = 0
  BY DueTypes DEF Accounts, Account, Due
<1>3. ~Has(apiQ, ReqFor(x)) /\ ~Has(adQ, MsgFor(x))
  BY <1>1, <1>2, CountFinite DEF Posted, Answers
<1>4. ASSUME NEW J \in Watched \ {ToErase}
      PROVE  ReqOf(J, x) \subseteq ReqFor(x) /\ MsgOf(J, x) \subseteq MsgFor(x)
  BY WatchedKinds DEF ReqOf, MsgOf, ReqFor, MsgFor, RespKinds
<1> QED
  BY <1>3, <1>4 DEF Asked, Told, Has

(* The response to its only command is the last thing under way.           *)
LEMMA LastUnderWay ==
    ASSUME Shape, Accounts, adQ # <<>>, adQ' = Tail(adQ), NEW x \in Sessions,
           Owner[x] \in clients \ {removing}, owed[x] <= 1,
           x \in Head(adQ).ids, Head(adQ).k \notin {"erase", "engineUp"}
    PROVE  /\ owed[x] = 1
           /\ \A J \in Watched \ {ToErase} : ~Asked(J, x) /\ ~Told(J, x)'
<1>1. apiQ \in Seq(ReqShape) /\ adQ' \in Seq(MsgShape)
  BY HeadTailProperties DEF Shape, AdapterOK, OtherOK
<1>2. Answers(x)' \in Nat /\ Answers(x) = Answers(x)' + 1
  BY HandleCounts
<1>3. Posted(x) \in Nat /\ Kept(x) \in Nat /\ owed[x] \in Int
  BY DueTypes DEF Shape, AdapterOK
<1>4. owed[x] >= Posted(x) + Answers(x) + Kept(x)
  BY DEF Accounts, Account, Due
<1>5. Posted(x) = 0 /\ Answers(x)' = 0 /\ owed[x] = 1
  BY <1>2, <1>3, <1>4
<1>6. ~Has(apiQ, ReqFor(x)) /\ ~Has(adQ', MsgFor(x))
  BY <1>1, <1>5, CountFinite DEF Posted, Answers
<1>7. ASSUME NEW J \in Watched \ {ToErase}
      PROVE  ReqOf(J, x) \subseteq ReqFor(x) /\ MsgOf(J, x) \subseteq MsgFor(x)
  BY WatchedKinds DEF ReqOf, MsgOf, ReqFor, MsgFor, RespKinds
<1> QED
  BY <1>5, <1>6, <1>7 DEF Asked, Told, Has

-----------------------------------------------------------------------------
(* saveTrackingSession and eraseTrackingSession, session by session.       *)
LEMMA SaveAt ==
    ASSUME NEW t \in [Sessions -> OptOrNone], NEW d \in [Sessions -> OptOrNone],
           NEW x \in Sessions, NEW o \in TrackingOptions,
           SaveTrackingSession(t, d, x, o)
    PROVE  /\ \A s \in Sessions \ {x} : time'[s] = t[s] /\ dist'[s] = d[s]
           /\ o.far /\ DistSupported => time'[x] = t[x] /\ dist'[x] = o
           /\ ~(o.far /\ DistSupported) => time'[x] = o /\ dist'[x] = d[x]
BY DEF SaveTrackingSession

(* eraseTrackingSession, session by session.                               *)
LEMMA EraseAt ==
    ASSUME Tables, NEW x \in Sessions
    PROVE  /\ \A s \in Sessions \ {x} : Erased(x).t[s] = time[s] /\ Erased(x).d[s] = dist[s]
           /\ Erased(x).t[x] = NoOpt
           /\ time[x] # NoOpt => Erased(x).d[x] = dist[x]
           /\ time[x] = NoOpt => Erased(x).d[x] = NoOpt
BY DEF Erased, Tables

(* The step is about session x alone.                                      *)
Others(x) ==
    /\ UNCHANGED <<clients, removing>>
    /\ \A s \in Sessions \ {x} :
         /\ time'[s] = time[s] /\ dist'[s] = dist[s] /\ owed'[s] = owed[s]
         /\ s \in started' <=> s \in started
         /\ s \in over' <=> s \in over
         /\ s \in hasty' <=> s \in hasty
         /\ \A J \in Watched : /\ (Asked(J, s)' <=> Asked(J, s))
                               /\ (Told(J, s)' <=> Told(J, s))
    /\ Sided'

(* Then the other sessions live on.                                        *)
LEMMA OthersLive ==
    ASSUME Lives, NEW x \in Sessions, Others(x), Life(x)'
    PROVE  Sided' /\ Lives'
<1>1. ToTime \in Watched /\ ToDist \in Watched /\ ToStop \in Watched /\ ToErase \in Watched
  BY DEF Watched
<1>2. ASSUME NEW s \in Sessions \ {x} PROVE Life(s)'
  <2>1. /\ TimeDue(s)' <=> TimeDue(s)
        /\ DistDue(s)' <=> DistDue(s)
        /\ StopDue(s)' <=> StopDue(s)
        /\ EraseDue(s)' <=> EraseDue(s)
    BY <1>1 DEF Others, TimeDue, DistDue, StopDue, EraseDue
  <2>2. Life(s) /\ (s \notin hasty => owed[s] <= 1) /\ (s \notin started => owed[s] = 0)
    BY DEF Lives, Life, Calm
  <2> QED
    BY <2>1, <2>2, LifeShrinks DEF Others
<1> QED
  BY <1>2 DEF Others, Lives

(* MsgStartTracking::proc.                                                 *)
LEMMA StartLife ==
    ASSUME CapsAtStart, Shape, Boot, Accounts, Sided, Lives,
           NEW x \in Sessions, NEW o \in Options \cup {NoOpt}, Start(x, o)
    PROVE  Sided' /\ Lives'
<1>1. /\ removing = NoClient /\ x \notin started /\ Owner[x] \in clients
      /\ UNCHANGED <<clients, removing, adQ, over, hasty>> /\ started' = started \cup {x}
      /\ StartTracking(x, o, 1)
  BY DEF Start, AdapterIdle
<1>2. /\ owed[x] = 0 /\ time[x] = NoOpt /\ dist[x] = NoOpt /\ x \notin over
      /\ Owner[x] # NoClient /\ x \notin hasty
  BY <1>1, TrackingAssumption DEF Lives, Life
<1>3. \A J \in Watched \ {ToErase} : ~Asked(J, x) /\ ~Told(J, x)
  BY <1>1, <1>2, NothingUnderWay
<1>4. ~MustWait(o) /\ ~StartKept(x, o, 1)
  BY DEF Boot, MustWait, StartKept
<1>5. Tables
  BY DEF Shape, AdapterOK
<1>6. ASSUME \A J \in Watched, s \in Sessions : Asked(J, s)' <=> Asked(J, s),
             Has(apiQ', WrongReq) <=> Has(apiQ, WrongReq),
             \A s \in Sessions \ {x} : time'[s] = time[s] /\ dist'[s] = dist[s],
             time'[x] = NoOpt \/ dist'[x] = NoOpt,
             time'[x] # NoOpt => ~(time'[x].far /\ DistSupported),
             dist'[x] # NoOpt => DistSupported,
             NEW now \in BOOLEAN, owed' = Owed(x, 1, now)
      PROVE  Sided' /\ Lives'
  <2>1. \A J \in Watched, s \in Sessions : Told(J, s)' <=> Told(J, s)
    BY <1>1 DEF Told
  <2>2. Sided'
    BY <1>1, <1>6 DEF Sided
  <2>3. owed'[x] <= 1 /\ \A s \in Sessions \ {x} : owed'[s] = owed[s]
    BY <1>1, <1>2, <1>6, OwedFacts
  <2>4. Others(x)
    BY <1>1, <1>6, <2>1, <2>2, <2>3 DEF Others
  <2>5. ~TimeDue(x)' /\ ~DistDue(x)'
    <3>1. ToTime \in Watched \ {ToErase} /\ ToDist \in Watched \ {ToErase}
      BY DEF Watched, ToTime, ToDist, ToErase
    <3> QED
      BY <1>3, <1>6, <2>1, <3>1 DEF TimeDue, DistDue
  <2>6. Life(x)'
    BY <1>1, <1>2, <1>6, <2>3, <2>5 DEF Life, Calm
  <2> QED
    BY <2>4, <2>6, OthersLive
<1>7. CASE StartRefused(x, o, 1)
  <2>1. /\ UNCHANGED <<time, dist, apiQ>> /\ owed' = Owed(x, 1, FALSE)
    BY <1>7 DEF StartRefused, sessVars
  <2>2. \A J \in Watched, s \in Sessions : Asked(J, s)' <=> Asked(J, s)
    BY <2>1 DEF Asked
  <2> QED
    BY <1>2, <1>6, <2>1, <2>2
<1>8. CASE StartDistance(x, o, 1)
  <2> DEFINE r == Request("startDbt", {x}, NoOpt, "dbtStart", NoOpt)
             p == Clamped(o)
  <2>1. /\ apiQ' = Append(apiQ, r) /\ owed' = Owed(x, 1, FALSE)
        /\ o \in TrackingOptions /\ o.far /\ DistSupported
        /\ SaveTrackingSession(time, dist, x, p)
    BY <1>8, TrackingAssumption DEF StartDistance, StartAllowed
  <2>2. r \in ReqShape /\ r.k = "dbtStart" /\ Side(r.k, r.ro)
    BY <2>1, DistanceRequests DEF Request, Side, ToTime, ToDist
  <2>3. p \in TrackingOptions /\ p.far /\ DistSupported
    <3>1. p \in TrackingOptions /\ p.far = o.far
      BY <2>1, ClampedOptions
    <3> QED
      BY <2>1, <3>1
  <2> HIDE DEF r, p
  <2>4. /\ \A J \in Watched, s \in Sessions : Asked(J, s)' <=> Asked(J, s)
        /\ Has(apiQ', WrongReq) <=> Has(apiQ, WrongReq)
    BY <2>1, <2>2, AppendAsked, WatchedKinds
  <2>5. /\ \A s \in Sessions \ {x} : time'[s] = time[s] /\ dist'[s] = dist[s]
        /\ time'[x] = NoOpt
    BY <1>2, <1>5, <2>1, <2>3, SaveAt DEF Tables
  <2> QED
    BY <1>6, <2>1, <2>4, <2>5
<1>9. CASE StartTime(x, o, 1)
  <2> DEFINE p == M2Fallback(Clamped(o))
             out == StartMultiplex(x, p)
  <2>1. /\ Post(out, <<>>) /\ owed' = Owed(x, 1, out.now)
        /\ o \in TrackingOptions /\ ~(o.far /\ DistSupported)
        /\ SaveTrackingSession(time, dist, x, p)
    BY <1>9, TrackingAssumption DEF StartTime, StartAllowed
  <2>2. p \in TrackingOptions /\ p.far = o.far
    BY <2>1, ClampedOptions
  <2> HIDE DEF p
  <2>3. Posts(out, x, {"start"})
    BY <2>2, MultiplexPosts
  <2> HIDE DEF out
  <2>4. /\ \A J \in Watched, s \in Sessions : Asked(J, s)' <=> Asked(J, s)
        /\ Has(apiQ', WrongReq) <=> Has(apiQ, WrongReq)
    <3>1. <<>> \in Seq(ReqShape) /\ Silent(<<>>)
      BY EmptySeq DEF Silent
    <3> QED
      BY <2>1, <2>3, <3>1, OutcomeAsked
  <2>5. /\ \A s \in Sessions \ {x} : time'[s] = time[s] /\ dist'[s] = dist[s]
        /\ time'[x] = p /\ dist'[x] = NoOpt
    BY <1>2, <1>5, <2>1, <2>2, SaveAt DEF Tables
  <2>6. out.now \in BOOLEAN
    BY <2>3 DEF Posts
  <2> QED
    BY <1>6, <2>1, <2>2, <2>4, <2>5, <2>6
<1> QED
  BY <1>1, <1>4, <1>7, <1>8, <1>9 DEF StartTracking

(* The state in which a command of a client that waited finds session x.   *)
LEMMA ReadyLife ==
    ASSUME Shape, Accounts, Lives, NEW x \in Sessions, x \notin hasty,
           removing = NoClient, Owner[x] \in clients, owed[x] = 0
    PROVE  /\ Calm(x) /\ ~TimeDue(x) /\ ~DistDue(x) /\ ~StopDue(x)
           /\ x \in over => time[x] = NoOpt /\ dist[x] = NoOpt
<1>1. Owner[x] # NoClient
  BY TrackingAssumption
<1>2. \A J \in Watched \ {ToErase} : ~Asked(J, x) /\ ~Told(J, x)
  BY <1>1, NothingUnderWay
<1>3. /\ ToTime \in Watched \ {ToErase} /\ ToDist \in Watched \ {ToErase}
      /\ ToStop \in Watched \ {ToErase}
  BY DEF Watched, ToTime, ToDist, ToStop, ToErase
<1>4. ~TimeDue(x) /\ ~DistDue(x) /\ ~StopDue(x)
  BY <1>2, <1>3 DEF TimeDue, DistDue, StopDue
<1> QED
  BY <1>1, <1>4 DEF Lives, Life, Calm

(* What updateTrackingMultiplex posts carries the old options.             *)
LEMMA UpdateAsked ==
    ASSUME Shape, NEW x \in Sessions, NEW p \in TrackingOptions, x \in TimeSet,
           ~(time[x].far /\ DistSupported), Post(UpdateMultiplex(x, p), <<>>)
    PROVE  /\ \A J \in Watched, s \in Sessions \ {x} : Asked(J, s)' <=> Asked(J, s)
           /\ Asked(ToDist, x)' => Asked(ToDist, x)
           /\ Has(apiQ', WrongReq) <=> Has(apiQ, WrongReq)
<1> DEFINE out == UpdateMultiplex(x, p)
<1>1. \/ out.reqs = <<>>
      \/ \E o : out.reqs = <<Request("start", {x}, o, "update", time[x])>>
  BY DEF UpdateMultiplex, StartEngine, Outcome
<1>2. Posts(out, x, {"update"})
  BY MultiplexPosts
<1>3. apiQ \in Seq(ReqShape)
  BY DEF Shape, AdapterOK
<1>4. apiQ' = apiQ \o out.reqs \o <<>>
  BY DEF Post
<1> HIDE DEF out
<1>5. CASE out.reqs = <<>>
  <2>1. apiQ' = apiQ
    BY <1>3, <1>4, <1>5, ConcatEmptySeq
  <2> QED
    BY <2>1 DEF Asked
<1>6. ASSUME NEW o, out.reqs = <<Request("start", {x}, o, "update", time[x])>>
      PROVE  /\ \A J \in Watched, s \in Sessions \ {x} : Asked(J, s)' <=> Asked(J, s)
             /\ Asked(ToDist, x)' => Asked(ToDist, x)
             /\ Has(apiQ', WrongReq) <=> Has(apiQ, WrongReq)
  <2> DEFINE r == Request("start", {x}, o, "update", time[x])
  <2>1. r.k = "update" /\ r.ids = {x} /\ r.ro = time[x]
    BY DEF Request
  <2>2. out.reqs = <<r>>
    BY <1>6
  <2> HIDE DEF r
  <2>3. r \in ReqShape
    BY <1>2, <2>2 DEF Posts
  <2>4. apiQ' = Append(apiQ, r)
    <3>1. apiQ \o <<r>> \in Seq(ReqShape)
      BY <1>3, <2>3, ConcatProperties
    <3> QED
      BY <1>3, <1>4, <2>2, <2>3, <3>1, ConcatEmptySeq, AppendIsConcat
  <2>5. Side(r.k, r.ro)
    BY <2>1 DEF Side, ToTime, ToDist
  <2>6. /\ \A J \in Watched, s \in Sessions :
             Asked(J, s)' <=> Asked(J, s) \/ (r.k \in J /\ s \in r.ids)
        /\ Has(apiQ', WrongReq) <=> Has(apiQ, WrongReq)
    BY <2>3, <2>4, <2>5, AppendAsked
  <2>7. ToDist \in Watched /\ r.k \notin ToDist
    BY <2>1 DEF Watched, ToDist
  <2> QED
    BY <2>1, <2>6, <2>7
<1> QED
  BY <1>1, <1>5, <1>6

(* MsgUpdateTracking::proc.                                                *)
LEMMA UpdateLife ==
    ASSUME CapsAtStart, Shape, Boot, Accounts, Sided, Lives,
           NEW x \in Sessions, NEW o \in Options \cup {NoOpt}, Update(x, o)
    PROVE  Sided' /\ Lives'
<1>1. /\ removing = NoClient /\ x \in started /\ Owner[x] \in clients
      /\ UNCHANGED <<clients, removing, adQ, over, started>>
      /\ UpdateTracking(x, o, 1)
      /\ hasty' = hasty \cup {s \in {x} : owed[s] # 0}
  BY DEF Update, AdapterIdle, Hurried
<1>2. x \notin hasty' =>
         /\ owed[x] = 0 /\ Calm(x)
         /\ ~TimeDue(x) /\ ~DistDue(x) /\ ~StopDue(x)
         /\ x \in over => time[x] = NoOpt /\ dist[x] = NoOpt
  BY <1>1, ReadyLife
<1>3. ~MustWait(o) /\ ~UpdateKept(x, o, 1)
  BY DEF Boot, MustWait, UpdateKept
<1>4. Tables /\ Life(x) /\ Owner[x] # NoClient
  BY TrackingAssumption DEF Shape, AdapterOK, Lives
<1>5. \A J \in Watched, s \in Sessions : Told(J, s)' <=> Told(J, s)
  BY <1>1 DEF Told
<1>6. ASSUME \A J \in Watched, s \in Sessions \ {x} : Asked(J, s)' <=> Asked(J, s),
             Has(apiQ', WrongReq) <=> Has(apiQ, WrongReq),
             \A s \in Sessions \ {x} : time'[s] = time[s] /\ dist'[s] = dist[s],
             time'[x] # NoOpt => ~(time'[x].far /\ DistSupported),
             dist'[x] # NoOpt => DistSupported,
             x \notin hasty' =>
               /\ time'[x] = NoOpt \/ dist'[x] = NoOpt
               /\ Asked(ToTime, x)' => Asked(ToTime, x) \/ (dist'[x] = NoOpt /\ x \notin over)
               /\ Asked(ToDist, x)' => Asked(ToDist, x) \/ (time'[x] = NoOpt /\ x \notin over)
               /\ x \in over => time'[x] = NoOpt /\ dist'[x] = NoOpt,
             NEW now \in BOOLEAN, owed' = Owed(x, 1, now)
      PROVE  Sided' /\ Lives'
  <2>1. Sided'
    BY <1>1, <1>6 DEF Sided
  <2>2. /\ x \notin hasty' => owed'[x] <= 1
        /\ \A s \in Sessions \ {x} : owed'[s] = owed[s]
    BY <1>1, <1>2, <1>6, OwedFacts
  <2>3. Others(x)
    BY <1>1, <1>5, <1>6, <2>1, <2>2 DEF Others
  <2>4. x \notin hasty' => /\ TimeDue(x)' => dist'[x] = NoOpt /\ x \notin over
                           /\ DistDue(x)' => time'[x] = NoOpt /\ x \notin over
    <3>1. ToTime \in Watched /\ ToDist \in Watched
      BY DEF Watched
    <3> QED
      BY <1>2, <1>5, <1>6, <3>1 DEF TimeDue, DistDue
  <2>5. Life(x)'
    BY <1>1, <1>2, <1>4, <1>6, <2>2, <2>4 DEF Life, Calm
  <2> QED
    BY <2>3, <2>5, OthersLive
<1> DEFINE p == M2Fallback(Clamped(o))
<1>7. UpdateAllowed(x, o) => /\ o \in TrackingOptions /\ p \in TrackingOptions
                             /\ p.far = o.far
  BY TrackingAssumption, ClampedOptions DEF UpdateAllowed
<1> HIDE DEF p
<1>8. ToTime \in Watched /\ ToDist \in Watched
  BY DEF Watched
<1>9. CASE UpdateRefused(x, o, 1)
  <2>1. UNCHANGED <<time, dist, apiQ>> /\ owed' = Owed(x, 1, TRUE)
    BY <1>9 DEF UpdateRefused, sessVars
  <2>2. \A J, s : Asked(J, s)' <=> Asked(J, s)
    BY <2>1 DEF Asked
  <2> QED
    BY <1>2, <1>4, <1>6, <2>1, <2>2 DEF Life, Calm
<1>10. CASE UpdateToDistance(x, o, 1)
  <2> DEFINE out == StopMultiplex(x)
             a == Request("startDbt", {x}, NoOpt, "none", NoOpt)
             more == <<a>>
  <2>1. /\ UpdateAllowed(x, o) /\ Post(out, more) /\ o.far
        /\ SaveTrackingSession(Erased(x).t, Erased(x).d, x, p)
        /\ owed' = Owed(x, 1, out.now) /\ time[x] # NoOpt
    BY <1>10 DEF UpdateToDistance, p, TimeSet
  <2>2. a \in ReqShape /\ a.k = "none" /\ a.op # "open"
    BY <1>7, <2>1, DistanceRequests DEF Request
  <2>3. more \in Seq(ReqShape) /\ Silent(more)
    <3> HIDE DEF a
    <3> QED
      BY <2>2 DEF Silent
  <2>4. Posts(out, x, {"start", "stop"})
    BY MultiplexPosts
  <2> HIDE DEF out, more
  <2>5. out.now \in BOOLEAN
    BY <2>4 DEF Posts
  <2>6. /\ \A J \in Watched, s \in Sessions : Asked(J, s)' <=> Asked(J, s)
        /\ Has(apiQ', WrongReq) <=> Has(apiQ, WrongReq)
    BY <2>1, <2>3, <2>4, OutcomeAsked
  <2>7. /\ Erased(x).t \in [Sessions -> OptOrNone] /\ Erased(x).d \in [Sessions -> OptOrNone]
        /\ Erased(x).t[x] = NoOpt
        /\ ~DistSupported \/ x \notin hasty' => Erased(x).d[x] = NoOpt
        /\ \A s \in Sessions \ {x} : Erased(x).t[s] = time[s] /\ Erased(x).d[s] = dist[s]
    BY <1>2, <1>4, <2>1, EraseTables, EraseAt DEF Life, Calm
  <2>8. p \in TrackingOptions /\ p.far
    BY <1>7, <2>1
  <2>9. /\ \A s \in Sessions \ {x} : time'[s] = time[s] /\ dist'[s] = dist[s]
        /\ DistSupported => time'[x] = NoOpt /\ dist'[x] = p
        /\ ~DistSupported => time'[x] = p /\ dist'[x] = NoOpt
    BY <2>1, <2>7, <2>8, SaveAt
  <2>10. x \notin hasty' => x \notin over
    BY <1>2, <2>1
  <2> QED
    BY <1>6, <1>8, <2>1, <2>5, <2>6, <2>9, <2>10
<1>11. CASE UpdateToTime(x, o, 1)
  <2> DEFINE r == Request("stopDbt", {x}, NoOpt, "switch", p)
  <2>1. /\ UpdateAllowed(x, o) /\ apiQ' = Append(apiQ, r) /\ ~o.far
        /\ EraseTrackingSession(x) /\ owed' = Owed(x, 1, FALSE) /\ dist[x] # NoOpt
    BY <1>11 DEF UpdateToTime, p, DistSet
  <2>2. r \in ReqShape /\ r.ids = {x} /\ r.k = "switch" /\ r.ro = p
    BY <1>7, <2>1, DistanceRequests DEF Request
  <2> HIDE DEF r
  <2>3. Side(r.k, r.ro) /\ r.k \notin ToDist
    BY <1>7, <2>1, <2>2 DEF Side, ToTime, ToDist
  <2>4. /\ \A J \in Watched, s \in Sessions :
             Asked(J, s)' <=> Asked(J, s) \/ (r.k \in J /\ s \in r.ids)
        /\ Has(apiQ', WrongReq) <=> Has(apiQ, WrongReq)
    BY <2>1, <2>2, <2>3, AppendAsked
  <2>5. x \notin hasty' => time[x] = NoOpt /\ x \notin over
    BY <1>2, <2>1 DEF Calm
  <2>6. /\ \A s \in Sessions \ {x} : time'[s] = time[s] /\ dist'[s] = dist[s]
        /\ time'[x] = NoOpt /\ dist'[x] \in {dist[x], NoOpt}
        /\ x \notin hasty' => dist'[x] = NoOpt
    BY <1>4, <2>1, <2>5, EraseAt DEF EraseTrackingSession
  <2>7. dist'[x] # NoOpt => DistSupported
    BY <1>4, <2>6 DEF Life
  <2> QED
    BY <1>6, <1>8, <2>1, <2>2, <2>3, <2>4, <2>5, <2>6, <2>7
<1>12. CASE UpdateTime(x, o, 1)
  <2> DEFINE out == UpdateMultiplex(x, p)
  <2>1. /\ UpdateAllowed(x, o) /\ x \in TimeSet /\ Post(out, <<>>) /\ ~o.far
        /\ SaveTrackingSession(time, dist, x, p) /\ owed' = Owed(x, 1, out.now)
        /\ time[x] # NoOpt /\ dist[x] = NoOpt
    BY <1>12 DEF UpdateTime, p, TimeSet, DistSet
  <2>2. p \in TrackingOptions /\ ~p.far
    BY <1>7, <2>1
  <2>3. ~(time[x].far /\ DistSupported) /\ (x \notin hasty' => x \notin over)
    BY <1>2, <1>4, <2>1 DEF Life
  <2>4. /\ \A J \in Watched, s \in Sessions \ {x} : Asked(J, s)' <=> Asked(J, s)
        /\ Asked(ToDist, x)' => Asked(ToDist, x)
        /\ Has(apiQ', WrongReq) <=> Has(apiQ, WrongReq)
    BY <2>1, <2>2, <2>3, UpdateAsked
  <2>5. Posts(out, x, {"update"})
    BY <2>1, <2>2, MultiplexPosts
  <2> HIDE DEF out
  <2>6. out.now \in BOOLEAN
    BY <2>5 DEF Posts
  <2>7. /\ \A s \in Sessions \ {x} : time'[s] = time[s] /\ dist'[s] = dist[s]
        /\ time'[x] = p /\ dist'[x] = NoOpt
    BY <1>4, <2>1, <2>2, <2>3, SaveAt DEF Tables
  <2> QED
    BY <1>6, <2>1, <2>2, <2>3, <2>4, <2>6, <2>7
<1>13. CASE UpdateDistance(x, o, 1)
  <2> DEFINE r == Request("stopDbt", {x}, NoOpt, "restart", p)
  <2>1. /\ UpdateAllowed(x, o) /\ apiQ' = Append(apiQ, r) /\ o.far
        /\ UNCHANGED <<time, dist>> /\ owed' = Owed(x, 1, FALSE)
        /\ dist[x] # NoOpt /\ time[x] = NoOpt
    BY <1>13 DEF UpdateDistance, p, TimeSet, DistSet, sessVars
  <2>2. r \in ReqShape /\ r.ids = {x} /\ r.k = "restart" /\ r.ro = p
    BY <1>7, <2>1, DistanceRequests DEF Request
  <2> HIDE DEF r
  <2>3. (x \notin hasty' => x \notin over) /\ DistSupported
    BY <1>2, <1>4, <2>1 DEF Life
  <2>4. Side(r.k, r.ro) /\ r.k \notin ToTime
    BY <1>7, <2>1, <2>2, <2>3 DEF Side, ToTime, ToDist
  <2>5. /\ \A J \in Watched, s \in Sessions :
             Asked(J, s)' <=> Asked(J, s) \/ (r.k \in J /\ s \in r.ids)
        /\ Has(apiQ', WrongReq) <=> Has(apiQ, WrongReq)
    BY <2>1, <2>2, <2>4, AppendAsked
  <2> QED
    BY <1>6, <1>8, <2>1, <2>2, <2>3, <2>4, <2>5
<1> QED
  BY <1>1, <1>3, <1>9, <1>10, <1>11, <1>12, <1>13 DEF UpdateTracking

(* MsgStopTracking::proc.                                                  *)
LEMMA StopLife ==
    ASSUME Shape, Accounts, Sided, Lives, NEW x \in Sessions, Stop(x)
    PROVE  Sided' /\ Lives'
<1>1. /\ removing = NoClient /\ x \in started /\ Owner[x] \in clients
      /\ UNCHANGED <<clients, removing, adQ, started>> /\ over' = over \cup {x}
      /\ StopUnknown(x) \/ StopTime(x) \/ StopDistance(x)
      /\ hasty' = hasty \cup {s \in {x} : owed[s] # 0}
  BY DEF Stop, AdapterIdle, Hurried
<1>2. x \notin hasty' => owed[x] = 0 /\ Calm(x) /\ ~TimeDue(x) /\ ~DistDue(x)
  BY <1>1, ReadyLife
<1>3. Tables /\ Life(x) /\ Owner[x] # NoClient
  BY TrackingAssumption DEF Shape, AdapterOK, Lives
<1>4. \A J \in Watched, s \in Sessions : Told(J, s)' <=> Told(J, s)
  BY <1>1 DEF Told
<1>5. ToTime \in Watched /\ ToDist \in Watched /\ ToStop \in Watched
  BY DEF Watched
<1>6. ASSUME \A J \in Watched, s \in Sessions \ {x} : Asked(J, s)' <=> Asked(J, s),
             Has(apiQ', WrongReq) <=> Has(apiQ, WrongReq),
             \A s \in Sessions \ {x} : /\ time'[s] = time[s] /\ dist'[s] = dist[s]
                                       /\ owed'[s] = owed[s],
             time'[x] = NoOpt, dist'[x] # NoOpt => DistSupported,
             x \notin hasty' => /\ dist'[x] # NoOpt => Asked(ToStop, x)'
                               /\ owed'[x] <= 1,
             Asked(ToTime, x)' => Asked(ToTime, x),
             Asked(ToDist, x)' => Asked(ToDist, x)
      PROVE  Sided' /\ Lives'
  <2>1. Sided'
    BY <1>1, <1>6 DEF Sided
  <2>2. Others(x)
    BY <1>1, <1>4, <1>6, <2>1 DEF Others
  <2>3. x \notin hasty' => /\ ~TimeDue(x)' /\ ~DistDue(x)'
                           /\ dist'[x] # NoOpt => StopDue(x)'
    BY <1>2, <1>4, <1>5, <1>6 DEF TimeDue, DistDue, StopDue
  <2>4. Life(x)'
    BY <1>1, <1>2, <1>3, <1>6, <2>3 DEF Life, Calm
  <2> QED
    BY <2>2, <2>4, OthersLive
<1>7. CASE StopUnknown(x)
  <2>1. UNCHANGED <<time, dist, apiQ, owed>> /\ time[x] = NoOpt /\ dist[x] = NoOpt
    BY <1>7 DEF StopUnknown, sessVars, TimeSet, DistSet
  <2>2. \A J, s : Asked(J, s)' <=> Asked(J, s)
    BY <2>1 DEF Asked
  <2> QED
    BY <1>2, <1>6, <2>1, <2>2
<1>8. CASE StopTime(x)
  <2> DEFINE out == StopMultiplex(x)
  <2>1. /\ Post(out, <<>>) /\ owed' = Owed(x, 1, out.now)
        /\ EraseTrackingSession(x) /\ time[x] # NoOpt
    BY <1>8 DEF StopTime, TimeSet
  <2>2. Posts(out, x, {"start", "stop"})
    BY MultiplexPosts
  <2> HIDE DEF out
  <2>3. out.now \in BOOLEAN
    BY <2>2 DEF Posts
  <2>4. /\ \A J \in Watched, s \in Sessions : Asked(J, s)' <=> Asked(J, s)
        /\ Has(apiQ', WrongReq) <=> Has(apiQ, WrongReq)
    <3>1. <<>> \in Seq(ReqShape) /\ Silent(<<>>)
      BY EmptySeq DEF Silent
    <3> QED
      BY <2>1, <2>2, <3>1, OutcomeAsked
  <2>5. /\ \A s \in Sessions \ {x} : time'[s] = time[s] /\ dist'[s] = dist[s]
        /\ time'[x] = NoOpt /\ dist'[x] = dist[x]
        /\ x \notin hasty' => dist'[x] = NoOpt
    BY <1>2, <1>3, <2>1, EraseAt DEF EraseTrackingSession, Calm
  <2>6. (x \notin hasty' => owed'[x] <= 1) /\ \A s \in Sessions \ {x} : owed'[s] = owed[s]
    BY <1>1, <1>2, <2>1, <2>3, OwedFacts
  <2> QED
    BY <1>3, <1>5, <1>6, <2>4, <2>5, <2>6 DEF Life
<1>9. CASE StopDistance(x)
  <2> DEFINE r == Request("stopDbt", {x}, NoOpt, "dbtStop", NoOpt)
  <2>1. /\ apiQ' = Append(apiQ, r) /\ owed' = Owed(x, 1, FALSE)
        /\ UNCHANGED <<time, dist>> /\ dist[x] # NoOpt /\ time[x] = NoOpt
    BY <1>9 DEF StopDistance, sessVars, TimeSet, DistSet
  <2>2. r \in ReqShape /\ r.ids = {x} /\ r.k = "dbtStop"
    <3>1. dist[x] \in TrackingOptions
      BY <1>3, <2>1 DEF Tables, OptOrNone
    <3> QED
      BY <3>1, DistanceRequests DEF Request
  <2> HIDE DEF r
  <2>3. Side(r.k, r.ro) /\ r.k \notin ToTime /\ r.k \notin ToDist /\ r.k \in ToStop
    BY <2>2 DEF Side, ToTime, ToDist, ToStop
  <2>4. /\ \A J \in Watched, s \in Sessions :
             Asked(J, s)' <=> Asked(J, s) \/ (r.k \in J /\ s \in r.ids)
        /\ Has(apiQ', WrongReq) <=> Has(apiQ, WrongReq)
    BY <2>1, <2>2, <2>3, AppendAsked
  <2>5. (x \notin hasty' => owed'[x] <= 1) /\ \A s \in Sessions \ {x} : owed'[s] = owed[s]
    <3>1. /\ owed'[x] = owed[x] + 1 - 0
          /\ \A s \in Sessions \ {x} : owed'[s] = owed[s]
      BY <1>1, <2>1, OwedFacts
    <3> QED
      BY <1>2, <3>1
  <2>6. DistSupported
    BY <1>3, <2>1 DEF Life
  <2> QED
    BY <1>5, <1>6, <2>1, <2>2, <2>3, <2>4, <2>5, <2>6
<1> QED
  BY <1>1, <1>7, <1>8, <1>9

(* MsgRemoveClient::proc: the client is told no more,                      *)
LEMMA RemoveClientLife ==
    ASSUME Shape, Accounts, Sided, Lives, NEW c \in Clients, RemoveClient(c)
    PROVE  Sided' /\ Lives'
<1>1. /\ removing = NoClient /\ removing' = c /\ c \in clients
      /\ over' = over \cup {s \in Sessions : Owner[s] = c}
      /\ hasty' = hasty \cup {s \in {y \in Sessions : Owner[y] = c} : owed[s] # 0}
      /\ UNCHANGED <<apiQ, adQ, clients, owed, time, dist, started>>
  BY DEF RemoveClient, AdapterIdle, Owned, Hurried, sessVars
<1>2. Sided'
  BY <1>1 DEF Sided
<1>3. ASSUME NEW s \in Sessions PROVE Life(s)'
  <2>1. /\ TimeDue(s)' <=> TimeDue(s)
        /\ DistDue(s)' <=> DistDue(s)
        /\ StopDue(s)' <=> StopDue(s)
        /\ EraseDue(s)' <=> EraseDue(s)
    BY <1>1 DEF TimeDue, DistDue, StopDue, EraseDue, Asked, Told
  <2>2. Life(s) /\ Owner[s] # NoClient
    BY TrackingAssumption DEF Lives
  <2>3. CASE Owner[s] = c
    <3>1. s \notin hasty' => Calm(s) /\ ~TimeDue(s) /\ ~DistDue(s)
      BY <1>1, <2>3, ReadyLife
    <3> QED
      BY <1>1, <2>1, <2>2, <2>3, <3>1 DEF Life, Calm
  <2>4. CASE Owner[s] # c
    BY <1>1, <2>1, <2>2, <2>4 DEF Life, Calm
  <2> QED
    BY <2>3, <2>4
<1> QED
  BY <1>2, <1>3 DEF Lives

(* its time based sessions end one by one,                                 *)
LEMMA RemoveTimeLife ==
    ASSUME Shape, Sided, Lives, NEW x \in Sessions, RemoveTime(x)
    PROVE  Sided' /\ Lives'
<1> DEFINE out == StopMultiplex(x)
<1>1. /\ Post(out, <<>>) /\ EraseTrackingSession(x) /\ time[x] # NoOpt
      /\ UNCHANGED <<owed, clients, removing, adQ, started, over, hasty>>
  BY DEF RemoveTime, histVars, TimeSet
<1>2. Posts(out, x, {"start", "stop"})
  BY MultiplexPosts
<1> HIDE DEF out
<1>3. /\ \A J \in Watched, s \in Sessions : Asked(J, s)' <=> Asked(J, s)
      /\ Has(apiQ', WrongReq) <=> Has(apiQ, WrongReq)
  <2>1. <<>> \in Seq(ReqShape) /\ Silent(<<>>)
    BY EmptySeq DEF Silent
  <2> QED
    BY <1>1, <1>2, <2>1, OutcomeAsked
<1>4. \A J \in Watched, s \in Sessions : Told(J, s)' <=> Told(J, s)
  BY <1>1 DEF Told
<1>5. Tables /\ Life(x)
  BY DEF Shape, AdapterOK, Lives
<1>6. /\ \A s \in Sessions \ {x} : time'[s] = time[s] /\ dist'[s] = dist[s]
      /\ time'[x] = NoOpt /\ dist'[x] = dist[x]
  BY <1>1, <1>5, EraseAt DEF EraseTrackingSession
<1>7. Sided'
  BY <1>1, <1>3 DEF Sided
<1>8. Others(x)
  BY <1>1, <1>3, <1>4, <1>6, <1>7 DEF Others
<1>9. /\ TimeDue(x)' => TimeDue(x)
      /\ DistDue(x)' => DistDue(x)
      /\ StopDue(x) => StopDue(x)'
      /\ EraseDue(x) => EraseDue(x)'
  <2>1. ToTime \in Watched /\ ToDist \in Watched /\ ToStop \in Watched /\ ToErase \in Watched
    BY DEF Watched
  <2> QED
    BY <1>3, <1>4, <2>1 DEF TimeDue, DistDue, StopDue, EraseDue
<1>10. (x \notin hasty => owed[x] <= 1) /\ (x \notin started => owed[x] = 0)
  BY <1>5 DEF Life, Calm
<1>11. Life(x)'
  BY <1>1, <1>5, <1>6, <1>9, <1>10, LifeShrinks
<1> QED
  BY <1>8, <1>11, OthersLive

(* and the distance based ones with one request, before it is forgotten.   *)
LEMMA RemoveRestLife ==
    ASSUME Shape, Boot, Sided, Lives, RemoveRest
    PROVE  Sided' /\ Lives'
<1> DEFINE mine == Owned(removing) \cap DistSet
           r == Request("stopDbt", mine, NoOpt, "erase", NoOpt)
<1>1. /\ removing # NoClient /\ Owned(removing) \cap TimeSet = {}
      /\ apiQ' = IF mine = {} THEN apiQ ELSE Append(apiQ, r)
      /\ clients' = clients \ {removing} /\ removing' = NoClient
      /\ owed' = [s \in Sessions |-> IF s \in Owned(removing) THEN 0 ELSE owed[s]]
      /\ UNCHANGED <<time, dist, adQ, started, over, hasty>>
  BY DEF RemoveRest, histVars, sessVars
<1>2. /\ r.k = "erase" /\ r.ids = mine
      /\ r.k \notin ToTime /\ r.k \notin ToDist /\ r.k \notin ToStop /\ r.k \in ToErase
      /\ Side(r.k, r.ro)
  BY DEF Request, Side, ToTime, ToDist, ToStop, ToErase
<1>3. mine # {} => r \in ReqShape
  <2>1. ASSUME mine # {} PROVE r \in ReqShape
    <3>1. PICK x \in mine : TRUE
      BY <2>1
    <3>2. x \in Sessions /\ dist[x] \in TrackingOptions /\ mine \in SUBSET Sessions
      BY DEF DistSet, Owned, Shape, AdapterOK, Tables, OptOrNone
    <3> HIDE DEF mine
    <3> QED
      BY <3>2, DistanceRequests
  <2> QED
    BY <2>1
<1>4. \A s \in Sessions : s \in mine <=> Owner[s] = removing /\ dist[s] # NoOpt
  BY DEF Owned, DistSet
<1>5. \A s \in Sessions : Owner[s] = removing => time[s] = NoOpt
  BY <1>1 DEF Owned, TimeSet
<1>6. /\ \A J \in Watched, s \in Sessions :
           Asked(J, s)' <=> Asked(J, s) \/ (r.k \in J /\ s \in mine)
      /\ Has(apiQ', WrongReq) <=> Has(apiQ, WrongReq)
  <2> HIDE DEF r, mine
  <2>1. CASE mine = {}
    BY <1>1, <2>1 DEF Asked
  <2>2. CASE mine # {}
    <3>1. r \in ReqShape /\ apiQ' = Append(apiQ, r) /\ Side(r.k, r.ro) /\ r.ids = mine
      BY <1>1, <1>2, <1>3, <2>2
    <3> QED
      BY <3>1, AppendAsked
  <2> QED
    BY <2>1, <2>2
<1> HIDE DEF mine, r
<1>7. \A J \in Watched, s \in Sessions : Told(J, s)' <=> Told(J, s)
  BY <1>1 DEF Told
<1>8. Sided'
  BY <1>1, <1>6 DEF Sided
<1>9. ASSUME NEW s \in Sessions PROVE Life(s)'
  <2>1. ToTime \in Watched /\ ToDist \in Watched /\ ToStop \in Watched /\ ToErase \in Watched
    BY DEF Watched
  <2>2. /\ TimeDue(s)' <=> TimeDue(s)
        /\ DistDue(s)' <=> DistDue(s)
        /\ StopDue(s)' <=> StopDue(s)
        /\ EraseDue(s) => EraseDue(s)'
        /\ s \in mine => EraseDue(s)'
    BY <1>2, <1>6, <1>7, <2>1 DEF TimeDue, DistDue, StopDue, EraseDue
  <2>3. Life(s) /\ Owner[s] # NoClient
    BY TrackingAssumption DEF Lives
  <2>4. CASE Owner[s] = removing
    <3>1. time[s] = NoOpt /\ (dist[s] # NoOpt => EraseDue(s)') /\ owed'[s] = 0
      BY <1>1, <1>4, <1>5, <2>2, <2>4 DEF Owned
    <3> QED
      BY <1>1, <2>2, <2>3, <2>4, <3>1 DEF Life, Calm
  <2>5. CASE Owner[s] # removing
    <3>1. owed'[s] = owed[s]
      BY <1>1, <2>5 DEF Owned
    <3> QED
      BY <1>1, <2>2, <2>3, <2>5, <3>1 DEF Life, Calm
  <2> QED
    BY <2>4, <2>5
<1> QED
  BY <1>8, <1>9 DEF Lives

-----------------------------------------------------------------------------
(* Responses.  What every handler of a response for session x finds.       *)
LEMMA TakenFacts ==
    ASSUME Shape, Accounts, Sided, Lives, NEW k, Handle(k),
           k \notin {"erase", "engineUp"}, NEW x \in Sessions, Head(adQ).ids = {x}
    PROVE  /\ removing = NoClient /\ Owner[x] # NoClient
           /\ UNCHANGED <<clients, removing, started, over, hasty>>
           /\ \A J \in Watched, s \in Sessions \ {x} : Told(J, s)' <=> Told(J, s)
           /\ \A J \in Watched : /\ Told(J, x)' => Told(J, x)
                                 /\ k \notin J => (Told(J, x)' <=> Told(J, x))
                                 /\ k \in J => Told(J, x)
           /\ ~Has(adQ', WrongMsg) /\ Side(k, Head(adQ).o)
           /\ k \notin {"startCmd", "updateCmd"}
           /\ x \notin hasty /\ Owner[x] \in clients =>
                /\ owed[x] = 1 /\ x \in started
                /\ \A J \in Watched \ {ToErase} : ~Asked(J, x) /\ ~Told(J, x)'
<1>1. /\ adQ # <<>> /\ adQ' = Tail(adQ) /\ Head(adQ).k = k /\ removing = NoClient
      /\ UNCHANGED <<clients, removing, started, over, hasty>>
  BY DEF Handle, AdapterIdle, histVars
<1>2. /\ \A J \in Watched, s \in Sessions : Told(J, s) <=> Told(J, s)' \/ (k \in J /\ s = x)
      /\ ~Has(adQ', WrongMsg) /\ Head(adQ) \notin WrongMsg /\ Head(adQ) \in MsgShape
  BY <1>1, TakeTold DEF Sided
<1>3. Side(k, Head(adQ).o) /\ k \notin {"startCmd", "updateCmd"}
  BY <1>1, <1>2 DEF WrongMsg
<1>4. /\ Owner[x] # NoClient /\ (x \notin hasty => owed[x] <= 1)
      /\ x \notin started => owed[x] = 0
  BY TrackingAssumption DEF Lives, Life, Calm
<1>5. ASSUME x \notin hasty, Owner[x] \in clients
      PROVE  /\ owed[x] = 1 /\ x \in started
             /\ \A J \in Watched \ {ToErase} : ~Asked(J, x) /\ ~Told(J, x)'
  BY <1>1, <1>4, <1>5, LastUnderWay
<1> QED
  BY <1>1, <1>2, <1>3, <1>4, <1>5

(* A response after which x is in no new table.                            *)
LEMMA AnswerLife ==
    ASSUME Shape, Accounts, Sided, Lives, NEW k, Handle(k),
           k \notin {"erase", "engineUp"}, NEW x \in Sessions, Head(adQ).ids = {x},
           UNCHANGED apiQ, NEW now \in BOOLEAN, now, owed' = Owed(x, 0, now),
           \A s \in Sessions \ {x} : time'[s] = time[s] /\ dist'[s] = dist[s],
           time'[x] \in {time[x], NoOpt}, dist'[x] \in {dist[x], NoOpt},
           k = "dbtStop" /\ x \notin hasty => dist'[x] = NoOpt
    PROVE  Sided' /\ Lives'
<1>1. /\ UNCHANGED <<clients, removing, started, over, hasty>>
      /\ \A J \in Watched, s \in Sessions \ {x} : Told(J, s)' <=> Told(J, s)
      /\ \A J \in Watched : /\ Told(J, x)' => Told(J, x)
                            /\ k \notin J => (Told(J, x)' <=> Told(J, x))
      /\ ~Has(adQ', WrongMsg)
      /\ x \notin hasty /\ Owner[x] \in clients => owed[x] = 1 /\ x \in started
  BY TakenFacts
<1>2. \A J, s : Asked(J, s)' <=> Asked(J, s)
  BY DEF Asked
<1>3. Sided'
  BY <1>1 DEF Sided
<1>4. /\ \A s \in Sessions \ {x} : owed'[s] = owed[s]
      /\ Owner[x] \in clients => owed'[x] = owed[x] + 0 - 1
      /\ Owner[x] \notin clients => owed'[x] = owed[x]
  BY OwedFacts
<1>5. Others(x)
  BY <1>1, <1>2, <1>3, <1>4 DEF Others
<1>6. /\ Life(x) /\ (x \notin hasty => owed[x] <= 1)
      /\ x \notin started => owed[x] = 0 /\ x \notin hasty
  BY DEF Lives, Life, Calm
<1>7. ASSUME x \notin hasty PROVE owed'[x] <= 1 /\ (x \notin started => owed'[x] = 0)
  <2>1. CASE Owner[x] \in clients
    <3>1. owed[x] = 1
      BY <1>1, <1>7, <2>1
    <3>2. owed'[x] = 1 + 0 - 1
      BY <1>4, <2>1, <3>1
    <3>3. owed'[x] = 0
      BY ONLY <3>2
    <3> QED
      BY ONLY <3>3
  <2>2. CASE Owner[x] \notin clients
    <3>1. owed'[x] = owed[x]
      BY <1>4, <2>2
    <3> QED
      BY <1>6, <1>7, <3>1
  <2> QED
    BY <2>1, <2>2
<1>8. /\ TimeDue(x)' => TimeDue(x)
      /\ DistDue(x)' => DistDue(x)
      /\ x \notin hasty /\ dist'[x] # NoOpt =>
           (StopDue(x) => StopDue(x)') /\ (EraseDue(x) => EraseDue(x)')
  <2>1. /\ ToTime \in Watched /\ ToDist \in Watched /\ ToStop \in Watched
        /\ ToErase \in Watched /\ k \notin ToErase /\ (k # "dbtStop" => k \notin ToStop)
    BY DEF Watched, ToStop, ToErase
  <2> QED
    BY <1>1, <1>2, <2>1 DEF TimeDue, DistDue, StopDue, EraseDue
<1>9. Life(x)'
  <2>1. CASE x \notin hasty
    BY <1>1, <1>6, <1>7, <1>8, <2>1, LifeShrinks
  <2>2. CASE x \in hasty
    BY <1>1, <1>6, <2>2 DEF Life
  <2> QED
    BY <2>1, <2>2
<1> QED
  BY <1>5, <1>9, OthersLive

(* A response that saves session x, in the table on its side.              *)
LEMMA SavedLife ==
    ASSUME Shape, Accounts, Sided, Lives, NEW k \in ToTime \cup ToDist, Handle(k),
           NEW x \in Sessions, Head(adQ).ids = {x},
           NEW now \in BOOLEAN, owed' = Owed(x, 0, now),
           \A J \in Watched, s \in Sessions : Asked(J, s)' <=> Asked(J, s),
           Has(apiQ', WrongReq) <=> Has(apiQ, WrongReq),
           \/ UNCHANGED <<time, dist>>
           \/ SaveTrackingSession(time, dist, x, Head(adQ).o)
    PROVE  Sided' /\ Lives'
<1>0. k \notin {"erase", "engineUp"}
  BY DEF ToTime, ToDist
<1>1. /\ removing = NoClient /\ Owner[x] # NoClient
      /\ UNCHANGED <<clients, removing, started, over, hasty>>
      /\ \A J \in Watched, s \in Sessions \ {x} : Told(J, s)' <=> Told(J, s)
      /\ \A J \in Watched : k \in J => Told(J, x)
      /\ ~Has(adQ', WrongMsg) /\ Side(k, Head(adQ).o)
      /\ x \notin hasty /\ Owner[x] \in clients =>
           /\ owed[x] = 1 /\ x \in started
           /\ \A J \in Watched \ {ToErase} : ~Asked(J, x) /\ ~Told(J, x)'
  BY <1>0, TakenFacts
<1>2. Life(x) /\ Tables
  BY DEF Lives, Shape, AdapterOK
<1>3. /\ ToTime \in Watched \ {ToErase} /\ ToDist \in Watched \ {ToErase}
  BY DEF Watched, ToTime, ToDist, ToErase
<1>4. /\ (k \in ToTime => TimeDue(x)) /\ (k \in ToDist => DistDue(x))
  BY <1>1, <1>3 DEF TimeDue, DistDue
<1>5. x \notin hasty => x \notin over /\ Owner[x] \in clients
  BY <1>1, <1>2, <1>4 DEF Life, Calm
<1>6. Sided'
  BY <1>1 DEF Sided
<1>7. /\ \A s \in Sessions \ {x} : owed'[s] = owed[s]
      /\ x \notin hasty => owed'[x] <= 1
  BY <1>1, <1>5, OwedFacts
<1>8. Head(adQ).o \in TrackingOptions
  <2>1. Head(adQ) \in MsgShape /\ Head(adQ).k = k
    BY TakeTold DEF Handle
  <2> QED
    BY <2>1 DEF MsgShape, Carriers, ToTime, ToDist
<1>9. /\ \A s \in Sessions \ {x} : time'[s] = time[s] /\ dist'[s] = dist[s]
      /\ \/ time'[x] = time[x] /\ dist'[x] = dist[x]
         \/ k \in ToTime /\ time'[x] = Head(adQ).o /\ dist'[x] = dist[x]
         \/ k \in ToDist /\ time'[x] = time[x] /\ dist'[x] = Head(adQ).o
  <2>1. CASE UNCHANGED <<time, dist>>
    BY <2>1
  <2>2. CASE SaveTrackingSession(time, dist, x, Head(adQ).o)
    <3>1. k \in ToTime => ~(Head(adQ).o.far /\ DistSupported)
      BY <1>1 DEF Side
    <3>2. k \in ToDist => Head(adQ).o.far /\ DistSupported
      BY <1>1 DEF Side
    <3> QED
      BY <1>2, <1>8, <2>2, <3>1, <3>2, SaveAt DEF Tables
  <2> QED
    BY <2>1, <2>2
<1>10. Others(x)
  BY <1>1, <1>6, <1>7, <1>9 DEF Others
<1>11. x \notin hasty => ~TimeDue(x)' /\ ~DistDue(x)'
  BY <1>1, <1>3, <1>5 DEF TimeDue, DistDue
<1>12. /\ k \in ToTime => ~(Head(adQ).o.far /\ DistSupported)
       /\ k \in ToDist => DistSupported
       /\ x \notin hasty /\ k \in ToTime => dist[x] = NoOpt
       /\ x \notin hasty /\ k \in ToDist => time[x] = NoOpt
       /\ x \in started
  BY <1>1, <1>2, <1>4, <1>5 DEF Side, Life, Calm
<1>13. Life(x)'
  <2>1. ASSUME x \notin hasty PROVE Calm(x)'
    <3>1. /\ x \notin over' /\ Owner[x] \in clients' /\ owed'[x] <= 1
          /\ ~TimeDue(x)' /\ ~DistDue(x)'
      BY <1>1, <1>5, <1>7, <1>11, <2>1
    <3>2. time[x] = NoOpt \/ dist[x] = NoOpt
      BY <1>2, <2>1 DEF Life, Calm
    <3>3. time'[x] = NoOpt \/ dist'[x] = NoOpt
      BY <1>9, <1>12, <2>1, <3>2
    <3> QED
      BY <3>1, <3>3 DEF Calm
  <2>2. /\ time'[x] # NoOpt => ~(time'[x].far /\ DistSupported)
        /\ dist'[x] # NoOpt => DistSupported
    BY <1>2, <1>9, <1>12 DEF Life
  <2>3. Owner[x] \notin clients' \ {removing'} => x \in over'
    BY <1>1, <1>2 DEF Life
  <2> QED
    BY <1>1, <1>12, <2>1, <2>2, <2>3 DEF Life
<1> QED
  BY <1>10, <1>13, OthersLive

(* Nothing about the sessions or what is under way for them changes.       *)
LEMMA SameLife ==
    ASSUME Lives, UNCHANGED <<clients, removing, started, over, hasty, time, dist, owed>>,
           \A J \in Watched, s \in Sessions :
              Asked(J, s)' \/ Told(J, s)' <=> Asked(J, s) \/ Told(J, s)
    PROVE  Lives'
<1>1. ToTime \in Watched /\ ToDist \in Watched /\ ToStop \in Watched /\ ToErase \in Watched
  BY DEF Watched
<1>2. ASSUME NEW s \in Sessions PROVE Life(s)'
  <2>1. /\ TimeDue(s)' <=> TimeDue(s)
        /\ DistDue(s)' <=> DistDue(s)
        /\ StopDue(s)' <=> StopDue(s)
        /\ EraseDue(s)' <=> EraseDue(s)
    BY <1>1 DEF TimeDue, DistDue, StopDue, EraseDue
  <2>2. Life(s) /\ (s \notin hasty => owed[s] <= 1) /\ (s \notin started => owed[s] = 0)
    BY DEF Lives, Life, Calm
  <2> QED
    BY <2>1, <2>2, LifeShrinks
<1> QED
  BY <1>2 DEF Lives

(* The LocApi thread answers: what was asked is told.                      *)
LEMMA RespondLife ==
    ASSUME Shape, Shape', Sided, Lives, apiQ # <<>>, NEW ok, Respond(ok),
           UNCHANGED <<clients, removing, started, over, hasty, time, dist, owed>>
    PROVE  Sided' /\ Lives'
<1> DEFINE r == Head(apiQ)
           m == Message(r.k, r.ids, r.ro, ok)
<1>1. /\ apiQ \in Seq(ReqShape) /\ adQ \in Seq(MsgShape) /\ adQ' \in Seq(MsgShape)
      /\ r \in ReqShape
  BY HeadTailProperties DEF Shape, AdapterOK, OtherOK
<1>2. apiQ' = Tail(apiQ) /\ adQ' = IF r.k = "none" THEN adQ ELSE Append(adQ, m)
  BY DEF Respond
<1>3. m.k = r.k /\ m.ids = r.ids /\ m.o = r.ro
  BY DEF Message
<1> HIDE DEF m, r
<1>4. \A P : Has(apiQ, P) <=> Has(apiQ', P) \/ r \in P
  BY <1>1, <1>2, TailHas DEF r
<1>5. r.k \in RespKinds \cup {"none"}
  BY <1>1 DEF ReqShape, Requests
<1>6. \A J, s : r \in ReqOf(J, s) <=> r.k \in J /\ s \in r.ids
  BY <1>1 DEF ReqOf
<1>7. CASE r.k = "none"
  <2>1. \A J \in Watched, s \in Sessions : /\ (Asked(J, s)' <=> Asked(J, s))
                                           /\ (Told(J, s)' <=> Told(J, s))
    BY <1>2, <1>4, <1>6, <1>7, WatchedKinds DEF Asked, Told
  <2>2. Sided'
    BY <1>2, <1>4, <1>7 DEF Sided
  <2> QED
    BY <2>1, <2>2, SameLife
<1>8. CASE r.k # "none"
  <2>1. m \in MsgShape
    <3>1. adQ' = Append(adQ, m)
      BY <1>2, <1>8
    <3>2. /\ Len(adQ) \in Nat /\ Len(Append(adQ, m)) = Len(adQ) + 1
          /\ Append(adQ, m)[Len(adQ) + 1] = m
      BY <1>1
    <3>3. Len(adQ) + 1 \in 1 .. Len(adQ')
      BY <3>1, <3>2
    <3>4. adQ'[Len(adQ) + 1] \in MsgShape
      BY <1>1, <3>3, ElementOfSeq
    <3> QED
      BY <3>1, <3>2, <3>4
  <2>2. \A P : Has(adQ', P) <=> Has(adQ, P) \/ m \in P
    BY <1>1, <1>2, <1>8, <2>1, AppendHas
  <2>3. \A J, s : m \in MsgOf(J, s) <=> r.k \in J /\ s \in r.ids
    BY <1>3, <2>1 DEF MsgOf
  <2>4. \A J \in Watched, s \in Sessions :
          Asked(J, s)' \/ Told(J, s)' <=> Asked(J, s) \/ Told(J, s)
    BY <1>4, <1>6, <2>2, <2>3 DEF Asked, Told
  <2>5. r \notin WrongReq
    BY <1>4 DEF Sided
  <2>6. m \notin WrongMsg
    BY <1>1, <1>3, <1>5, <1>8, <2>1, <2>5 DEF WrongReq, WrongMsg, RespKinds
  <2>7. Sided'
    BY <1>4, <2>2, <2>6 DEF Sided
  <2> QED
    BY <2>4, <2>7, SameLife
<1> QED
  BY <1>7, <1>8

(* stopClientSessions: the response that ends distance based sessions.     *)
LEMMA ClientStopLife ==
    ASSUME Shape, Sided, Lives, RespClientStop
    PROVE  Sided' /\ Lives'
<1>1. /\ adQ # <<>> /\ adQ' = Tail(adQ) /\ Head(adQ).k = "erase"
      /\ UNCHANGED <<clients, removing, started, over, hasty, owed, apiQ>>
  BY DEF RespClientStop, Handle, histVars, OnlySessions
<1>2. /\ \A J \in Watched, s \in Sessions :
           Told(J, s) <=> Told(J, s)' \/ (Head(adQ).k \in J /\ s \in Head(adQ).ids)
      /\ ~Has(adQ', WrongMsg) /\ Head(adQ) \in MsgShape
  BY <1>1, TakeTold DEF Sided
<1>3. Head(adQ).ok = TRUE
  BY <1>1, <1>2 DEF MsgShape
<1>4. /\ time' = [s \in Sessions |-> IF s \in Head(adQ).ids THEN Erased(s).t[s] ELSE time[s]]
      /\ dist' = [s \in Sessions |-> IF s \in Head(adQ).ids THEN Erased(s).d[s] ELSE dist[s]]
  BY <1>3 DEF RespClientStop
<1>5. Sided'
  BY <1>1, <1>2 DEF Sided
<1>6. ASSUME NEW s \in Sessions PROVE Life(s)'
  <2>1. /\ Life(s) /\ Tables
        /\ s \notin hasty => owed[s] <= 1
        /\ s \notin started => owed[s] = 0
    BY DEF Lives, Life, Calm, Shape, AdapterOK
  <2>2. /\ ToTime \in Watched /\ ToDist \in Watched /\ ToStop \in Watched
        /\ ToErase \in Watched /\ "erase" \notin ToStop
    BY DEF Watched, ToStop
  <2>3. /\ \A J \in Watched : /\ Told(J, s)' => Told(J, s)
                              /\ s \notin Head(adQ).ids => (Told(J, s)' <=> Told(J, s))
        /\ \A J : Asked(J, s)' <=> Asked(J, s)
    BY <1>1, <1>2 DEF Asked
  <2>4. TimeDue(s)' => TimeDue(s)
    BY <2>2, <2>3 DEF TimeDue
  <2>5. DistDue(s)' => DistDue(s)
    BY <2>2, <2>3 DEF DistDue
  <2>6. CASE s \in Head(adQ).ids
    <3>1. time'[s] = Erased(s).t[s] /\ dist'[s] = Erased(s).d[s]
      BY <1>4, <2>6
    <3>2. time'[s] = NoOpt /\ dist'[s] \in {dist[s], NoOpt}
      BY <2>1, <3>1, EraseAt
    <3>3. CASE s \in hasty
      BY <1>1, <2>1, <3>2, <3>3 DEF Life
    <3>4. CASE s \notin hasty
      <4>1. dist'[s] = NoOpt
        BY <2>1, <3>1, <3>4, EraseAt DEF Life, Calm
      <4> QED
        BY <1>1, <2>1, <2>4, <2>5, <3>2, <4>1, LifeShrinks
    <3> QED
      BY <3>3, <3>4
  <2>7. CASE s \notin Head(adQ).ids
    <3>1. time'[s] = time[s] /\ dist'[s] = dist[s]
      BY <1>4, <2>7
    <3>2. (StopDue(s) => StopDue(s)') /\ (EraseDue(s) => EraseDue(s)')
      BY <2>2, <2>3, <2>7 DEF StopDue, EraseDue
    <3> QED
      BY <1>1, <2>1, <2>4, <2>5, <3>1, <3>2, LifeShrinks
  <2> QED
    BY <2>6, <2>7
<1> QED
  BY <1>5, <1>6 DEF Lives

(* Distance based update: the session is started again with its new        *)
(* options once it has stopped.                                            *)
LEMMA RestartLife ==
    ASSUME Shape, Accounts, Sided, Lives, RespRestart
    PROVE  Sided' /\ Lives'
<1> DEFINE r == Request("startDbt", Head(adQ).ids, NoOpt, "restarted", Head(adQ).o)
<1>1. /\ Handle("restart") /\ UNCHANGED <<time, dist, owed>>
      /\ apiQ' = IF Head(adQ).ok THEN Append(apiQ, r) ELSE apiQ
  BY DEF RespRestart, sessVars
<1>2. Head(adQ) \in MsgShape /\ Head(adQ).k = "restart"
  BY <1>1, HeadTailProperties DEF Handle, Shape, OtherOK
<1>3. PICK x \in Sessions : Head(adQ).ids = {x}
  BY <1>2 DEF MsgShape
<1>4. Head(adQ).o \in TrackingOptions /\ Head(adQ).ok = TRUE
  BY <1>2 DEF MsgShape, Carriers
<1>5. /\ UNCHANGED <<clients, removing, started, over, hasty>>
      /\ \A J \in Watched, s \in Sessions \ {x} : Told(J, s)' <=> Told(J, s)
      /\ \A J \in Watched : /\ Told(J, x)' => Told(J, x)
                            /\ "restart" \notin J => (Told(J, x)' <=> Told(J, x))
                            /\ "restart" \in J => Told(J, x)
      /\ ~Has(adQ', WrongMsg) /\ Side("restart", Head(adQ).o)
  BY <1>1, <1>3, TakenFacts
<1>6. r \in ReqShape /\ r.ids = {x} /\ r.k = "restarted" /\ r.ro = Head(adQ).o
  BY <1>3, <1>4, DistanceRequests DEF Request
<1>7. apiQ' = Append(apiQ, r)
  BY <1>1, <1>4
<1> HIDE DEF r
<1>8. Side(r.k, r.ro)
  BY <1>5, <1>6 DEF Side, ToTime, ToDist
<1>9. /\ \A J \in Watched, s \in Sessions :
           Asked(J, s)' <=> Asked(J, s) \/ (r.k \in J /\ s \in r.ids)
      /\ Has(apiQ', WrongReq) <=> Has(apiQ, WrongReq)
  BY <1>6, <1>7, <1>8, AppendAsked
<1>10. Sided'
  BY <1>5, <1>9 DEF Sided
<1>11. Others(x)
  BY <1>1, <1>5, <1>6, <1>9, <1>10 DEF Others
<1>12. /\ ToTime \in Watched /\ ToDist \in Watched /\ ToStop \in Watched /\ ToErase \in Watched
       /\ "restart" \notin ToTime /\ "restart" \notin ToStop /\ "restart" \notin ToErase
       /\ "restarted" \notin ToTime /\ "restart" \in ToDist
  BY DEF Watched, ToTime, ToDist, ToStop, ToErase
<1>13. /\ TimeDue(x)' => TimeDue(x)
       /\ DistDue(x)' => DistDue(x)
       /\ StopDue(x) => StopDue(x)'
       /\ EraseDue(x) => EraseDue(x)'
  BY <1>5, <1>6, <1>9, <1>12 DEF TimeDue, DistDue, StopDue, EraseDue
<1>14. Life(x) /\ (x \notin hasty => owed[x] <= 1) /\ (x \notin started => owed[x] = 0)
  BY DEF Lives, Life, Calm
<1>15. Life(x)'
  BY <1>1, <1>5, <1>13, <1>14, LifeShrinks
<1> QED
  BY <1>11, <1>15, OthersLive

(* The other responses.                                                    *)
LEMMA ResponseLife ==
    ASSUME CapsAtStart, Shape, Boot, Accounts, Sided, Lives, Response, ~EngineUp
    PROVE  Sided' /\ Lives'
<1>h. ASSUME NEW k, Handle(k), k \notin {"erase", "engineUp"}
      PROVE  /\ Head(adQ) \in MsgShape /\ Head(adQ).k = k
             /\ \E x \in Sessions : Head(adQ).ids = {x}
  <2>1. Head(adQ) \in MsgShape /\ Head(adQ).k = k
    BY <1>h, HeadTailProperties DEF Handle, Shape, OtherOK
  <2> QED
    BY <1>h, <2>1 DEF MsgShape
<1>t. Tables
  BY DEF Shape, AdapterOK
<1>1. ASSUME NEW k \in {"start", "dbtStart"}, RespStart(k) PROVE Sided' /\ Lives'
  <2>1. PICK x \in Sessions : Head(adQ).ids = {x}
    BY <1>1, <1>h DEF RespStart
  <2>2. /\ Handle(k) /\ UNCHANGED apiQ /\ owed' = Owed(x, 0, TRUE)
        /\ EraseTrackingSession(x) \/ UNCHANGED <<time, dist>>
    BY <1>1, <2>1 DEF RespStart, OnlySessions, sessVars
  <2>3. /\ \A s \in Sessions \ {x} : time'[s] = time[s] /\ dist'[s] = dist[s]
        /\ time'[x] \in {time[x], NoOpt} /\ dist'[x] \in {dist[x], NoOpt}
    BY <1>t, <2>2, EraseAt DEF EraseTrackingSession
  <2>4. k \notin {"erase", "engineUp"} /\ k # "dbtStop"
    BY <1>1
  <2> QED
    BY <2>1, <2>2, <2>3, <2>4, AnswerLife
<1>2. CASE RespUpdate
  <2>1. PICK x \in Sessions : Head(adQ).ids = {x}
    BY <1>2, <1>h DEF RespUpdate
  <2>2. /\ Handle("update") /\ UNCHANGED apiQ /\ owed' = Owed(x, 0, TRUE)
        /\ \/ SaveTrackingSession(time, dist, x, Head(adQ).o)
           \/ UNCHANGED <<time, dist>>
    BY <1>2, <2>1 DEF RespUpdate, OnlySessions, sessVars
  <2>3. \A J, s : Asked(J, s)' <=> Asked(J, s)
    BY <2>2 DEF Asked
  <2>4. "update" \in ToTime \cup ToDist
    BY DEF ToTime
  <2> QED
    BY <2>1, <2>2, <2>3, <2>4, SavedLife
<1>3. CASE RespStop
  <2>1. PICK x \in Sessions : Head(adQ).ids = {x}
    BY <1>3, <1>h DEF RespStop
  <2>2. /\ Handle("stop") /\ UNCHANGED <<apiQ, time, dist>> /\ owed' = Owed(x, 0, TRUE)
    BY <1>3, <2>1 DEF RespStop, OnlySessions, sessVars
  <2>3. "stop" \notin {"erase", "engineUp"} /\ "stop" # "dbtStop"
    OBVIOUS
  <2> QED
    BY <2>1, <2>2, <2>3, AnswerLife
<1>4. CASE RespDistanceStop
  <2>1. PICK x \in Sessions : Head(adQ).ids = {x}
    BY <1>4, <1>h DEF RespDistanceStop
  <2>2. Head(adQ).ok = TRUE
    <3>1. Head(adQ) \in MsgShape /\ Head(adQ).k = "dbtStop"
      BY <1>4, <1>h DEF RespDistanceStop
    <3> QED
      BY <3>1 DEF MsgShape
  <2>3. /\ Handle("dbtStop") /\ UNCHANGED apiQ /\ owed' = Owed(x, 0, TRUE)
        /\ EraseTrackingSession(x)
    BY <1>4, <2>1, <2>2 DEF RespDistanceStop, OnlySessions
  <2>4. x \notin hasty => time[x] = NoOpt \/ dist[x] = NoOpt
    BY DEF Lives, Life, Calm
  <2>5. /\ \A s \in Sessions \ {x} : time'[s] = time[s] /\ dist'[s] = dist[s]
        /\ time'[x] = NoOpt /\ dist'[x] \in {dist[x], NoOpt}
        /\ x \notin hasty => dist'[x] = NoOpt
    BY <1>t, <2>3, <2>4, EraseAt DEF EraseTrackingSession
  <2>6. "dbtStop" \notin {"erase", "engineUp"}
    OBVIOUS
  <2> QED
    BY <2>1, <2>3, <2>5, <2>6, AnswerLife
<1>5. CASE RespSwitch
  <2>1. PICK x \in Sessions : Head(adQ).ids = {x}
    BY <1>5, <1>h DEF RespSwitch
  <2> DEFINE o == Head(adQ).o
             out == StartMultiplex(x, o)
  <2>2. /\ Handle("switch") /\ Post(out, <<>>) /\ owed' = Owed(x, 0, out.now)
        /\ SaveTrackingSession(time, dist, x, o)
    BY <1>5, <2>1 DEF RespSwitch
  <2>3. o \in TrackingOptions
    <3>1. Head(adQ) \in MsgShape /\ Head(adQ).k = "switch"
      BY <1>h, <2>2
    <3> QED
      BY <3>1 DEF MsgShape, Carriers
  <2>4. Posts(out, x, {"start"})
    BY <2>3, MultiplexPosts
  <2> HIDE DEF out
  <2>5. /\ \A J \in Watched, s \in Sessions : Asked(J, s)' <=> Asked(J, s)
        /\ Has(apiQ', WrongReq) <=> Has(apiQ, WrongReq)
    <3>1. <<>> \in Seq(ReqShape) /\ Silent(<<>>)
      BY EmptySeq DEF Silent
    <3> QED
      BY <2>2, <2>4, <3>1, OutcomeAsked
  <2>6. out.now \in BOOLEAN
    BY <2>4 DEF Posts
  <2>7. "switch" \in ToTime \cup ToDist
    BY DEF ToTime
  <2> QED
    BY <2>1, <2>2, <2>5, <2>6, <2>7, SavedLife
<1>6. CASE RespRestarted
  <2>1. PICK x \in Sessions : Head(adQ).ids = {x}
    BY <1>6, <1>h DEF RespRestarted
  <2>2. /\ Handle("restarted") /\ UNCHANGED apiQ /\ owed' = Owed(x, 0, TRUE)
        /\ \/ SaveTrackingSession(time, dist, x, Head(adQ).o)
           \/ UNCHANGED <<time, dist>>
    BY <1>6, <2>1 DEF RespRestarted, OnlySessions, sessVars
  <2>3. \A J, s : Asked(J, s)' <=> Asked(J, s)
    BY <2>2 DEF Asked
  <2>4. "restarted" \in ToTime \cup ToDist
    BY DEF ToDist
  <2> QED
    BY <2>1, <2>2, <2>3, <2>4, SavedLife
<1>7. ~PendingStart /\ ~PendingUpdate
  <2>1. ASSUME NEW k \in {"startCmd", "updateCmd"}, Handle(k) PROVE FALSE
    <3>1. k \notin {"erase", "engineUp"}
      BY <2>1
    <3>2. PICK x \in Sessions : Head(adQ).ids = {x}
      BY <1>h, <2>1, <3>1
    <3> QED
      BY <2>1, <3>1, <3>2, TakenFacts
  <2> QED
    BY <2>1 DEF PendingStart, PendingUpdate
<1> QED
  BY <1>1, <1>2, <1>3, <1>4, <1>5, <1>6, <1>7, ClientStopLife, RestartLife DEF Response

(* The engine comes up: the sessions are restarted, no command was kept.   *)
LEMMA EngineUpLife ==
    ASSUME CapsAtStart, Shape, Boot, Sided, Lives, EngineUp
    PROVE  Sided' /\ Lives'
<1> DEFINE R == RestartRequests(nHz)
<1>1. /\ adQ # <<>> /\ Head(adQ).k = "engineUp" /\ mPendingMsgs = <<>>
      /\ UNCHANGED <<clients, removing, started, over, hasty, time, dist, owed>>
  BY DEF EngineUp, Boot, sessVars
<1>2. Tail(adQ) \in Seq(MsgShape)
  BY <1>1, HeadTailProperties DEF Shape, OtherOK
<1>3. adQ' = Tail(adQ)
  <2>1. adQ' = Tail(adQ) \/ adQ' = Tail(adQ) \o <<>>
    BY <1>1 DEF EngineUp
  <2> QED
    BY <1>2, <2>1, ConcatEmptySeq
<1>4. apiQ' = apiQ \o R \/ UNCHANGED apiQ
  BY DEF EngineUp
<1>5. R \in Seq(ReqShape) /\ Silent(R)
  BY RestartPosts DEF Shape, OtherOK, Silent
<1> HIDE DEF R
<1>6. /\ \A J \in Watched, s \in Sessions : Asked(J, s)' <=> Asked(J, s)
      /\ Has(apiQ', WrongReq) <=> Has(apiQ, WrongReq)
  <2>1. CASE apiQ' = apiQ \o R
    BY <1>5, <2>1, SilentAsked
  <2>2. CASE UNCHANGED apiQ
    BY <2>2 DEF Asked
  <2> QED
    BY <1>4, <2>1, <2>2
<1>7. /\ \A J \in Watched, s \in Sessions : Told(J, s)' <=> Told(J, s)
      /\ ~Has(adQ', WrongMsg)
  <2>1. \A J \in Watched : "engineUp" \notin J
    BY WatchedKinds DEF RespKinds
  <2> QED
    BY <1>1, <1>3, <2>1, TakeTold DEF Sided
<1>8. Sided'
  BY <1>6, <1>7 DEF Sided
<1> QED
  BY <1>1, <1>6, <1>7, <1>8, SameLife

(* The LocApi thread.                                                      *)
LEMMA LocApiLife ==
    ASSUME Shape, Shape', Sided, Lives, LocApi
    PROVE  Sided' /\ Lives'
<1>1. /\ apiQ # <<>>
      /\ UNCHANGED <<clients, removing, started, over, hasty, time, dist, owed>>
  BY DEF LocApi, ApiStart, ApiStop, ApiStartDbt, ApiStopDbt, ApiOpen, ApiOnly,
         sessVars, histVars
<1>2. CASE ApiOpen /\ adQ' # adQ
  <2> DEFINE m == Message("engineUp", {}, NoOpt, TRUE)
  <2>1. apiQ' = Tail(apiQ) /\ adQ' = Append(adQ, m) /\ Head(apiQ).op = "open"
    BY <1>2 DEF ApiOpen
  <2>2. /\ apiQ \in Seq(ReqShape) /\ adQ \in Seq(MsgShape) /\ Head(apiQ) \in ReqShape
    BY <1>1, HeadTailProperties DEF Shape, AdapterOK, OtherOK
  <2>3. m \in MsgShape /\ m.k = "engineUp"
    <3>1. m \in Messages
      BY DEF Message, Messages, OptOrNone
    <3> QED
      BY <3>1 DEF Message, MsgShape, Carriers
  <2> HIDE DEF m
  <2>4. /\ \A P : Has(apiQ, P) <=> Has(apiQ', P) \/ Head(apiQ) \in P
        /\ \A P : Has(adQ', P) <=> Has(adQ, P) \/ m \in P
    BY <1>1, <2>1, <2>2, <2>3, TailHas, AppendHas
  <2>5. Head(apiQ).k = "none"
    BY <2>1, <2>2 DEF ReqShape
  <2>6. ASSUME NEW J \in Watched, NEW s \in Sessions
        PROVE  Head(apiQ) \notin ReqOf(J, s) /\ m \notin MsgOf(J, s)
    BY <2>3, <2>5, WatchedKinds DEF ReqOf, MsgOf, RespKinds
  <2>7. m \notin WrongMsg
    BY <2>3 DEF WrongMsg, Side, ToTime, ToDist
  <2>8. Sided'
    BY <2>4, <2>7 DEF Sided
  <2>9. \A J \in Watched, s \in Sessions : /\ (Asked(J, s)' <=> Asked(J, s))
                                           /\ (Told(J, s)' <=> Told(J, s))
    BY <2>4, <2>6 DEF Asked, Told
  <2> QED
    BY <1>1, <2>8, <2>9, SameLife
<1>4. CASE ApiOpen /\ adQ' = adQ
  <2>1. apiQ' = Tail(apiQ) /\ Head(apiQ).op = "open" /\ UNCHANGED adQ
    BY <1>4 DEF ApiOpen
  <2>2. apiQ \in Seq(ReqShape) /\ Head(apiQ) \in ReqShape
    BY <1>1, HeadTailProperties DEF Shape, AdapterOK
  <2>3. \A P : Has(apiQ, P) <=> Has(apiQ', P) \/ Head(apiQ) \in P
    BY <1>1, <2>1, <2>2, TailHas
  <2>4. Head(apiQ).k = "none"
    BY <2>1, <2>2 DEF ReqShape
  <2>5. ASSUME NEW J \in Watched, NEW s \in Sessions PROVE Head(apiQ) \notin ReqOf(J, s)
    BY <2>4, WatchedKinds DEF ReqOf, RespKinds
  <2>6. Sided' /\ \A J \in Watched, s \in Sessions : /\ (Asked(J, s)' <=> Asked(J, s))
                                                   /\ (Told(J, s)' <=> Told(J, s))
    BY <2>1, <2>3, <2>5 DEF Sided, Asked, Told
  <2> QED
    BY <1>1, <2>6, SameLife
<1>3. CASE ~ApiOpen
  <2>1. PICK ok \in BOOLEAN : Respond(ok)
    BY <1>3 DEF LocApi, ApiStart, ApiStop, ApiStartDbt, ApiStopDbt
  <2> QED
    BY <1>1, <2>1, RespondLife
<1> QED
  BY <1>2, <1>3, <1>4

(* Requests nobody waits for, of the engine hub, a configuration or a      *)
(* restart of the modem.                                                   *)
LEMMA EventLife ==
    ASSUME Shape, Sided, Lives,
           \/ NHzChanged \/ Reconfigure \/ EngineDown
           \/ Reopen \/ LockChanged \/ UNCHANGED vars
    PROVE  Sided' /\ Lives'
<1>1. UNCHANGED <<clients, removing, started, over, hasty, time, dist, owed, adQ>>
  BY DEF NHzChanged, Reconfigure, EngineDown, Reopen, ApiOnly, LockChanged, vars,
         sessVars, histVars
<1>2. \A J, s : Told(J, s)' <=> Told(J, s)
  BY <1>1 DEF Told
<1>s. ASSUME \A J \in Watched, s \in Sessions : Asked(J, s)' <=> Asked(J, s),
             Has(apiQ', WrongReq) <=> Has(apiQ, WrongReq)
      PROVE  Sided' /\ Lives'
  <2>1. Sided'
    BY <1>1, <1>s DEF Sided
  <2> QED
    BY <1>1, <1>2, <1>s, <2>1, SameLife
<1>3. CASE NHzChanged
  <2>1. apiQ' = apiQ \o RestartRequests(nHz') /\ nHz' \in BOOLEAN
    BY <1>3 DEF NHzChanged
  <2>2. RestartRequests(nHz') \in Seq(ReqShape) /\ Silent(RestartRequests(nHz'))
    BY <2>1, RestartPosts DEF Silent
  <2> QED
    BY <1>s, <2>1, <2>2, SilentAsked
<1>4. CASE Reconfigure
  <2> DEFINE a == Request("stop", {}, NoOpt, "none", NoOpt)
             halt == IF TimeSet = {} THEN <<>> ELSE <<a>>
             R == RestartRequests(nHz)
  <2>1. apiQ' = (apiQ \o halt) \o R
    BY <1>4 DEF Reconfigure
  <2>2. a \in ReqShape /\ a.k = "none" /\ a.op # "open"
    <3>1. a \in Requests
      BY DEF Request, Requests, OptOrNone, RespKinds
    <3> QED
      BY <3>1 DEF Request, ReqShape, Carriers
  <2>3. halt \in Seq(ReqShape) /\ Silent(halt)
    <3> HIDE DEF a
    <3>1. CASE TimeSet = {}
      BY <3>1, EmptySeq DEF Silent
    <3>2. CASE TimeSet # {}
      BY <2>2, <3>2 DEF Silent
    <3> QED
      BY <3>1, <3>2
  <2>4. R \in Seq(ReqShape) /\ Silent(R)
    BY RestartPosts DEF Shape, OtherOK, Silent
  <2> HIDE DEF R, halt
  <2>5. \A P : Has(apiQ', P) <=> Has(apiQ, P) \/ Has(halt, P) \/ Has(R, P)
    <3>1. apiQ \in Seq(ReqShape)
      BY DEF Shape, AdapterOK
    <3>2. apiQ \o halt \in Seq(ReqShape)
      BY <2>3, <3>1, ConcatProperties
    <3>3. \A P : Has(apiQ', P) <=> Has(apiQ \o halt, P) \/ Has(R, P)
      BY <2>1, <2>4, <3>2, ConcatHas
    <3>4. \A P : Has(apiQ \o halt, P) <=> Has(apiQ, P) \/ Has(halt, P)
      BY <2>3, <3>1, ConcatHas
    <3> QED
      BY <3>3, <3>4
  <2>6. ASSUME NEW q, q = halt \/ q = R
        PROVE  ~Has(q, WrongReq) /\ \A J \in Watched, s \in Sessions : ~Has(q, ReqOf(J, s))
    <3>1. Silent(q)
      BY <2>3, <2>4, <2>6
    <3> QED
      BY <3>1, WatchedKinds DEF Silent, Has, WrongReq, Side, ToTime, ToDist, ReqOf
  <2> QED
    BY <1>s, <2>5, <2>6 DEF Asked
<1>5. CASE EngineDown
  <2> DEFINE r == Request("open", {}, NoOpt, "none", NoOpt)
  <2>1. apiQ' = Append(apiQ, r)
    BY <1>5 DEF EngineDown
  <2>2. r \in ReqShape /\ r.k = "none" /\ Side(r.k, r.ro)
    <3>1. r \in Requests
      BY DEF Request, Requests, OptOrNone, RespKinds
    <3> QED
      BY <3>1 DEF Request, ReqShape, Carriers, Side, ToTime, ToDist
  <2> HIDE DEF r
  <2>3. /\ \A J \in Watched, s \in Sessions :
             Asked(J, s)' <=> Asked(J, s) \/ (r.k \in J /\ s \in r.ids)
        /\ Has(apiQ', WrongReq) <=> Has(apiQ, WrongReq)
    BY <2>1, <2>2, AppendAsked
  <2> QED
    BY <1>s, <2>2, <2>3, WatchedKinds
<1>6. CASE Reopen \/ LockChanged \/ UNCHANGED vars
  <2>1. UNCHANGED apiQ
    BY <1>6 DEF Reopen, LockChanged, vars
  <2> QED
    BY <1>s, <2>1 DEF Asked
<1> QED
  BY <1>3, <1>4, <1>5, <1>6

(* The sessions live as Life says in every reachable state.                *)
LEMMA LifeInvariance ==
    ASSUME CapsAtStart
    PROVE  Spec => [](Shape /\ Boot /\ Accounts /\ Sided /\ Lives)
<1>1. OneStart
  BY DEF OneStart
<1>2. Init => Shape /\ Boot /\ Accounts /\ Sided /\ Lives
  <2> SUFFICES ASSUME Init PROVE Shape /\ Boot /\ Accounts /\ Sided /\ Lives
    OBVIOUS
  <2>1. Shape /\ Boot /\ Accounts
    BY <1>1, ShapeInit, LedgerInit
  <2>2. /\ apiQ = <<>> /\ adQ = <<>> /\ clients = Clients /\ removing = NoClient
        /\ started = {} /\ over = {} /\ hasty = {}
        /\ \A s \in Sessions : time[s] = NoOpt /\ dist[s] = NoOpt /\ owed[s] = 0
    BY DEF Init
  <2>3. Sided /\ \A s \in Sessions : ~TimeDue(s) /\ ~DistDue(s)
    BY <2>2, EmptyHas DEF Sided, TimeDue, DistDue, Asked, Told
  <2>4. ASSUME NEW s \in Sessions PROVE Life(s)
    <3>1. Owner[s] \in Clients /\ Owner[s] # NoClient
      BY TrackingAssumption
    <3> QED
      BY <2>2, <2>3, <3>1 DEF Life, Calm
  <2> QED
    BY <2>1, <2>3, <2>4 DEF Lives
<1>3. Shape /\ Boot /\ Accounts /\ Sided /\ Lives /\ [Next]_vars
        => (Shape /\ Boot /\ Accounts /\ Sided /\ Lives)'
  <2> SUFFICES ASSUME Shape, Boot, Accounts, Sided, Lives, [Next]_vars
               PROVE  (Shape /\ Boot /\ Accounts /\ Sided /\ Lives)'
    OBVIOUS
  <2>1. Shape'
    BY ShapeStep
  <2>2. Boot' /\ Accounts'
    BY <1>1, <2>1, LedgerStep
  <2>3. CASE Command
    BY <2>3, StartLife, UpdateLife, StopLife, <2>1, <2>2 DEF Command
  <2>4. CASE Removal
    BY <2>4, RemoveClientLife, RemoveTimeLife, RemoveRestLife, <2>1, <2>2 DEF Removal
  <2>5. CASE Response
    BY <2>5, ResponseLife, EngineUpLife, <2>1, <2>2
  <2>6. CASE LocApi
    BY <2>6, LocApiLife, <2>1, <2>2
  <2>7. CASE \/ NHzChanged \/ Reconfigure \/ EngineDown
             \/ Reopen \/ LockChanged \/ UNCHANGED vars
    BY <2>7, EventLife, <2>1, <2>2
  <2> QED
    BY <2>3, <2>4, <2>5, <2>6, <2>7 DEF Next
<1> QED
  BY <1>2, <1>3, PTL DEF Spec

(* No response brings a session back that its client has stopped or left   *)
(* behind, and no session is ever in both tables (MsgStopTracking and      *)
(* MsgRemoveClient::proc against the lambdas of updateTracking and of the  *)
(* distance based sessions), for any number of sessions and clients and    *)
(* whatever the modem refuses, a modem that does not open again included.  *)
(* It is so for every session that got no command before the last one was  *)
(* answered, while other clients, and other sessions of the same client,   *)
(* may be as hasty as they like; the engine is open when clients start.    *)
THEOREM StoppedStaysThm ==
    ASSUME CapsAtStart
    PROVE  Spec => []StoppedStays
<1>1. Lives => StoppedStays
  <2> SUFFICES ASSUME Lives
               PROVE  /\ Quiet => \A s \in over \ hasty : s \notin TimeSet \cup DistSet
                      /\ \A s \in TimeSet : s \in DistSet => s \in hasty
    BY DEF StoppedStays
  <2>1. ASSUME Quiet, NEW s \in over \ hasty, s \in TimeSet \cup DistSet PROVE FALSE
    <3>1. s \in Sessions /\ (time[s] # NoOpt \/ dist[s] # NoOpt) /\ Calm(s)
      BY <2>1 DEF TimeSet, DistSet, Lives, Life
    <3>2. apiQ = <<>> /\ adQ = <<>> /\ removing = NoClient
      BY <2>1 DEF Quiet
    <3>3. ~StopDue(s) /\ ~EraseDue(s)
      BY <3>2, EmptyHas DEF StopDue, EraseDue, Asked, Told
    <3>4. Owner[s] # NoClient
      BY <3>1, TrackingAssumption
    <3> QED
      BY <2>1, <3>1, <3>2, <3>3, <3>4 DEF Calm
  <2>2. ASSUME NEW s \in TimeSet, s \in DistSet, s \notin hasty PROVE FALSE
    BY <2>2 DEF TimeSet, DistSet, Lives, Life, Calm
  <2> QED
    BY <2>1, <2>2
<1> QED
  BY <1>1, LifeInvariance, PTL

-----------------------------------------------------------------------------
(* The modem serves the sessions.                                          *)

(* What the modem is made to do by the requests on their way: to run at an *)
(* interval of at most n, to track session s by distance.                  *)
EngineReq == {r \in ReqShape : r.op \in {"start", "stop"}}
FastReq(n) == {r \in ReqShape : r.op = "start" /\ r.o.ivl <= n}
Runs(n) == Finally(apiQ, EngineReq, FastReq(n), engine # Off /\ engine.ivl <= n)
DbtReq(s) == {r \in ReqShape : r.op \in {"startDbt", "stopDbt"} /\ s \in r.ids}
DbtStart(s) == {r \in ReqShape : r.op = "startDbt" /\ s \in r.ids}
Tracks(s) == Finally(apiQ, DbtReq(s), DbtStart(s), s \in dbt)

(* The modem is not being opened while it is up.  Once the adapter was     *)
(* told, a response that says the modem was down is followed by the        *)
(* engine-up event, which restarts all.                                    *)
FailedMsg == {m \in MsgShape : m.ok = FALSE}
Opening == Has(apiQ, OpenReq)
Covered == Finally(adQ, FailedMsg \cup UpMsg, UpMsg, TRUE)
Reach == /\ lock
         /\ AtMostOne(apiQ, OpenReq)
         /\ up => ~Opening
         /\ told => up /\ Covered
Settled == told /\ ~Has(adQ, UpMsg)

(* No session asks for less than the smallest interval.                    *)
PacedOpt(k, o) == k \in ToTime => o.ivl >= MinInterval
RushReq == {r \in ReqShape : ~PacedOpt(r.k, r.ro)}
RushMsg == {m \in MsgShape : ~PacedOpt(m.k, m.o)}
Paced == /\ ~Has(apiQ, RushReq) /\ ~Has(adQ, RushMsg)
         /\ \A s \in Sessions : time[s] # NoOpt => time[s].ivl >= MinInterval

(* The intervals asked for, by any session or by any but x.                *)
Needed(n) == \E s \in Sessions : time[s] # NoOpt /\ time[s].ivl = n
NeededBut(x, n) == \E s \in Sessions \ {x} : time[s] # NoOpt /\ time[s].ivl = n

(* The engine runs fast enough for them, and at the highest rate when      *)
(* mSPEAlreadyRunningAtHighestInterval says so to those that need NHz.     *)
Highest == nHz /\ spe => Runs(MinInterval)
Driven == (\A n \in Nat : Needed(n) => Runs(n)) /\ Highest

(* A distance based session is tracked, unless it is on its way out or is  *)
(* being restarted, or its client did not wait.                            *)
RestartDue(s) == Asked(ToRestart, s) \/ Told(ToRestart, s)
Followed(s) == s \notin hasty /\ dist[s] # NoOpt =>
                 Tracks(s) \/ StopDue(s) \/ EraseDue(s) \/ RestartDue(s)
Sure(s) == /\ EraseDue(s) => Owner[s] \notin clients
           /\ s \notin hasty => (DistDue(s) => dist[s] # NoOpt)

(* The inductive invariant.                                                *)
Serving == /\ Reach /\ Paced
           /\ \A s \in Sessions : Sure(s)
           /\ Settled => Driven /\ \A s \in Sessions : Followed(s)

-----------------------------------------------------------------------------
(* What becomes of the engine.                                             *)

(* The requests appended decide, if there is one for the engine.           *)
LEMMA RunsPost ==
    ASSUME Shape, NEW q \in Seq(ReqShape), apiQ' = apiQ \o q, UNCHANGED engine, NEW n
    PROVE  /\ Runs(n) \in BOOLEAN
           /\ Runs(n)' <=> Finally(q, EngineReq, FastReq(n), Runs(n))
<1>1. apiQ \in Seq(ReqShape) /\ FastReq(n) \in SUBSET EngineReq
  BY DEF Shape, AdapterOK, EngineReq, FastReq
<1> DEFINE now == engine # Off /\ engine.ivl <= n
<1>2. now \in BOOLEAN
  OBVIOUS
<1>3. (Runs(n) <=> Finally(apiQ, EngineReq, FastReq(n), now))
  BY DEF Runs
<1>4. Runs(n)' <=> Finally(apiQ \o q, EngineReq, FastReq(n), now)
  BY DEF Runs
<1> HIDE DEF now
<1>5. Runs(n) \in BOOLEAN /\ Finally(apiQ, EngineReq, FastReq(n), now) \in BOOLEAN
  BY DEF Runs, Finally
<1>6. Runs(n) = Finally(apiQ, EngineReq, FastReq(n), now)
  BY <1>3, <1>5
<1> QED
  BY <1>1, <1>2, <1>4, <1>5, <1>6, FinallyConcat

(* A slower engine is asked for when a faster one is.                      *)
LEMMA RunsSlower ==
    ASSUME Shape, NEW n \in Nat, NEW m \in Nat, n <= m, Runs(n)
    PROVE  Runs(m)
<1>1. /\ FastReq(n) \subseteq FastReq(m)
      /\ engine # Off /\ engine.ivl <= n => engine.ivl <= m
  BY DEF FastReq, ReqShape, Shape, OtherOK, TrackingOptions
<1> QED
  BY <1>1 DEF Runs, Finally

(* Requests that are not for the engine leave it alone.                    *)
LEMMA RunsKept ==
    ASSUME Shape, NEW q \in Seq(ReqShape), apiQ' = apiQ \o q, UNCHANGED engine,
           ~Has(q, EngineReq), NEW n
    PROVE  Runs(n)' <=> Runs(n)
<1>1. Runs(n) \in BOOLEAN /\ (Runs(n)' <=> Finally(q, EngineReq, FastReq(n), Runs(n)))
  BY RunsPost
<1>2. FastReq(n) \subseteq EngineReq
  BY DEF EngineReq, FastReq
<1>3. ~Has(q, FastReq(n))
  BY <1>2 DEF Has
<1> QED
  BY <1>1, <1>3 DEF Finally, Has

(* A start with options o makes the engine run that fast.                  *)
LEMMA RunsStarted ==
    ASSUME Shape, NEW q \in Seq(ReqShape), NEW r \in ReqShape, r.op = "start",
           NEW p \in Seq(ReqShape), ~Has(p, EngineReq),
           apiQ' = (apiQ \o q) \o (<<r>> \o p), UNCHANGED engine,
           NEW n, r.o.ivl <= n
    PROVE  Runs(n)'
<1>1. <<r>> \in Seq(ReqShape) /\ apiQ \in Seq(ReqShape)
  BY DEF Shape, AdapterOK
<1>2. q \o <<r>> \in Seq(ReqShape) /\ apiQ' = apiQ \o ((q \o <<r>>) \o p)
  BY <1>1, ConcatAssociative, ConcatProperties
<1>3. (q \o <<r>>) \o p \in Seq(ReqShape)
  BY <1>2, ConcatProperties
<1>4. /\ Runs(n) \in BOOLEAN
      /\ Runs(n)' <=> Finally((q \o <<r>>) \o p, EngineReq, FastReq(n), Runs(n))
  BY <1>2, <1>3, RunsPost
<1>5. FastReq(n) \in SUBSET EngineReq /\ r \in EngineReq /\ r \in FastReq(n)
  BY DEF EngineReq, FastReq
<1> DEFINE then == Finally(q \o <<r>>, EngineReq, FastReq(n), Runs(n))
<1>6. then \in BOOLEAN
  BY DEF Finally
<1>7. Finally((q \o <<r>>) \o p, EngineReq, FastReq(n), Runs(n))
        <=> Finally(p, EngineReq, FastReq(n), then)
  BY <1>2, <1>4, <1>5, FinallyConcat
<1>8. Append(q, r) = q \o <<r>>
  BY AppendIsConcat
<1>9. then
  <2> DEFINE was == Runs(n)
  <2>1. was \in BOOLEAN
    BY <1>4
  <2> HIDE DEF was
  <2>2. Finally(Append(q, r), EngineReq, FastReq(n), was) <=> r \in FastReq(n)
    BY <1>5, <2>1, FinallyAppend
  <2> QED
    BY <1>5, <1>8, <2>2 DEF was
<1> HIDE DEF then
<1>10. Finally(p, EngineReq, FastReq(n), then)
  BY <1>9 DEF Finally
<1> QED
  BY <1>4, <1>7, <1>10

(* startTimeBasedTracking and updateTracking: the engine runs as fast as   *)
(* asked afterwards, also when the start is skipped.                       *)
LEMMA StartEngineRuns ==
    ASSUME Shape, NEW x \in Sessions, NEW o \in TrackingOptions, o.ivl >= MinInterval,
           NEW k \in {"start", "update"}, NEW old \in OptOrNone,
           k = "update" => old \in TrackingOptions,
           NEW p \in Seq(ReqShape), ~Has(p, EngineReq),
           Post(StartEngine(k, x, o, old), p), UNCHANGED <<engine, nHz>>, Highest
    PROVE  /\ \A n \in Nat : o.ivl <= n => Runs(n)'
           /\ Highest'
<1>0. MinInterval \in Nat /\ o.ivl \in Nat /\ apiQ \in Seq(ReqShape)
  BY TrackingAssumption DEF TrackingOptions, Shape, AdapterOK
<1>1. CASE SpeSkips
  <2>1. StartEngine(k, x, o, old) = Outcome(<<>>, spe, TRUE, TRUE)
    BY <1>1 DEF StartEngine
  <2>2. apiQ' = apiQ \o <<>> \o p /\ spe' = spe
    BY <2>1 DEF Post, Outcome
  <2>3. apiQ' = apiQ \o p
    BY <1>0, <2>2, ConcatEmptySeq
  <2>4. \A n : Runs(n)' <=> Runs(n)
    BY <2>3, RunsKept
  <2>5. Runs(MinInterval) /\ Runs(MinInterval)'
    BY <1>1, <2>4 DEF SpeSkips, Highest
  <2>6. \A n \in Nat : o.ivl <= n => Runs(n)
    <3> SUFFICES ASSUME NEW n \in Nat, o.ivl <= n PROVE Runs(n)
      OBVIOUS
    <3>1. MinInterval <= n
      BY <1>0
    <3> QED
      BY <1>0, <2>5, <3>1, RunsSlower
  <2> QED
    BY <2>4, <2>5, <2>6 DEF Highest
<1>2. CASE ~SpeSkips
  <2> DEFINE r == Request("start", {x}, ForNHz(o), k, old)
  <2>1. StartEngine(k, x, o, old) = Outcome(<<r>>, spe \/ SpeRaises(o), TRUE, FALSE)
    BY <1>2 DEF StartEngine
  <2>2. apiQ' = apiQ \o <<r>> \o p /\ (spe' <=> spe \/ SpeRaises(o))
    <3> DEFINE up2 == spe \/ SpeRaises(o)
    <3>1. StartEngine(k, x, o, old) = Outcome(<<r>>, up2, TRUE, FALSE)
      BY <2>1
    <3> HIDE DEF r, up2
    <3>2. apiQ' = apiQ \o <<r>> \o p /\ spe' = up2
      BY <3>1 DEF Post, Outcome
    <3> QED
      BY <3>2 DEF up2
  <2>3. ForNHz(o) \in TrackingOptions /\ ForNHz(o).ivl <= o.ivl
    BY ClampedOptions
  <2>4. r \in ReqShape /\ r.op = "start" /\ r.o = ForNHz(o)
    BY <2>3 DEF ReqShape, Request, Requests, OptOrNone, RespKinds, Carriers
  <2> HIDE DEF r
  <2>5. apiQ' = (apiQ \o <<>>) \o (<<r>> \o p) /\ <<>> \in Seq(ReqShape)
    <3>1. <<r>> \in Seq(ReqShape)
      BY <2>4
    <3>2. (apiQ \o <<r>>) \o p = apiQ \o (<<r>> \o p)
      BY <1>0, <3>1, ConcatAssociative
    <3> QED
      BY <1>0, <2>2, <3>2, ConcatEmptySeq
  <2>6. \A n : ForNHz(o).ivl <= n => Runs(n)'
    BY <2>4, <2>5, RunsStarted
  <2>7. \A n \in Nat : o.ivl <= n => Runs(n)'
    <3> SUFFICES ASSUME NEW n \in Nat, o.ivl <= n PROVE Runs(n)'
      OBVIOUS
    <3>1. ForNHz(o).ivl <= n
      BY <1>0, <2>3 DEF TrackingOptions
    <3> QED
      BY <2>6, <3>1
  <2>8. nHz' /\ spe' => ForNHz(o).ivl <= MinInterval
    <3> SUFFICES ASSUME nHz', spe' PROVE ForNHz(o).ivl <= MinInterval
      OBVIOUS
    <3>1. SpeRaises(o)
      BY <1>2, <2>2 DEF SpeSkips
    <3>2. ForNHz(o) = [o EXCEPT !.ivl = MinInterval]
      BY <3>1 DEF ForNHz
    <3> QED
      BY <1>0, <3>2 DEF TrackingOptions
  <2> QED
    BY <2>6, <2>7, <2>8 DEF Highest
<1> QED
  BY <1>1, <1>2

(* The multiplexer posts nothing.                                          *)
LEMMA NothingRuns ==
    ASSUME Shape, NEW h, NEW p \in Seq(ReqShape), ~Has(p, EngineReq),
           Post(Outcome(<<>>, spe, h, TRUE), p), UNCHANGED <<engine, nHz>>, Highest
    PROVE  (\A n : Runs(n)' <=> Runs(n)) /\ Highest'
<1>1. apiQ' = apiQ \o <<>> \o p /\ spe' = spe /\ apiQ \in Seq(ReqShape)
  BY DEF Post, Outcome, Shape, AdapterOK
<1>2. apiQ' = apiQ \o p
  BY <1>1, ConcatEmptySeq
<1>3. \A n : Runs(n)' <=> Runs(n)
  BY <1>2, RunsKept
<1> QED
  BY <1>1, <1>3 DEF Highest

(* startTimeBasedTrackingMultiplex keeps what the sessions have and adds   *)
(* what the new one needs.                                                 *)
LEMMA StartMultiplexRuns ==
    ASSUME Shape, Paced, Driven, NEW x \in Sessions, NEW o \in TrackingOptions,
           o.ivl >= MinInterval, Post(StartMultiplex(x, o), <<>>),
           UNCHANGED <<engine, nHz>>
    PROVE  /\ \A n \in Nat : Needed(n) \/ n = o.ivl => Runs(n)'
           /\ Highest'
<1>0. /\ MinInterval \in Nat /\ o.ivl \in Nat /\ Tables
      /\ NoOpt \in OptOrNone /\ <<>> \in Seq(ReqShape) /\ ~Has(<<>>, EngineReq)
      /\ Highest
  BY TrackingAssumption, EmptyHas DEF TrackingOptions, Shape, AdapterOK, OptOrNone, Driven
<1>1. CASE TimeSet = {}
  <2>1. StartMultiplex(x, o) = StartEngine("start", x, o, NoOpt)
    BY <1>1 DEF StartMultiplex
  <2>2. Post(StartEngine("start", x, o, NoOpt), <<>>)
    BY <2>1
  <2>3. (\A n \in Nat : o.ivl <= n => Runs(n)') /\ Highest'
    BY <1>0, <2>2, StartEngineRuns
  <2>4. \A n \in Nat : ~Needed(n)
    BY <1>1 DEF Needed, TimeSet
  <2> QED
    BY <1>0, <2>3, <2>4
<1>2. CASE TimeSet # {}
  <2> DEFINE m == Smallest(TimeSet)
             faster == o.ivl < m.ivl
             stronger == o.pm < LowestPowerMode(TimeSet)
             mux == [m EXCEPT !.ivl = IF faster THEN o.ivl ELSE @,
                              !.pm = IF stronger THEN o.pm ELSE @]
  <2>1. PICK s \in TimeSet : m = time[s] /\ \A r \in TimeSet : time[s].ivl <= time[r].ivl
    BY <1>0, <1>2, SmallestFinds
  <2>2. /\ m \in TrackingOptions /\ m.ivl >= MinInterval /\ m.ivl \in Nat
        /\ Needed(m.ivl)
        /\ \A n \in Nat : Needed(n) => m.ivl <= n
    BY <1>0, <2>1 DEF TimeSet, Tables, OptOrNone, Paced, Needed, TrackingOptions
  <2> HIDE DEF m
  <2>3. /\ mux \in TrackingOptions
        /\ mux.ivl = IF faster THEN o.ivl ELSE m.ivl
    BY <2>2 DEF TrackingOptions
  <2>4. StartMultiplex(x, o) = IF faster \/ stronger THEN StartEngine("start", x, mux, NoOpt)
                               ELSE Outcome(<<>>, spe, hub, TRUE)
    BY <1>2 DEF StartMultiplex, m
  <2> HIDE DEF mux, stronger
  <2>5. CASE faster \/ stronger
    <3>1. Post(StartEngine("start", x, mux, NoOpt), <<>>)
      BY <2>4, <2>5
    <3>2. mux.ivl >= MinInterval
      BY <2>2, <2>3
    <3>3. (\A n \in Nat : mux.ivl <= n => Runs(n)') /\ Highest'
      BY <1>0, <2>3, <3>1, <3>2, StartEngineRuns
    <3>4. \A n \in Nat : Needed(n) \/ n = o.ivl => mux.ivl <= n
      BY <1>0, <2>2, <2>3
    <3> QED
      BY <3>3, <3>4
  <2>6. CASE ~(faster \/ stronger)
    <3>1. Post(Outcome(<<>>, spe, hub, TRUE), <<>>)
      BY <2>4, <2>6
    <3>2. (\A n : Runs(n)' <=> Runs(n)) /\ Highest'
      BY <1>0, <3>1, NothingRuns
    <3>3. m.ivl <= o.ivl /\ Runs(m.ivl)
      BY <1>0, <2>2, <2>6 DEF Driven
    <3>4. Runs(o.ivl)
      BY <1>0, <2>2, <3>3, RunsSlower
    <3> QED
      BY <1>0, <3>2, <3>4 DEF Driven
  <2> QED
    BY <2>5, <2>6
<1> QED
  BY <1>1, <1>2

(* updateTrackingMultiplex: what the others need, and the new options.     *)
LEMMA UpdateMultiplexRuns ==
    ASSUME Shape, Paced, Driven, NEW x \in TimeSet, NEW o \in TrackingOptions,
           o.ivl >= MinInterval, Post(UpdateMultiplex(x, o), <<>>),
           UNCHANGED <<engine, nHz>>
    PROVE  /\ \A n \in Nat : NeededBut(x, n) \/ n = o.ivl => Runs(n)'
           /\ Highest'
<1> DEFINE others == TimeSet \ {x}
           m == Smallest(others)
           changed == time[x].ivl # o.ivl \/ time[x].pm # o.pm
           faster == o.ivl < m.ivl
           stronger == o.pm < LowestPowerMode(others)
           mux == IF others = {} THEN o
                  ELSE [m EXCEPT !.ivl = IF faster THEN o.ivl ELSE @,
                                 !.pm = IF stronger THEN o.pm ELSE @]
           acts == changed /\ (faster \/ stronger \/ others = {})
<1>0. /\ MinInterval \in Nat /\ o.ivl \in Nat /\ Tables /\ x \in Sessions
      /\ time[x] \in TrackingOptions /\ time[x] \in OptOrNone
      /\ <<>> \in Seq(ReqShape) /\ ~Has(<<>>, EngineReq) /\ Highest
  <2>1. MinInterval \in Nat /\ o.ivl \in Nat
    BY TrackingAssumption DEF TrackingOptions
  <2>2. Tables /\ Highest /\ x \in Sessions /\ time[x] # NoOpt
    BY DEF Shape, AdapterOK, Driven, TimeSet
  <2>3. time[x] \in TrackingOptions /\ time[x] \in OptOrNone
    BY <2>2 DEF Tables, OptOrNone
  <2> QED
    BY <2>1, <2>2, <2>3, EmptyHas
<1>1. UpdateMultiplex(x, o) = IF acts THEN StartEngine("update", x, mux, time[x])
                              ELSE Outcome(<<>>, spe, hub, TRUE)
  BY DEF UpdateMultiplex
<1>2. \A n \in Nat : NeededBut(x, n) => Needed(n) /\ others # {}
  BY DEF NeededBut, Needed, TimeSet
<1>3. others # {} =>
        /\ m \in TrackingOptions /\ m.ivl >= MinInterval /\ m.ivl \in Nat
        /\ Needed(m.ivl)
        /\ \A n \in Nat : NeededBut(x, n) => m.ivl <= n
  <2> SUFFICES ASSUME others # {}
               PROVE  /\ m \in TrackingOptions /\ m.ivl >= MinInterval /\ m.ivl \in Nat
                      /\ Needed(m.ivl)
                      /\ \A n \in Nat : NeededBut(x, n) => m.ivl <= n
    OBVIOUS
  <2>1. PICK s \in others : m = time[s] /\ \A r \in others : time[s].ivl <= time[r].ivl
    BY <1>0, SmallestFinds
  <2> HIDE DEF m
  <2>2. s \in Sessions /\ time[s] # NoOpt /\ time[s] \in TrackingOptions
    BY <1>0, <2>1 DEF TimeSet, Tables, OptOrNone
  <2>3. m \in TrackingOptions /\ m.ivl \in Nat
    BY <2>1, <2>2 DEF TrackingOptions
  <2>4. m.ivl >= MinInterval
    BY <2>1, <2>2 DEF Paced
  <2>5. Needed(m.ivl)
    BY <2>1, <2>2 DEF Needed
  <2>6. ASSUME NEW n \in Nat, NeededBut(x, n) PROVE m.ivl <= n
    <3>1. PICK r \in Sessions \ {x} : time[r] # NoOpt /\ time[r].ivl = n
      BY <2>6 DEF NeededBut
    <3>2. r \in others
      BY <3>1 DEF TimeSet
    <3> QED
      BY <2>1, <3>1, <3>2
  <2> QED
    BY <2>3, <2>4, <2>5, <2>6
<1> HIDE DEF m
<1>4. /\ mux \in TrackingOptions /\ mux.ivl >= MinInterval
      /\ mux.ivl <= o.ivl
      /\ \A n \in Nat : NeededBut(x, n) => mux.ivl <= n
  <2>1. CASE others = {}
    BY <1>0, <1>2, <2>1
  <2>2. CASE others # {}
    <3>1. /\ mux \in TrackingOptions
          /\ mux.ivl = IF faster THEN o.ivl ELSE m.ivl
      BY <1>3, <2>2 DEF TrackingOptions
    <3> QED
      BY <1>0, <1>3, <2>2, <3>1
  <2> QED
    BY <2>1, <2>2
<1> HIDE DEF mux, stronger
<1>5. CASE acts
  <2>1. Post(StartEngine("update", x, mux, time[x]), <<>>)
    BY <1>1, <1>5
  <2>2. (\A n \in Nat : mux.ivl <= n => Runs(n)') /\ Highest'
    BY <1>0, <1>4, <2>1, StartEngineRuns
  <2> QED
    BY <1>0, <1>4, <2>2
<1>6. CASE ~acts
  <2>1. Post(Outcome(<<>>, spe, hub, TRUE), <<>>)
    BY <1>1, <1>6
  <2>2. (\A n : Runs(n)' <=> Runs(n)) /\ Highest'
    BY <1>0, <2>1, NothingRuns
  <2>3. Runs(o.ivl)
    <3>1. CASE ~changed
      BY <1>0, <3>1 DEF Driven, Needed, TimeSet
    <3>2. CASE changed
      <4>1. others # {} /\ m.ivl <= o.ivl /\ m.ivl \in Nat /\ Runs(m.ivl)
        BY <1>0, <1>3, <1>6, <3>2 DEF Driven
      <4> QED
        BY <1>0, <4>1, RunsSlower
    <3> QED
      BY <3>1, <3>2
  <2> QED
    BY <1>0, <1>2, <2>2, <2>3 DEF Driven
<1> QED
  BY <1>5, <1>6

(* stopTimeBasedTrackingMultiplex: what the others need.                   *)
LEMMA StopMultiplexRuns ==
    ASSUME Shape, Paced, Driven, NEW x \in TimeSet,
           NEW p \in Seq(ReqShape), ~Has(p, EngineReq),
           Post(StopMultiplex(x), p), UNCHANGED <<engine, nHz>>
    PROVE  /\ \A n \in Nat : NeededBut(x, n) => Runs(n)'
           /\ Highest'
<1> DEFINE others == TimeSet \ {x}
           m == Smallest(others)
           pm == LowestPowerMode(others)
           mux == [m EXCEPT !.pm = pm]
           acts == time[x].ivl < m.ivl \/ time[x].pm < pm
<1>0. /\ MinInterval \in Nat /\ Tables /\ x \in Sessions /\ NoOpt \in OptOrNone /\ Highest
  BY TrackingAssumption DEF TrackingOptions, Shape, AdapterOK, OptOrNone, Driven, TimeSet
<1>1. \A n \in Nat : NeededBut(x, n) => Needed(n) /\ others # {}
  BY DEF NeededBut, Needed, TimeSet
<1>2. CASE others = {}
  <2>1. StopMultiplex(x) =
          Outcome(<<Request("stop", {x}, NoOpt, "stop", NoOpt)>>, FALSE, FALSE, FALSE)
    BY <1>2 DEF StopMultiplex
  <2>2. ~spe'
    BY <2>1 DEF Post, Outcome
  <2> QED
    BY <1>1, <1>2, <2>2 DEF Highest
<1>3. CASE others # {}
  <2>1. StopMultiplex(x) = IF acts THEN StartEngine("start", x, mux, NoOpt)
                           ELSE Outcome(<<>>, spe, hub, TRUE)
    BY <1>3 DEF StopMultiplex
  <2>2. PICK s \in others : m = time[s] /\ \A r \in others : time[s].ivl <= time[r].ivl
    BY <1>0, <1>3, SmallestFinds
  <2>3. /\ m \in TrackingOptions /\ m.ivl >= MinInterval /\ m.ivl \in Nat
        /\ \A n \in Nat : NeededBut(x, n) => m.ivl <= n
    BY <1>0, <2>2 DEF TimeSet, Tables, OptOrNone, Paced, NeededBut, TrackingOptions
  <2>4. pm \in PowerModes
    BY <1>0, LowestFinds
  <2> HIDE DEF m, pm
  <2>5. mux \in TrackingOptions /\ mux.ivl = m.ivl
    BY <2>3, <2>4 DEF TrackingOptions
  <2> HIDE DEF mux
  <2>6. CASE acts
    <3>1. Post(StartEngine("start", x, mux, NoOpt), p)
      BY <2>1, <2>6
    <3>2. (\A n \in Nat : mux.ivl <= n => Runs(n)') /\ Highest'
      BY <1>0, <2>3, <2>5, <3>1, StartEngineRuns
    <3> QED
      BY <2>3, <2>5, <3>2
  <2>7. CASE ~acts
    <3>1. Post(Outcome(<<>>, spe, hub, TRUE), p)
      BY <2>1, <2>7
    <3>2. (\A n : Runs(n)' <=> Runs(n)) /\ Highest'
      BY <1>0, <3>1, NothingRuns
    <3> QED
      BY <1>1, <3>2 DEF Driven
  <2> QED
    BY <2>6, <2>7
<1> QED
  BY <1>2, <1>3

(* checkAndRestartSPESession: what all sessions need.                      *)
LEMMA RestartRuns ==
    ASSUME Shape, NEW q \in Seq(ReqShape), NEW b \in BOOLEAN,
           apiQ' = (apiQ \o q) \o RestartRequests(b), spe' = RestartSpe(b),
           nHz' = b, UNCHANGED engine
    PROVE  /\ \A n \in Nat : Needed(n) => Runs(n)'
           /\ Highest'
<1>0. /\ MinInterval \in Nat /\ Tables /\ NoOpt \in OptOrNone
  BY TrackingAssumption DEF TrackingOptions, Shape, AdapterOK, OptOrNone
<1>1. CASE TimeSet = {}
  <2>1. ~spe'
    BY <1>1 DEF RestartSpe
  <2> QED
    BY <1>1, <2>1 DEF Needed, TimeSet, Highest
<1>2. CASE TimeSet # {}
  <2> DEFINE raise == b /\ RestartOptions.ivl > MinInterval
             o == IF raise THEN [RestartOptions EXCEPT !.ivl = MinInterval] ELSE RestartOptions
             r == Request("start", {}, o, "none", NoOpt)
             p == IF DistSet = {} THEN <<>>
                  ELSE <<Request("startDbt", DistSet, NoOpt, "none", NoOpt)>>
  <2>1. RestartRequests(b) = <<r>> \o p
    BY <1>2 DEF RestartRequests
  <2>2. /\ RestartOptions \in TrackingOptions
        /\ \A s \in TimeSet : RestartOptions.ivl <= time[s].ivl
    BY <1>0, <1>2, RestartFinds
  <2>3. /\ o \in TrackingOptions /\ o.ivl <= RestartOptions.ivl
        /\ raise => o.ivl <= MinInterval
    <3> DEFINE ro == RestartOptions
    <3>1. ro \in TrackingOptions /\ ro.ivl \in Nat
      BY <2>2 DEF TrackingOptions
    <3> HIDE DEF ro
    <3>2. LET c == [ro EXCEPT !.ivl = MinInterval]
          IN  c \in TrackingOptions /\ c.ivl = MinInterval
      BY <1>0, <3>1 DEF TrackingOptions
    <3>3. CASE raise
      <4>1. o = [ro EXCEPT !.ivl = MinInterval] /\ ro.ivl > MinInterval
        BY <3>3 DEF ro
      <4> HIDE DEF o
      <4> QED
        BY <1>0, <3>1, <3>2, <4>1 DEF ro
    <3>4. CASE ~raise
      <4>1. o = ro
        BY <3>4 DEF ro
      <4> HIDE DEF o
      <4> QED
        BY <3>1, <3>4, <4>1 DEF ro
    <3> QED
      BY <3>3, <3>4
  <2>4. \A n \in Nat : Needed(n) => o.ivl <= n
    BY <1>0, <2>2, <2>3 DEF Needed, TimeSet, Tables, OptOrNone, TrackingOptions
  <2>5. spe' => raise
    BY DEF RestartSpe
  <2> HIDE DEF o
  <2>s. (\E s : s \in Sessions) /\ DistSet \in SUBSET Sessions
    BY <1>2 DEF TimeSet, DistSet
  <2>6. r \in ReqShape /\ r.op = "start" /\ r.o = o
    BY <2>3, <2>s, DistanceRequests DEF Request
  <2>7. p \in Seq(ReqShape) /\ ~Has(p, EngineReq)
    <3>1. CASE DistSet = {}
      <4>1. p = <<>>
        BY <3>1
      <4>2. <<>> \in Seq(ReqShape)
        OBVIOUS
      <4>3. ~Has(<<>>, EngineReq)
        BY EmptyHas
      <4> HIDE DEF p
      <4> QED
        BY <4>1, <4>2, <4>3
    <3>2. CASE DistSet # {}
      <4>1. Request("startDbt", DistSet, NoOpt, "none", NoOpt) \in ReqShape
        BY <2>3, <2>s, DistanceRequests
      <4>2. Request("startDbt", DistSet, NoOpt, "none", NoOpt).op = "startDbt"
        BY DEF Request
      <4>3. p \in Seq(ReqShape) /\ DOMAIN p = {1}
            /\ p[1] = Request("startDbt", DistSet, NoOpt, "none", NoOpt)
        BY <3>2, <4>1
      <4> QED
        BY <4>2, <4>3 DEF Has, EngineReq
    <3> QED
      BY <3>1, <3>2
  <2> HIDE DEF r, p, raise
  <2>8. \A n : o.ivl <= n => Runs(n)'
    BY <2>1, <2>6, <2>7, RunsStarted
  <2> QED
    BY <2>3, <2>4, <2>5, <2>8 DEF Highest
<1> QED
  BY <1>1, <1>2

-----------------------------------------------------------------------------
(* What becomes of the sessions tracked by distance.                       *)

(* The requests appended decide, if there is one for session s.            *)
LEMMA TracksPost ==
    ASSUME Shape, NEW q \in Seq(ReqShape), apiQ' = apiQ \o q, UNCHANGED dbt, NEW s
    PROVE  /\ Tracks(s) \in BOOLEAN
           /\ Tracks(s)' <=> Finally(q, DbtReq(s), DbtStart(s), Tracks(s))
<1>1. apiQ \in Seq(ReqShape) /\ DbtStart(s) \in SUBSET DbtReq(s)
  BY DEF Shape, AdapterOK, DbtReq, DbtStart
<1> DEFINE now == s \in dbt
<1>2. now \in BOOLEAN
  OBVIOUS
<1>3. (Tracks(s) <=> Finally(apiQ, DbtReq(s), DbtStart(s), now))
  BY DEF Tracks
<1>4. Tracks(s)' <=> Finally(apiQ \o q, DbtReq(s), DbtStart(s), now)
  BY DEF Tracks
<1> HIDE DEF now
<1>5. /\ Tracks(s) \in BOOLEAN
      /\ Finally(apiQ, DbtReq(s), DbtStart(s), now) \in BOOLEAN
  BY DEF Tracks, Finally
<1>6. Tracks(s) = Finally(apiQ, DbtReq(s), DbtStart(s), now)
  BY <1>3, <1>5
<1> QED
  BY <1>1, <1>2, <1>4, <1>5, <1>6, FinallyConcat

(* The kinds of responses that matter to a distance based session.         *)
DistKinds == {ToDist, ToStop, ToErase, ToRestart}
DistAnswers == {"restart", "restarted", "dbtStop", "erase"}

(* The step appends q and does nothing to session s as a distance based    *)
(* one.                                                                    *)
LEMMA Untouched ==
    ASSUME Shape, NEW s \in Sessions, Sure(s),
           NEW q \in Seq(ReqShape), apiQ' = apiQ \o q,
           ~Has(q, DbtReq(s)), \A J \in DistKinds : ~Has(q, ReqOf(J, s)),
           \A J \in DistKinds : Told(J, s)' <=> Told(J, s),
           dist'[s] = dist[s], UNCHANGED dbt, clients' \subseteq clients,
           hasty \subseteq hasty'
    PROVE  Sure(s)' /\ (Followed(s) => Followed(s)')
<1>1. Tracks(s)' <=> Tracks(s)
  <2>1. /\ Tracks(s) \in BOOLEAN
        /\ Tracks(s)' <=> Finally(q, DbtReq(s), DbtStart(s), Tracks(s))
    BY TracksPost
  <2>2. ~Has(q, DbtStart(s))
    BY DEF Has, DbtReq, DbtStart
  <2> QED
    BY <2>1, <2>2 DEF Finally, Has
<1>2. \A J \in DistKinds : Asked(J, s)' <=> Asked(J, s)
  <2>1. apiQ \in Seq(ReqShape)
    BY DEF Shape, AdapterOK
  <2> QED
    BY <2>1, ConcatHas DEF Asked
<1>3. /\ DistDue(s)' <=> DistDue(s)
      /\ StopDue(s)' <=> StopDue(s)
      /\ EraseDue(s)' <=> EraseDue(s)
      /\ RestartDue(s)' <=> RestartDue(s)
  BY <1>2 DEF DistDue, StopDue, EraseDue, RestartDue, DistKinds
<1> QED
  BY <1>1, <1>3 DEF Sure, Followed

-----------------------------------------------------------------------------
(* Reaching the modem.                                                     *)

(* The adapter thread handles a message or a command.                      *)
LEMMA AdapterReach ==
    ASSUME Shape, Reach, NEW q \in Seq(ReqShape), apiQ' = apiQ \o q,
           ~Has(q, OpenReq), UNCHANGED <<up, lock, told>>,
           adQ' = adQ \/ (adQ # <<>> /\ adQ' = Tail(adQ))
    PROVE  /\ Reach'
           /\ adQ' = adQ \/ Head(adQ).k # "engineUp" => (Settled' => Settled)
           /\ adQ # <<>> /\ adQ' = Tail(adQ) /\ Head(adQ).ok = FALSE => ~Settled'
<1>0. apiQ \in Seq(ReqShape) /\ adQ \in Seq(MsgShape)
  BY DEF Shape, AdapterOK, OtherOK
<1>1. (Opening' <=> Opening) /\ AtMostOne(apiQ', OpenReq)
  <2>1. Has(apiQ', OpenReq) <=> Has(apiQ, OpenReq)
    BY <1>0, ConcatHas
  <2>2. AtMostOne(apiQ', OpenReq)
    <3>1. /\ Len(apiQ) \in Nat /\ Len(q) \in Nat /\ DOMAIN apiQ = 1 .. Len(apiQ)
          /\ DOMAIN q = 1 .. Len(q) /\ DOMAIN apiQ' = 1 .. Len(apiQ) + Len(q)
          /\ \A i \in 1 .. Len(apiQ) + Len(q) :
               apiQ'[i] = IF i <= Len(apiQ) THEN apiQ[i] ELSE q[i - Len(apiQ)]
      BY <1>0, LenProperties, ConcatProperties
    <3>2. ASSUME NEW i \in DOMAIN apiQ', apiQ'[i] \in OpenReq
          PROVE  i \in DOMAIN apiQ /\ apiQ[i] = apiQ'[i]
      <4>1. CASE i <= Len(apiQ)
        BY <3>1, <4>1
      <4>2. CASE ~(i <= Len(apiQ))
        <5>1. i - Len(apiQ) \in 1 .. Len(q)
          BY <3>1, <4>2
        <5> QED
          BY <3>1, <3>2, <4>2, <5>1 DEF Has
      <4> QED
        BY <4>1, <4>2
    <3> QED
      BY <3>2 DEF AtMostOne, Reach
  <2> QED
    BY <2>1, <2>2 DEF Opening
<1> DEFINE P == FailedMsg \cup UpMsg
<1>2. UpMsg \in SUBSET P /\ FailedMsg \cap UpMsg = {}
  BY DEF FailedMsg, UpMsg, MsgShape
<1>3. ASSUME adQ # <<>>, adQ' = Tail(adQ), told
      PROVE  /\ Covered'
             /\ Head(adQ) \in FailedMsg => Has(adQ', UpMsg)
  <2>1. Finally(adQ, P, UpMsg, TRUE) /\ Head(adQ) \in MsgShape
    BY <1>0, <1>3, HeadTailProperties DEF Reach, Covered
  <2>2. CASE Head(adQ) \in FailedMsg
    <3>1. Finally(adQ', P, UpMsg, FALSE)
      <4>1. Head(adQ) \in P /\ Head(adQ) \notin UpMsg
        BY <1>2, <2>2
      <4> HIDE DEF P
      <4>2. Finally(Tail(adQ), P, UpMsg, FALSE) <=> Finally(adQ, P, UpMsg, TRUE)
        BY <1>0, <1>2, <1>3, <4>1, FinallyTail
      <4> QED
        BY <1>3, <2>1, <4>2
    <3> QED
      BY <3>1, FinallyImplies DEF Covered
  <2>3. CASE Head(adQ) \notin FailedMsg
    <3>1. Head(adQ) \in P => Head(adQ) \in UpMsg
      BY <2>3
    <3> HIDE DEF P
    <3>2. Finally(Tail(adQ), P, UpMsg, TRUE) <=> Finally(adQ, P, UpMsg, TRUE)
      BY <1>0, <1>2, <1>3, <3>1, FinallyTail
    <3> QED
      BY <1>3, <2>1, <2>3, <3>2 DEF Covered, P
  <2> QED
    BY <2>2, <2>3
<1>4. Reach'
  <2>1. adQ' = adQ => (Covered' <=> Covered)
    BY DEF Covered
  <2> QED
    BY <1>1, <1>3, <2>1 DEF Reach
<1>5. adQ # <<>> /\ adQ' = Tail(adQ) /\ Head(adQ).ok = FALSE => ~Settled'
  <2> SUFFICES ASSUME adQ # <<>>, adQ' = Tail(adQ), Head(adQ).ok = FALSE PROVE ~Settled'
    OBVIOUS
  <2>1. Head(adQ) \in FailedMsg
    BY <1>0, HeadTailProperties DEF FailedMsg
  <2> QED
    BY <1>1, <1>3, <2>1 DEF Settled
<1>6. ASSUME adQ' = adQ \/ Head(adQ).k # "engineUp", Settled' PROVE Settled
  <2>1. Has(adQ, UpMsg) => Has(adQ', UpMsg)
    <3>1. CASE adQ' = adQ
      BY <3>1
    <3>2. CASE adQ # <<>> /\ adQ' = Tail(adQ) /\ Head(adQ).k # "engineUp"
      BY <1>0, <3>2, TailHas DEF UpMsg
    <3> QED
      BY <1>6, <3>1, <3>2
  <2> QED
    BY <1>1, <1>6, <2>1 DEF Settled
<1> QED
  BY <1>4, <1>5, <1>6

-----------------------------------------------------------------------------
(* Commands about time based sessions.                                     *)

(* What the multiplexer posts is for the engine only.                      *)
LEMMA TimePosts ==
    ASSUME NEW x \in Sessions, NEW out, NEW K, Posts(out, x, K),
           K \subseteq {"start", "update", "stop"}
    PROVE  /\ out.reqs \in Seq(ReqShape) /\ ~Has(out.reqs, OpenReq)
           /\ \A s \in Sessions : ~Has(out.reqs, DbtReq(s))
           /\ \A J \in DistKinds, s \in Sessions : ~Has(out.reqs, ReqOf(J, s))
           /\ "update" \notin K => ~Has(out.reqs, RushReq)
<1>1. CASE out.reqs = <<>>
  <2>1. <<>> \in Seq(ReqShape) /\ \A P : ~Has(<<>>, P)
    BY EmptyHas
  <2> QED
    BY <1>1, <2>1
<1>2. ASSUME NEW r \in ReqShape, out.reqs = <<r>>, r.k \in K
      PROVE  /\ out.reqs \in Seq(ReqShape) /\ ~Has(out.reqs, OpenReq)
             /\ \A s \in Sessions : ~Has(out.reqs, DbtReq(s))
             /\ \A J \in DistKinds, s \in Sessions : ~Has(out.reqs, ReqOf(J, s))
             /\ "update" \notin K => ~Has(out.reqs, RushReq)
  <2>1. out.reqs \in Seq(ReqShape) /\ DOMAIN out.reqs = {1} /\ out.reqs[1] = r
    BY <1>2
  <2>2. r.op \in {"start", "stop"}
    BY <1>2 DEF ReqShape, Requests
  <2>3. r \notin OpenReq /\ \A s \in Sessions : r \notin DbtReq(s)
    BY <2>2 DEF OpenReq, DbtReq
  <2>4. \A J \in DistKinds, s \in Sessions : r \notin ReqOf(J, s)
    BY <1>2 DEF ReqOf, DistKinds, ToDist, ToStop, ToErase, ToRestart
  <2>5. "update" \notin K => r \notin RushReq
    BY <1>2 DEF RushReq, PacedOpt, ToTime
  <2> QED
    BY <2>1, <2>3, <2>4, <2>5 DEF Has
<1> QED
  BY <1>1, <1>2 DEF Posts

(* The frame of every step of the adapter thread.                          *)
LEMMA AdapterServes ==
    ASSUME Shape, Serving, NEW q \in Seq(ReqShape), apiQ' = apiQ \o q,
           ~Has(q, OpenReq), ~Has(q, RushReq), UNCHANGED <<up, lock, told>>,
           adQ' = adQ \/ (adQ # <<>> /\ adQ' = Tail(adQ)),
           \A s \in Sessions : time'[s] # NoOpt => time'[s].ivl >= MinInterval,
           \A s \in Sessions : Sure(s)',
           Settled' => Driven' /\ \A s \in Sessions : Followed(s)'
    PROVE  Serving'
<1>0. apiQ \in Seq(ReqShape) /\ adQ \in Seq(MsgShape)
  BY DEF Shape, AdapterOK, OtherOK
<1>1. Reach'
  BY AdapterReach DEF Serving
<1>2. ~Has(apiQ', RushReq)
  BY <1>0, ConcatHas DEF Serving, Paced
<1>3. ~Has(adQ', RushMsg)
  <2>1. adQ # <<>> => (Has(Tail(adQ), RushMsg) => Has(adQ, RushMsg))
    BY <1>0, TailHas
  <2> QED
    BY <2>1 DEF Serving, Paced
<1> QED
  BY <1>1, <1>2, <1>3 DEF Serving, Paced

(* A command or a response about a time based session.                     *)
LEMMA TimeServes ==
    ASSUME Shape, Serving, NEW x \in Sessions, NEW out, NEW K, Posts(out, x, K),
           K \subseteq {"start", "update", "stop"}, Post(out, <<>>),
           ~Has(out.reqs, RushReq), UNCHANGED <<dbt, up, lock, told, clients>>,
           hasty \subseteq hasty',
           adQ' = adQ \/ (adQ # <<>> /\ adQ' = Tail(adQ) /\ Head(adQ).k \notin DistAnswers
               /\ Head(adQ).k # "engineUp"),
           \A s \in Sessions : time'[s] # NoOpt => time'[s].ivl >= MinInterval,
           \A s \in Sessions : dist'[s] = dist[s],
           Settled => Driven'
    PROVE  Serving'
<1> DEFINE q == out.reqs
<1>1. /\ q \in Seq(ReqShape) /\ ~Has(q, OpenReq)
      /\ \A s \in Sessions : ~Has(q, DbtReq(s))
      /\ \A J \in DistKinds, s \in Sessions : ~Has(q, ReqOf(J, s))
  BY TimePosts
<1>2. apiQ' = apiQ \o q
  <2>1. apiQ \in Seq(ReqShape) /\ apiQ' = apiQ \o q \o <<>>
    BY DEF Shape, AdapterOK, Post
  <2>2. apiQ \o q \in Seq(ReqShape)
    BY <1>1, <2>1, ConcatProperties
  <2> QED
    BY <2>1, <2>2, ConcatEmptySeq
<1>3. ~Has(q, RushReq)
  OBVIOUS
<1> HIDE DEF q
<1>4. \A J \in DistKinds, s \in Sessions : Told(J, s)' <=> Told(J, s)
  <2>1. CASE adQ' = adQ
    BY <2>1 DEF Told
  <2>2. CASE adQ # <<>> /\ adQ' = Tail(adQ) /\ Head(adQ).k \notin DistAnswers
    <3>1. \A J \in DistKinds : J \in Watched /\ Head(adQ).k \notin J
      BY <2>2 DEF DistKinds, DistAnswers, Watched, ToDist, ToStop, ToErase, ToRestart
    <3> QED
      BY <2>2, <3>1, TakeTold
  <2> QED
    BY <2>1, <2>2
<1>5. \A s \in Sessions : Sure(s)' /\ (Followed(s) => Followed(s)')
  BY <1>1, <1>2, <1>4, Untouched DEF Serving
<1>6. Settled' => Settled
  <2>1. adQ' = adQ \/ Head(adQ).k # "engineUp"
    OBVIOUS
  <2> QED
    BY <1>1, <1>2, <2>1, AdapterReach DEF Serving
<1> QED
  BY <1>1, <1>2, <1>3, <1>5, <1>6, AdapterServes DEF Serving

-----------------------------------------------------------------------------
(* Commands about distance based sessions.                                 *)

(* The engine is not concerned.                                            *)
LEMMA DrivenKept ==
    ASSUME Shape, Driven, NEW q \in Seq(ReqShape), apiQ' = apiQ \o q,
           ~Has(q, EngineReq), UNCHANGED <<engine, nHz, spe>>,
           \A s \in Sessions : time'[s] \in {time[s], NoOpt}
    PROVE  Driven'
<1>1. \A n : Runs(n)' <=> Runs(n)
  BY RunsKept
<1>2. \A n \in Nat : Needed(n)' => Needed(n)
  BY DEF Needed
<1> QED
  BY <1>1, <1>2 DEF Driven, Highest

(* A start or stop of session x, with or without a response taken.         *)
LEMMA DistServes ==
    ASSUME Shape, Serving, NEW x \in Sessions, NEW r \in ReqShape, r.ids = {x},
           r.op \in {"startDbt", "stopDbt"}, r \notin RushReq,
           apiQ' = Append(apiQ, r), hasty \subseteq hasty',
           UNCHANGED <<engine, nHz, spe, dbt, up, lock, told, clients>>,
           adQ' = adQ \/ (adQ # <<>> /\ adQ' = Tail(adQ) /\ Head(adQ).ids = {x}
               /\ Head(adQ).k # "engineUp"),
           \A s \in Sessions : time'[s] \in {time[s], NoOpt},
           \A s \in Sessions \ {x} : dist'[s] = dist[s],
           Sure(x)', r.op = "stopDbt" => Followed(x)'
    PROVE  Serving'
<1> DEFINE q == <<r>>
<1>1. /\ q \in Seq(ReqShape) /\ DOMAIN q = {1} /\ q[1] = r
      /\ apiQ' = apiQ \o q
  <2>1. apiQ \in Seq(ReqShape)
    BY DEF Shape, AdapterOK
  <2> QED
    BY <2>1, AppendIsConcat
<1>2. \A P : Has(q, P) <=> r \in P
  BY <1>1 DEF Has
<1> HIDE DEF q
<1>3. /\ ~Has(q, OpenReq) /\ ~Has(q, RushReq) /\ ~Has(q, EngineReq)
      /\ \A s \in Sessions \ {x} : /\ ~Has(q, DbtReq(s))
                                   /\ \A J \in DistKinds : ~Has(q, ReqOf(J, s))
  BY <1>2 DEF OpenReq, EngineReq, DbtReq, ReqOf
<1>4. \A J \in DistKinds, s \in Sessions \ {x} : Told(J, s)' <=> Told(J, s)
  <2>1. CASE adQ' = adQ
    BY <2>1 DEF Told
  <2>2. CASE adQ # <<>> /\ adQ' = Tail(adQ) /\ Head(adQ).ids = {x}
    <3>1. \A J \in DistKinds : J \in Watched
      BY DEF DistKinds, Watched
    <3> QED
      BY <2>2, <3>1, TakeTold
  <2> QED
    BY <2>1, <2>2
<1>5. \A s \in Sessions \ {x} : Sure(s)' /\ (Followed(s) => Followed(s)')
  BY <1>1, <1>3, <1>4, Untouched DEF Serving
<1>6. Settled' => Settled
  <2>1. adQ' = adQ \/ Head(adQ).k # "engineUp"
    OBVIOUS
  <2> QED
    BY <1>1, <1>3, <2>1, AdapterReach DEF Serving
<1>7. Followed(x)'
  <2>1. CASE r.op = "stopDbt"
    BY <2>1
  <2>2. CASE r.op = "startDbt"
    <3>1. r \in DbtReq(x) /\ r \in DbtStart(x) /\ DbtStart(x) \in SUBSET DbtReq(x)
      BY <2>2 DEF DbtReq, DbtStart
    <3>2. Tracks(x) \in BOOLEAN /\ (Tracks(x)' <=> Finally(q, DbtReq(x), DbtStart(x), Tracks(x)))
      BY <1>1, TracksPost
    <3> DEFINE was == Tracks(x)
    <3>3. was \in BOOLEAN /\ (Tracks(x)' <=> Finally(q, DbtReq(x), DbtStart(x), was))
      BY <3>2
    <3> HIDE DEF was
    <3>4. Finally(q, DbtReq(x), DbtStart(x), was)
      BY <3>1, <3>3, FinallyOne DEF q
    <3> QED
      BY <3>3, <3>4 DEF Followed
  <2> QED
    BY <2>1, <2>2
<1>8. Settled => Driven'
  BY <1>1, <1>3, DrivenKept DEF Serving
<1>9. \A s \in Sessions : time'[s] # NoOpt => time'[s].ivl >= MinInterval
  BY DEF Serving, Paced
<1>10. /\ \A s \in Sessions : Sure(s)'
       /\ Settled' => Driven' /\ \A s \in Sessions : Followed(s)'
  BY <1>5, <1>6, <1>7, <1>8 DEF Serving
<1>11. adQ' = adQ \/ (adQ # <<>> /\ adQ' = Tail(adQ))
  OBVIOUS
<1> QED
  BY <1>1, <1>3, <1>9, <1>10, <1>11, AdapterServes

(* Nothing is posted and no table changes.                                 *)
LEMMA IdleServes ==
    ASSUME Shape, Serving,
           UNCHANGED <<engine, nHz, spe, dbt, up, lock, told, apiQ, adQ, clients, time, dist>>,
           hasty \subseteq hasty'
    PROVE  Serving'
<1>1. \A s : (Sure(s) => Sure(s)') /\ (Followed(s) => Followed(s)')
  BY DEF Sure, Followed, Tracks, DistDue, StopDue, EraseDue, RestartDue, Asked, Told
<1>2. Driven' <=> Driven
  BY DEF Driven, Highest, Needed, Runs
<1>3. (Reach' <=> Reach) /\ (Paced' <=> Paced) /\ (Settled' <=> Settled)
  BY DEF Reach, Paced, Settled, Opening, Covered
<1> QED
  BY <1>1, <1>2, <1>3 DEF Serving

(* MsgStartTracking::proc.                                                 *)
LEMMA StartServes ==
    ASSUME CapsAtStart, Shape, Boot, Accounts, Sided, Lives, Serving,
           NEW x \in Sessions, NEW o \in Options \cup {NoOpt}, Start(x, o)
    PROVE  Serving'
<1>1. /\ removing = NoClient /\ x \notin started /\ Owner[x] \in clients
      /\ UNCHANGED <<clients, removing, adQ, nHz, engine, dbt, up, lock, told>>
      /\ StartTracking(x, o, 1) /\ hasty \subseteq hasty'
  BY DEF Start, AdapterIdle, modemVars
<1>2. ~MustWait(o) /\ ~StartKept(x, o, 1)
  BY DEF Boot, MustWait, StartKept
<1>3. Tables /\ Sure(x)
  BY DEF Shape, AdapterOK, Serving
<1>4. CASE StartRefused(x, o, 1)
  <2>1. UNCHANGED <<time, dist, apiQ, spe>>
    BY <1>4 DEF StartRefused, sessVars
  <2> QED
    BY <1>1, <2>1, IdleServes
<1>5. CASE StartDistance(x, o, 1)
  <2> DEFINE r == Request("startDbt", {x}, NoOpt, "dbtStart", NoOpt)
             p == Clamped(o)
  <2>1. /\ apiQ' = Append(apiQ, r) /\ UNCHANGED spe
        /\ o \in TrackingOptions /\ o.far /\ DistSupported
        /\ SaveTrackingSession(time, dist, x, p)
    BY <1>5, TrackingAssumption DEF StartDistance, StartAllowed
  <2>2. /\ r \in ReqShape /\ r.k = "dbtStart" /\ Side(r.k, r.ro) /\ r.ids = {x}
        /\ r.op = "startDbt" /\ r \notin RushReq
    BY <2>1, DistanceRequests DEF Request, Side, ToTime, ToDist, RushReq, PacedOpt
  <2>3. p \in TrackingOptions /\ p.far /\ p # NoOpt
    <3>1. p \in TrackingOptions /\ p.far = o.far
      BY <2>1, ClampedOptions
    <3> QED
      BY <2>1, <3>1, TrackingAssumption
  <2> HIDE DEF r, p
  <2>4. \A J \in Watched, s \in Sessions : Asked(J, s)' <=> Asked(J, s)
    BY <2>1, <2>2, AppendAsked, WatchedKinds
  <2>5. /\ \A s \in Sessions \ {x} : time'[s] = time[s] /\ dist'[s] = dist[s]
        /\ time'[x] = time[x] /\ dist'[x] = p
    BY <1>3, <2>1, <2>3, SaveAt DEF Tables
  <2>6. Sure(x)'
    <3>1. EraseDue(x)' <=> EraseDue(x)
      BY <1>1, <2>4 DEF EraseDue, Told, Watched
    <3> QED
      BY <1>1, <1>3, <2>3, <2>5, <3>1 DEF Sure
  <2>7. \A s \in Sessions : time'[s] \in {time[s], NoOpt}
    BY <2>5
  <2> QED
    BY <1>1, <2>1, <2>2, <2>5, <2>6, <2>7, DistServes
<1>6. CASE StartTime(x, o, 1)
  <2> DEFINE p == M2Fallback(Clamped(o))
             out == StartMultiplex(x, p)
  <2>1. /\ Post(out, <<>>)
        /\ o \in TrackingOptions /\ ~(o.far /\ DistSupported)
        /\ SaveTrackingSession(time, dist, x, p)
    BY <1>6, TrackingAssumption DEF StartTime, StartAllowed
  <2>2. p \in TrackingOptions /\ p.far = o.far /\ p.ivl >= MinInterval /\ p # NoOpt
    <3>1. Clamped(o) \in TrackingOptions /\ Clamped(o).far = o.far /\ Clamped(o).ivl >= MinInterval
      BY <2>1, ClampedOptions
    <3>2. p \in TrackingOptions /\ p.far = o.far /\ p.ivl = Clamped(o).ivl
      BY <2>1, <3>1, ClampedOptions
    <3> QED
      BY <3>1, <3>2, TrackingAssumption
  <2> HIDE DEF p
  <2>3. Posts(out, x, {"start"})
    BY <2>2, MultiplexPosts
  <2>4. Settled => (\A n \in Nat : Needed(n) \/ n = p.ivl => Runs(n)') /\ Highest'
    BY <1>1, <2>1, <2>2, StartMultiplexRuns DEF Serving
  <2> HIDE DEF out
  <2>5. ~Has(out.reqs, RushReq)
    BY <2>3, TimePosts
  <2>6. /\ \A s \in Sessions \ {x} : time'[s] = time[s]
        /\ \A s \in Sessions : dist'[s] = dist[s]
        /\ time'[x] = p
    BY <1>3, <2>1, <2>2, SaveAt DEF Tables
  <2>7. \A n \in Nat : Needed(n)' => Needed(n) \/ n = p.ivl
    BY <2>6 DEF Needed
  <2>8. Settled => Driven'
    BY <2>4, <2>7 DEF Driven
  <2>9. \A s \in Sessions : time'[s] # NoOpt => time'[s].ivl >= MinInterval
    BY <2>2, <2>6 DEF Serving, Paced
  <2> QED
    BY <1>1, <2>1, <2>3, <2>5, <2>6, <2>8, <2>9, TimeServes
<1> QED
  BY <1>1, <1>2, <1>4, <1>5, <1>6 DEF StartTracking

(* What updateTrackingMultiplex may restore is no faster than allowed.     *)
LEMMA UpdatePaced ==
    ASSUME Shape, Paced, NEW x \in TimeSet, NEW p \in TrackingOptions
    PROVE  ~Has(UpdateMultiplex(x, p).reqs, RushReq)
<1> DEFINE out == UpdateMultiplex(x, p)
<1>1. \/ out.reqs = <<>>
      \/ \E o : out.reqs = <<Request("start", {x}, o, "update", time[x])>>
  BY DEF UpdateMultiplex, StartEngine, Outcome
<1>2. time[x].ivl >= MinInterval
  BY DEF Paced, TimeSet
<1> HIDE DEF out
<1>3. CASE out.reqs = <<>>
  <2>1. ~Has(<<>>, RushReq)
    BY EmptyHas
  <2> QED
    BY <1>3, <2>1 DEF out
<1>4. ASSUME NEW o, out.reqs = <<Request("start", {x}, o, "update", time[x])>>
      PROVE  ~Has(out.reqs, RushReq)
  <2> DEFINE r == Request("start", {x}, o, "update", time[x])
  <2>1. r.ro = time[x]
    BY DEF Request
  <2>2. out.reqs = <<r>>
    BY <1>4
  <2> HIDE DEF r
  <2>3. DOMAIN out.reqs = {1} /\ out.reqs[1] = r
    BY <2>2
  <2> QED
    BY <1>2, <2>1, <2>3 DEF Has, RushReq, PacedOpt
<1> QED
  BY <1>1, <1>3, <1>4 DEF out

(* MsgUpdateTracking::proc.                                                *)
LEMMA UpdateServes ==
    ASSUME CapsAtStart, DistSupported, Shape, Boot, Accounts, Sided, Lives, Serving,
           NEW x \in Sessions, NEW o \in Options \cup {NoOpt}, Update(x, o)
    PROVE  Serving'
<1>1. /\ removing = NoClient /\ Owner[x] \in clients /\ hasty \subseteq hasty'
      /\ x \notin hasty' => x \notin hasty /\ owed[x] = 0
      /\ UNCHANGED <<clients, removing, adQ, nHz, engine, dbt, up, lock, told>>
      /\ UpdateTracking(x, o, 1)
  BY DEF Update, AdapterIdle, Hurried, modemVars
<1>2. x \notin hasty' => Calm(x) /\ ~TimeDue(x) /\ ~DistDue(x) /\ ~StopDue(x)
  BY <1>1, ReadyLife
<1>3. ~MustWait(o) /\ ~UpdateKept(x, o, 1)
  BY DEF Boot, MustWait, UpdateKept
<1>4. Tables /\ Life(x) /\ Sure(x) /\ Paced /\ (Settled => Driven)
  BY DEF Shape, AdapterOK, Lives, Serving
<1>5. ~EraseDue(x)
  BY <1>1, <1>4 DEF Sure
<1>6. ToErase \in Watched /\ ToDist \in Watched /\ ToRestart \in Watched
  BY DEF Watched
<1>7. \A J \in Watched, s \in Sessions : Told(J, s)' <=> Told(J, s)
  BY <1>1 DEF Told
<1> DEFINE p == M2Fallback(Clamped(o))
<1>8. UpdateAllowed(x, o) => /\ o \in TrackingOptions /\ p \in TrackingOptions
                             /\ p.far = o.far /\ p.ivl >= MinInterval /\ p # NoOpt
  <2> SUFFICES ASSUME UpdateAllowed(x, o)
               PROVE  /\ o \in TrackingOptions /\ p \in TrackingOptions
                      /\ p.far = o.far /\ p.ivl >= MinInterval /\ p # NoOpt
    OBVIOUS
  <2>1. o \in TrackingOptions
    BY TrackingAssumption DEF UpdateAllowed
  <2>2. Clamped(o) \in TrackingOptions /\ Clamped(o).far = o.far /\ Clamped(o).ivl >= MinInterval
    BY <2>1, ClampedOptions
  <2>3. p \in TrackingOptions /\ p.far = o.far /\ p.ivl = Clamped(o).ivl
    BY <2>2, ClampedOptions
  <2> QED
    BY <2>1, <2>2, <2>3, TrackingAssumption
<1> HIDE DEF p
<1>9. CASE UpdateRefused(x, o, 1)
  <2>1. UNCHANGED <<time, dist, apiQ, spe>>
    BY <1>9 DEF UpdateRefused, sessVars
  <2> QED
    BY <1>1, <2>1, IdleServes
<1>10. CASE UpdateToDistance(x, o, 1)
  <2> DEFINE out == StopMultiplex(x)
             a == Request("startDbt", {x}, NoOpt, "none", NoOpt)
             more == <<a>>
             q == out.reqs \o more
  <2>1. /\ UpdateAllowed(x, o) /\ Post(out, more) /\ o.far
        /\ SaveTrackingSession(Erased(x).t, Erased(x).d, x, p)
        /\ time[x] # NoOpt /\ x \in TimeSet
    BY <1>10 DEF UpdateToDistance, p, TimeSet
  <2>2. /\ a \in ReqShape /\ a.k = "none" /\ a.op = "startDbt" /\ a.ids = {x}
    BY <1>8, <2>1, DistanceRequests DEF Request
  <2>3. /\ a \notin OpenReq /\ a \notin RushReq /\ a \notin EngineReq
        /\ \A J \in DistKinds, s \in Sessions : a \notin ReqOf(J, s)
        /\ \A s \in Sessions \ {x} : a \notin DbtReq(s)
        /\ a \in DbtReq(x) /\ a \in DbtStart(x)
    BY <2>2 DEF OpenReq, RushReq, PacedOpt, ToTime, EngineReq, ReqOf, DbtReq, DbtStart,
                DistKinds, ToDist, ToStop, ToErase, ToRestart
  <2> HIDE DEF a
  <2>4. more \in Seq(ReqShape) /\ \A P : Has(more, P) <=> a \in P
    BY <2>2 DEF Has
  <2>5. Posts(out, x, {"start", "stop"})
    BY MultiplexPosts
  <2>6. Settled => (\A n \in Nat : NeededBut(x, n) => Runs(n)') /\ Highest'
    BY <1>1, <1>4, <2>1, <2>3, <2>4, StopMultiplexRuns
  <2> HIDE DEF out
  <2>7. /\ out.reqs \in Seq(ReqShape) /\ ~Has(out.reqs, OpenReq) /\ ~Has(out.reqs, RushReq)
        /\ \A s \in Sessions : ~Has(out.reqs, DbtReq(s))
        /\ \A J \in DistKinds, s \in Sessions : ~Has(out.reqs, ReqOf(J, s))
    BY <2>5, TimePosts
  <2>8. apiQ' = apiQ \o q /\ q \in Seq(ReqShape)
    <3>1. apiQ \in Seq(ReqShape) /\ apiQ' = apiQ \o out.reqs \o more
      BY <2>1 DEF Shape, AdapterOK, Post
    <3> HIDE DEF more
    <3> DEFINE reqs == out.reqs
    <3>4. apiQ \in Seq(ReqShape) /\ reqs \in Seq(ReqShape) /\ more \in Seq(ReqShape)
      BY <2>4, <2>7, <3>1
    <3> HIDE DEF reqs
    <3>5. (apiQ \o reqs) \o more = apiQ \o (reqs \o more)
      BY <3>4, ConcatAssociative
    <3>2. apiQ \o out.reqs \o more = apiQ \o (out.reqs \o more)
      BY <3>5 DEF reqs
    <3>3. out.reqs \o more \in Seq(ReqShape)
      BY <2>4, <2>7, ConcatProperties
    <3> QED
      BY <3>1, <3>2, <3>3
  <2>9. \A P : Has(q, P) <=> Has(out.reqs, P) \/ a \in P
    BY <2>4, <2>7, ConcatHas
  <2>10. q = Append(out.reqs, a)
    BY <2>2, <2>7, AppendIsConcat
  <2> HIDE DEF q, more
  <2>11. Tracks(x)'
    <3>1. DbtStart(x) \in SUBSET DbtReq(x)
      BY DEF DbtReq, DbtStart
    <3>2. Tracks(x) \in BOOLEAN /\ (Tracks(x)' <=> Finally(q, DbtReq(x), DbtStart(x), Tracks(x)))
      BY <1>1, <2>8, TracksPost
    <3> DEFINE was == Tracks(x)
    <3>3. was \in BOOLEAN /\ (Tracks(x)' <=> Finally(q, DbtReq(x), DbtStart(x), was))
      BY <3>2
    <3> HIDE DEF was
    <3>4. Finally(q, DbtReq(x), DbtStart(x), was)
      BY <2>2, <2>3, <2>7, <2>10, <3>1, <3>3, FinallyAppend
    <3> QED
      BY <3>3, <3>4
  <2>12. /\ Erased(x).t \in [Sessions -> OptOrNone] /\ Erased(x).d \in [Sessions -> OptOrNone]
         /\ Erased(x).t[x] = NoOpt
         /\ \A s \in Sessions \ {x} : Erased(x).t[s] = time[s] /\ Erased(x).d[s] = dist[s]
    BY <1>4, <2>1, EraseTables, EraseAt
  <2>13. p \in TrackingOptions /\ p.far /\ p # NoOpt
    BY <1>8, <2>1
  <2>14. /\ \A s \in Sessions \ {x} : time'[s] = time[s] /\ dist'[s] = dist[s]
         /\ time'[x] = NoOpt /\ dist'[x] = p
    BY <2>1, <2>12, <2>13, SaveAt
  <2>15. \A s \in Sessions \ {x} : Sure(s)' /\ (Followed(s) => Followed(s)')
    <3>1. DistKinds \subseteq Watched
      BY DEF DistKinds, Watched
    <3> QED
      BY <1>1, <1>7, <2>3, <2>7, <2>8, <2>9, <2>14, <3>1, Untouched DEF Serving
  <2>16. Sure(x)' /\ Followed(x)'
    <3>1. Asked(ToErase, x)' => Asked(ToErase, x)
      <4>1. apiQ \in Seq(ReqShape) /\ ToErase \in DistKinds
        BY DEF Shape, AdapterOK, DistKinds
      <4> QED
        BY <2>3, <2>7, <2>8, <2>9, <4>1, ConcatHas DEF Asked
    <3>2. ~EraseDue(x)'
      BY <1>5, <1>6, <1>7, <3>1 DEF EraseDue
    <3> QED
      BY <2>11, <2>13, <2>14, <3>2 DEF Sure, Followed
  <2>17. Settled' => Settled
    BY <1>1, <2>3, <2>7, <2>8, <2>9, AdapterReach DEF Serving
  <2>18. \A n \in Nat : Needed(n)' => NeededBut(x, n)
    BY <2>14 DEF Needed, NeededBut
  <2>19. Settled => Driven'
    BY <2>6, <2>18 DEF Driven
  <2>20. \A s \in Sessions : time'[s] # NoOpt => time'[s].ivl >= MinInterval
    BY <1>4, <2>14 DEF Paced
  <2>21. /\ ~Has(q, OpenReq) /\ ~Has(q, RushReq)
         /\ \A s \in Sessions : Sure(s)'
         /\ Settled' => Driven' /\ \A s \in Sessions : Followed(s)'
    BY <2>3, <2>7, <2>9, <2>15, <2>16, <2>17, <2>19 DEF Serving
  <2> QED
    BY <1>1, <2>8, <2>20, <2>21, AdapterServes
<1>11. CASE UpdateToTime(x, o, 1)
  <2> DEFINE r == Request("stopDbt", {x}, NoOpt, "switch", p)
  <2>1. /\ UpdateAllowed(x, o) /\ apiQ' = Append(apiQ, r) /\ ~o.far /\ UNCHANGED spe
        /\ EraseTrackingSession(x) /\ dist[x] # NoOpt
    BY <1>11 DEF UpdateToTime, p, DistSet
  <2>2. r \in ReqShape /\ r.ids = {x} /\ r.k = "switch" /\ r.ro = p /\ r.op = "stopDbt"
    BY <1>8, <2>1, DistanceRequests DEF Request
  <2> HIDE DEF r
  <2>3. Side(r.k, r.ro) /\ r.k \notin ToDist /\ r.k \notin ToErase /\ r \notin RushReq
    BY <1>8, <2>1, <2>2 DEF Side, ToTime, ToDist, ToErase, RushReq, PacedOpt
  <2>4. \A J \in Watched, s \in Sessions :
             Asked(J, s)' <=> Asked(J, s) \/ (r.k \in J /\ s \in r.ids)
    BY <2>1, <2>2, <2>3, AppendAsked
  <2>5. x \notin hasty' => time[x] = NoOpt
    BY <1>2, <2>1 DEF Calm
  <2>6. /\ \A s \in Sessions \ {x} : time'[s] = time[s] /\ dist'[s] = dist[s]
        /\ time'[x] = NoOpt /\ (x \notin hasty' => dist'[x] = NoOpt)
    BY <1>4, <2>1, <2>5, EraseAt DEF EraseTrackingSession
  <2>7. Sure(x)' /\ Followed(x)'
    <3>1. (x \notin hasty' => ~DistDue(x)') /\ ~EraseDue(x)'
      BY <1>2, <1>5, <1>6, <1>7, <2>3, <2>4 DEF DistDue, EraseDue
    <3> QED
      BY <2>6, <3>1 DEF Sure, Followed
  <2>8. \A s \in Sessions : time'[s] \in {time[s], NoOpt}
    BY <2>6
  <2> QED
    BY <1>1, <2>1, <2>2, <2>3, <2>6, <2>7, <2>8, DistServes
<1>12. CASE UpdateTime(x, o, 1)
  <2> DEFINE out == UpdateMultiplex(x, p)
  <2>1. /\ UpdateAllowed(x, o) /\ x \in TimeSet /\ Post(out, <<>>) /\ ~o.far
        /\ SaveTrackingSession(time, dist, x, p)
    BY <1>12 DEF UpdateTime, p
  <2>2. p \in TrackingOptions /\ ~p.far /\ p.ivl >= MinInterval
    BY <1>8, <2>1
  <2>3. Posts(out, x, {"update"}) /\ ~Has(out.reqs, RushReq)
    BY <1>4, <2>1, <2>2, MultiplexPosts, UpdatePaced
  <2>4. Settled => (\A n \in Nat : NeededBut(x, n) \/ n = p.ivl => Runs(n)') /\ Highest'
    BY <1>1, <1>4, <2>1, <2>2, UpdateMultiplexRuns
  <2> HIDE DEF out
  <2>5. /\ \A s \in Sessions \ {x} : time'[s] = time[s]
        /\ \A s \in Sessions : dist'[s] = dist[s]
        /\ time'[x] = p
    BY <1>4, <2>1, <2>2, SaveAt DEF Tables
  <2>6. \A n \in Nat : Needed(n)' => NeededBut(x, n) \/ n = p.ivl
    BY <2>5 DEF Needed, NeededBut
  <2>7. Settled => Driven'
    BY <2>4, <2>6 DEF Driven
  <2>8. \A s \in Sessions : time'[s] # NoOpt => time'[s].ivl >= MinInterval
    BY <1>4, <2>2, <2>5 DEF Paced
  <2> QED
    BY <1>1, <2>1, <2>3, <2>5, <2>7, <2>8, TimeServes
<1>13. CASE UpdateDistance(x, o, 1)
  <2> DEFINE r == Request("stopDbt", {x}, NoOpt, "restart", p)
  <2>1. /\ UpdateAllowed(x, o) /\ apiQ' = Append(apiQ, r) /\ o.far
        /\ UNCHANGED <<time, dist, spe>> /\ dist[x] # NoOpt
    BY <1>13 DEF UpdateDistance, p, DistSet, sessVars
  <2>2. r \in ReqShape /\ r.ids = {x} /\ r.k = "restart" /\ r.ro = p /\ r.op = "stopDbt"
    BY <1>8, <2>1, DistanceRequests DEF Request
  <2> HIDE DEF r
  <2>3. /\ Side(r.k, r.ro) /\ r.k \notin ToErase /\ r.k \in ToRestart /\ r \notin RushReq
    BY <1>8, <2>1, <2>2 DEF Side, ToTime, ToDist, ToErase, ToRestart, RushReq, PacedOpt
  <2>4. \A J \in Watched, s \in Sessions :
             Asked(J, s)' <=> Asked(J, s) \/ (r.k \in J /\ s \in r.ids)
    BY <2>1, <2>2, <2>3, AppendAsked
  <2>5. Sure(x)' /\ Followed(x)'
    <3>1. ~EraseDue(x)' /\ RestartDue(x)'
      BY <1>5, <1>6, <1>7, <2>2, <2>3, <2>4 DEF EraseDue, RestartDue
    <3> QED
      BY <2>1, <3>1 DEF Sure, Followed
  <2>6. \A s \in Sessions : time'[s] \in {time[s], NoOpt} /\ dist'[s] = dist[s]
    BY <2>1
  <2> QED
    BY <1>1, <2>1, <2>2, <2>3, <2>5, <2>6, DistServes
<1> QED
  BY <1>1, <1>3, <1>9, <1>10, <1>11, <1>12, <1>13 DEF UpdateTracking

(* stopTimeBasedTrackingMultiplex and eraseTrackingSession.                *)
LEMMA EndTimeServes ==
    ASSUME Shape, Lives, Serving, NEW x \in TimeSet, Post(StopMultiplex(x), <<>>),
           EraseTrackingSession(x), UNCHANGED <<clients, adQ, nHz, engine, dbt, up, lock, told>>,
           hasty \subseteq hasty'
    PROVE  Serving'
<1> DEFINE out == StopMultiplex(x)
<1>0. /\ Tables /\ x \in Sessions /\ time[x] # NoOpt /\ Paced /\ (Settled => Driven)
      /\ <<>> \in Seq(ReqShape) /\ ~Has(<<>>, EngineReq)
  BY EmptyHas DEF Shape, AdapterOK, Serving, TimeSet
<1>1. Posts(out, x, {"start", "stop"}) /\ Post(out, <<>>)
  BY <1>0, MultiplexPosts
<1>2. Settled => (\A n \in Nat : NeededBut(x, n) => Runs(n)') /\ Highest'
  BY <1>0, StopMultiplexRuns
<1> HIDE DEF out
<1>3. ~Has(out.reqs, RushReq)
  BY <1>0, <1>1, TimePosts
<1>4. /\ \A s \in Sessions \ {x} : time'[s] = time[s]
      /\ \A s \in Sessions : dist'[s] = dist[s]
      /\ time'[x] = NoOpt
  BY <1>0, EraseAt DEF EraseTrackingSession
<1>5. \A n \in Nat : Needed(n)' => NeededBut(x, n)
  BY <1>4 DEF Needed, NeededBut
<1>6. Settled => Driven'
  BY <1>2, <1>5 DEF Driven
<1>7. \A s \in Sessions : time'[s] # NoOpt => time'[s].ivl >= MinInterval
  BY <1>0, <1>4 DEF Paced
<1> QED
  BY <1>0, <1>1, <1>3, <1>4, <1>6, <1>7, TimeServes

(* MsgStopTracking::proc.                                                  *)
LEMMA StopServes ==
    ASSUME Shape, Accounts, Sided, Lives, Serving, NEW x \in Sessions, Stop(x)
    PROVE  Serving'
<1>1. /\ removing = NoClient /\ Owner[x] \in clients /\ hasty \subseteq hasty'
      /\ x \notin hasty' => x \notin hasty /\ owed[x] = 0
      /\ UNCHANGED <<clients, removing, adQ, nHz, engine, dbt, up, lock, told>>
      /\ StopUnknown(x) \/ StopTime(x) \/ StopDistance(x)
  BY DEF Stop, AdapterIdle, Hurried, modemVars
<1>2. Tables /\ Sure(x) /\ ~EraseDue(x) /\ (x \notin hasty' => ~DistDue(x))
  BY <1>1, ReadyLife DEF Shape, AdapterOK, Serving, Sure
<1>3. \A J \in Watched, s \in Sessions : Told(J, s)' <=> Told(J, s)
  BY <1>1 DEF Told
<1>4. CASE StopUnknown(x)
  <2>1. UNCHANGED <<time, dist, apiQ, spe>>
    BY <1>4 DEF StopUnknown, sessVars
  <2> QED
    BY <1>1, <2>1, IdleServes
<1>5. CASE StopTime(x)
  <2>1. Post(StopMultiplex(x), <<>>) /\ EraseTrackingSession(x) /\ x \in TimeSet
    BY <1>5 DEF StopTime
  <2> QED
    BY <1>1, <2>1, EndTimeServes
<1>6. CASE StopDistance(x)
  <2> DEFINE r == Request("stopDbt", {x}, NoOpt, "dbtStop", NoOpt)
  <2>1. /\ apiQ' = Append(apiQ, r) /\ UNCHANGED <<time, dist, spe>>
        /\ dist[x] # NoOpt
    BY <1>6 DEF StopDistance, sessVars, DistSet
  <2>2. r \in ReqShape /\ r.ids = {x} /\ r.k = "dbtStop" /\ r.op = "stopDbt"
    <3>1. dist[x] \in TrackingOptions
      BY <1>2, <2>1 DEF Tables, OptOrNone
    <3> QED
      BY <3>1, DistanceRequests DEF Request
  <2> HIDE DEF r
  <2>3. /\ Side(r.k, r.ro) /\ r.k \notin ToErase /\ r.k \in ToStop /\ r.k \notin ToDist
        /\ r \notin RushReq
    BY <2>2 DEF Side, ToTime, ToDist, ToErase, ToStop, RushReq, PacedOpt
  <2>4. \A J \in Watched, s \in Sessions :
             Asked(J, s)' <=> Asked(J, s) \/ (r.k \in J /\ s \in r.ids)
    BY <2>1, <2>2, <2>3, AppendAsked
  <2>5. Sure(x)' /\ Followed(x)'
    <3>1. ToErase \in Watched /\ ToStop \in Watched /\ ToDist \in Watched
      BY DEF Watched
    <3>2. ~EraseDue(x)' /\ StopDue(x)' /\ (x \notin hasty' => ~DistDue(x)')
      BY <1>2, <1>3, <2>2, <2>3, <2>4, <3>1 DEF EraseDue, StopDue, DistDue
    <3> QED
      BY <3>2 DEF Sure, Followed
  <2>6. \A s \in Sessions : time'[s] \in {time[s], NoOpt} /\ dist'[s] = dist[s]
    BY <2>1
  <2> QED
    BY <1>1, <2>1, <2>2, <2>3, <2>5, <2>6, DistServes
<1> QED
  BY <1>1, <1>4, <1>5, <1>6

-----------------------------------------------------------------------------
(* Removal.                                                                *)

(* stopClientSessions, the distance based ones.                            *)
LEMMA RemoveRestServes ==
    ASSUME Shape, Boot, Lives, Serving, RemoveRest
    PROVE  Serving'
<1> DEFINE mine == Owned(removing) \cap DistSet
           r == Request("stopDbt", mine, NoOpt, "erase", NoOpt)
           q == IF mine = {} THEN <<>> ELSE <<r>>
<1>1. /\ apiQ' = IF mine = {} THEN apiQ ELSE Append(apiQ, r)
      /\ clients' = clients \ {removing}
      /\ UNCHANGED <<time, dist, adQ, nHz, spe, engine, dbt, up, lock, told, hasty>>
  BY DEF RemoveRest, sessVars, modemVars, histVars
<1>2. /\ r.k = "erase" /\ r.ids = mine /\ r.op = "stopDbt"
      /\ \A s \in mine : Owner[s] = removing
  BY DEF Request, Owned
<1>3. mine # {} => r \in ReqShape
  <2>1. ASSUME mine # {} PROVE r \in ReqShape
    <3>1. PICK x \in mine : TRUE
      BY <2>1
    <3>2. x \in Sessions /\ dist[x] \in TrackingOptions /\ mine \in SUBSET Sessions
      BY DEF DistSet, Owned, Shape, AdapterOK, Tables, OptOrNone
    <3> HIDE DEF mine
    <3> QED
      BY <3>2, DistanceRequests
  <2> QED
    BY <2>1
<1> HIDE DEF r, mine
<1>4. /\ q \in Seq(ReqShape) /\ apiQ' = apiQ \o q
      /\ \A P : Has(q, P) => mine # {} /\ r \in P
      /\ \A P : mine # {} /\ r \in P => Has(q, P)
  <2>0. apiQ \in Seq(ReqShape)
    BY DEF Shape, AdapterOK
  <2>1. CASE mine = {}
    <3>1. <<>> \in Seq(ReqShape) /\ \A P : ~Has(<<>>, P)
      BY EmptyHas
    <3>2. q = <<>>
      BY <2>1
    <3> HIDE DEF q
    <3> QED
      BY <1>1, <2>0, <2>1, <3>1, <3>2, ConcatEmptySeq
  <2>2. CASE mine # {}
    <3>1. q = <<r>> /\ r \in ReqShape
      BY <1>3, <2>2
    <3> HIDE DEF q
    <3>2. q \in Seq(ReqShape) /\ DOMAIN q = {1} /\ q[1] = r
      BY <3>1
    <3>3. apiQ' = apiQ \o q
      BY <1>1, <2>0, <2>2, <3>1, AppendIsConcat
    <3> QED
      BY <2>2, <3>2, <3>3 DEF Has
  <2> QED
    BY <2>1, <2>2
<1> HIDE DEF q
<1>5. /\ ~Has(q, OpenReq) /\ ~Has(q, RushReq) /\ ~Has(q, EngineReq)
      /\ \A s \in Sessions \ mine : /\ ~Has(q, DbtReq(s))
                                    /\ \A J \in DistKinds : ~Has(q, ReqOf(J, s))
      /\ \A s \in Sessions : ~Has(q, ReqOf(ToDist, s))
  BY <1>2, <1>4 DEF OpenReq, EngineReq, DbtReq, ReqOf, RushReq, PacedOpt, ToTime, ToDist
<1>6. \A J, s : Told(J, s)' <=> Told(J, s)
  BY <1>1 DEF Told
<1>7. \A s \in Sessions \ mine : Sure(s)' /\ (Followed(s) => Followed(s)')
  BY <1>1, <1>4, <1>5, <1>6, Untouched DEF Serving
<1>8. ASSUME NEW s \in mine, s \in Sessions PROVE Sure(s)' /\ Followed(s)'
  <2>1. \A P : Has(apiQ', P) <=> Has(apiQ, P) \/ Has(q, P)
    <3>1. apiQ \in Seq(ReqShape)
      BY DEF Shape, AdapterOK
    <3> QED
      BY <1>4, <3>1, ConcatHas
  <2>2. r \in ReqOf(ToErase, s) /\ mine # {}
    BY <1>2, <1>3, <1>8 DEF ReqOf, ToErase
  <2>3. EraseDue(s)' /\ (DistDue(s)' => DistDue(s))
    BY <1>4, <1>5, <1>6, <1>8, <2>1, <2>2 DEF EraseDue, DistDue, Asked
  <2> QED
    BY <1>1, <1>2, <1>8, <2>3 DEF Sure, Followed, Serving
<1>9. Settled' => Settled
  BY <1>1, <1>4, <1>5, AdapterReach DEF Serving
<1>10. Settled => Driven'
  BY <1>1, <1>4, <1>5, DrivenKept DEF Serving
<1>11. \A s \in Sessions : time'[s] # NoOpt => time'[s].ivl >= MinInterval
  BY <1>1 DEF Serving, Paced
<1>12. /\ \A s \in Sessions : Sure(s)'
       /\ Settled' => Driven' /\ \A s \in Sessions : Followed(s)'
  BY <1>7, <1>8, <1>9, <1>10 DEF Serving
<1> QED
  BY <1>1, <1>4, <1>5, <1>11, <1>12, AdapterServes

(* MsgRemoveClient::proc.                                                  *)
LEMMA RemovalServes ==
    ASSUME Shape, Boot, Lives, Serving, Removal
    PROVE  Serving'
<1>1. ASSUME NEW c \in Clients, RemoveClient(c) PROVE Serving'
  <2>1. /\ UNCHANGED <<engine, nHz, spe, dbt, up, lock, told, apiQ, adQ, clients, time, dist>>
        /\ hasty \subseteq hasty'
    BY <1>1 DEF RemoveClient, Hurried, sessVars, modemVars
  <2> QED
    BY <2>1, IdleServes
<1>2. ASSUME NEW x \in Sessions, RemoveTime(x) PROVE Serving'
  <2>1. /\ x \in TimeSet /\ Post(StopMultiplex(x), <<>>) /\ EraseTrackingSession(x)
        /\ UNCHANGED <<clients, adQ, nHz, engine, dbt, up, lock, told, hasty>>
    BY <1>2 DEF RemoveTime, modemVars, histVars
  <2> QED
    BY <2>1, EndTimeServes
<1> QED
  BY <1>1, <1>2, RemoveRestServes DEF Removal

-----------------------------------------------------------------------------
(* Responses.                                                              *)

(* A response that posts nothing.                                          *)
LEMMA AnswerServes ==
    ASSUME Shape, Serving, NEW k, Handle(k), k # "engineUp",
           UNCHANGED <<apiQ, nHz, spe>>,
           \A s \in Sessions : time'[s] # NoOpt => time'[s].ivl >= MinInterval,
           Settled' => \A s \in Sessions : time'[s] \in {time[s], NoOpt},
           \A s \in Sessions \ Head(adQ).ids : dist'[s] = dist[s],
           \A s \in Sessions : s \in Head(adQ).ids =>
              Sure(s)' /\ (Settled' /\ Followed(s) => Followed(s)')
    PROVE  Serving'
<1> DEFINE q == <<>>
<1>0. /\ adQ # <<>> /\ adQ' = Tail(adQ) /\ Head(adQ).k = k
      /\ UNCHANGED <<engine, dbt, up, lock, told, clients, hasty>>
  BY DEF Handle, modemVars, histVars
<1>1. q \in Seq(ReqShape) /\ apiQ' = apiQ \o q /\ \A P : ~Has(q, P)
  <2>1. apiQ \in Seq(ReqShape)
    BY DEF Shape, AdapterOK
  <2> QED
    BY <2>1, ConcatEmptySeq, EmptyHas
<1> HIDE DEF q
<1>2. \A J \in DistKinds, s \in Sessions \ Head(adQ).ids : Told(J, s)' <=> Told(J, s)
  <2>1. DistKinds \subseteq Watched
    BY DEF DistKinds, Watched
  <2> QED
    BY <1>0, <2>1, TakeTold
<1>3. \A s \in Sessions \ Head(adQ).ids : Sure(s)' /\ (Followed(s) => Followed(s)')
  BY <1>0, <1>1, <1>2, Untouched DEF Serving
<1>4. Settled' => Settled
  BY <1>0, <1>1, AdapterReach DEF Serving
<1>5. Settled' => Driven'
  BY <1>0, <1>1, <1>4, DrivenKept DEF Serving
<1>6. /\ \A s \in Sessions : Sure(s)'
      /\ Settled' => Driven' /\ \A s \in Sessions : Followed(s)'
  BY <1>3, <1>4, <1>5 DEF Serving
<1> QED
  BY <1>0, <1>1, <1>6, AdapterServes

(* A response to the command of one session x, which is the last thing     *)
(* under way for x.                                                        *)
LEMMA AnswerOneServes ==
    ASSUME Shape, Accounts, Sided, Lives, Serving, NEW k, Handle(k),
           k \notin {"erase", "engineUp", "restart"},
           NEW x \in Sessions, Head(adQ).ids = {x}, UNCHANGED <<apiQ, nHz, spe>>,
           \A s \in Sessions : time'[s] # NoOpt => time'[s].ivl >= MinInterval,
           Settled' => \A s \in Sessions : time'[s] \in {time[s], NoOpt},
           \A s \in Sessions \ {x} : dist'[s] = dist[s],
           x \notin hasty /\ dist'[x] # NoOpt => dist[x] # NoOpt /\ k # "dbtStop"
    PROVE  Serving'
<1>1. /\ removing = NoClient /\ Owner[x] # NoClient
      /\ UNCHANGED <<clients, dbt, hasty>>
      /\ \A J \in Watched : /\ Told(J, x)' => Told(J, x)
                            /\ k \notin J => (Told(J, x)' <=> Told(J, x))
      /\ x \notin hasty /\ Owner[x] \in clients =>
                \A J \in Watched \ {ToErase} : ~Asked(J, x) /\ ~Told(J, x)'
  <2>1. UNCHANGED <<clients, dbt>>
    BY DEF Handle, modemVars
  <2> QED
    BY <2>1, TakenFacts
<1>2. \A J : Asked(J, x)' <=> Asked(J, x)
  BY DEF Asked
<1>3. /\ ToDist \in Watched \ {ToErase} /\ ToStop \in Watched /\ ToErase \in Watched
      /\ ToRestart \in Watched /\ k \notin ToErase /\ k \notin ToRestart
      /\ k # "dbtStop" => k \notin ToStop
  BY DEF Watched, ToDist, ToStop, ToErase, ToRestart
<1>4. Life(x) /\ Sure(x)
  BY DEF Lives, Serving
<1>5. ASSUME x \notin hasty PROVE ~DistDue(x)'
  <2>1. CASE Owner[x] \in clients
    BY <1>1, <1>2, <1>3, <1>5, <2>1 DEF DistDue
  <2>2. CASE Owner[x] \notin clients
    <3>1. x \in over /\ ~DistDue(x)
      BY <1>4, <1>5, <2>2 DEF Life, Calm
    <3> QED
      BY <1>1, <1>2, <1>3, <3>1 DEF DistDue
  <2> QED
    BY <2>1, <2>2
<1>6. /\ EraseDue(x)' <=> EraseDue(x)
      /\ RestartDue(x)' <=> RestartDue(x)
      /\ k # "dbtStop" => (StopDue(x)' <=> StopDue(x))
  BY <1>1, <1>2, <1>3 DEF EraseDue, RestartDue, StopDue
<1>7. Sure(x)'
  BY <1>1, <1>4, <1>5, <1>6 DEF Sure
<1>8. Followed(x) => Followed(x)'
  <2>1. Tracks(x)' <=> Tracks(x)
    BY <1>1 DEF Tracks
  <2> QED
    BY <1>1, <1>6, <2>1 DEF Followed
<1>9. k # "engineUp" /\ \A s \in Sessions : s \in Head(adQ).ids => s = x
  OBVIOUS
<1>10. /\ \A s \in Sessions \ Head(adQ).ids : dist'[s] = dist[s]
       /\ \A s \in Sessions : s \in Head(adQ).ids =>
              Sure(s)' /\ (Settled' /\ Followed(s) => Followed(s)')
  BY <1>7, <1>8, <1>9
<1> QED
  BY <1>9, <1>10, AnswerServes

(* stopClientSessions: the response that ends distance based sessions.     *)
LEMMA ClientStopServes ==
    ASSUME Shape, Lives, Serving, RespClientStop
    PROVE  Serving'
<1>1. /\ Handle("erase") /\ adQ # <<>> /\ adQ' = Tail(adQ) /\ Head(adQ).k = "erase"
      /\ UNCHANGED <<clients, apiQ, nHz, spe, removing, hasty>>
      /\ removing = NoClient
  BY DEF RespClientStop, Handle, OnlySessions, AdapterIdle, histVars
<1>2. /\ \A J \in Watched, s \in Sessions :
           Told(J, s) <=> Told(J, s)' \/ (Head(adQ).k \in J /\ s \in Head(adQ).ids)
      /\ Head(adQ) \in MsgShape
  BY <1>1, TakeTold
<1>3. Head(adQ).ok = TRUE
  BY <1>1, <1>2 DEF MsgShape
<1>4. /\ time' = [s \in Sessions |-> IF s \in Head(adQ).ids THEN Erased(s).t[s] ELSE time[s]]
      /\ dist' = [s \in Sessions |-> IF s \in Head(adQ).ids THEN Erased(s).d[s] ELSE dist[s]]
  BY <1>3 DEF RespClientStop
<1>5. ASSUME NEW s \in Sessions, s \in Head(adQ).ids
      PROVE  time'[s] = NoOpt /\ Sure(s)' /\ Followed(s)'
  <2>1. Life(s) /\ Sure(s) /\ Tables /\ Owner[s] # NoClient
    BY TrackingAssumption DEF Lives, Serving, Shape, AdapterOK
  <2>2. time'[s] = NoOpt /\ (s \notin hasty => dist'[s] = NoOpt)
    <3>1. time'[s] = Erased(s).t[s] /\ dist'[s] = Erased(s).d[s]
      BY <1>4, <1>5
    <3> QED
      BY <2>1, <3>1, EraseAt DEF Life, Calm
  <2>3. ToErase \in Watched /\ ToDist \in Watched /\ "erase" \in ToErase
    BY DEF Watched, ToErase
  <2>4. EraseDue(s) /\ (DistDue(s)' => DistDue(s))
    BY <1>1, <1>2, <1>5, <2>3 DEF EraseDue, DistDue, Asked
  <2>5. Owner[s] \notin clients /\ (s \notin hasty => ~DistDue(s))
    BY <1>1, <2>1, <2>4 DEF Sure, Life, Calm
  <2> QED
    BY <1>1, <2>2, <2>4, <2>5 DEF Sure, Followed
<1>6. /\ \A s \in Sessions : time'[s] \in {time[s], NoOpt}
      /\ \A s \in Sessions \ Head(adQ).ids : dist'[s] = dist[s]
  BY <1>4, <1>5
<1>7. \A s \in Sessions : time'[s] # NoOpt => time'[s].ivl >= MinInterval
  BY <1>6 DEF Serving, Paced
<1> QED
  BY <1>1, <1>5, <1>6, <1>7, AnswerServes

(* A distance based session has stopped and is started again.              *)
LEMMA RestartedServes ==
    ASSUME Shape, Accounts, Sided, Lives, Serving, RespRestart
    PROVE  Serving'
<1> DEFINE r == Request("startDbt", Head(adQ).ids, NoOpt, "restarted", Head(adQ).o)
<1>1. /\ Handle("restart") /\ UNCHANGED <<time, dist, nHz, spe>>
      /\ apiQ' = IF Head(adQ).ok THEN Append(apiQ, r) ELSE apiQ
  BY DEF RespRestart, sessVars
<1>2. /\ Head(adQ) \in MsgShape /\ Head(adQ).k = "restart"
      /\ adQ # <<>> /\ adQ' = Tail(adQ)
      /\ UNCHANGED <<engine, dbt, up, lock, told, clients, hasty>>
  BY <1>1, HeadTailProperties DEF Handle, Shape, OtherOK, modemVars, histVars
<1>3. PICK x \in Sessions : Head(adQ).ids = {x}
  BY <1>2 DEF MsgShape
<1>4. Head(adQ).o \in TrackingOptions /\ Head(adQ).ok = TRUE
  BY <1>2 DEF MsgShape, Carriers
<1>5. /\ \A J \in Watched : /\ Told(J, x)' => Told(J, x)
                            /\ "restart" \in J => Told(J, x)
      /\ Side("restart", Head(adQ).o)
  BY <1>1, <1>3, TakenFacts
<1>6. /\ r \in ReqShape /\ r.ids = {x} /\ r.k = "restarted" /\ r.ro = Head(adQ).o
      /\ r.op = "startDbt"
  BY <1>3, <1>4, DistanceRequests DEF Request
<1>7. apiQ' = Append(apiQ, r)
  BY <1>1, <1>4
<1> HIDE DEF r
<1>8. Side(r.k, r.ro) /\ r \notin RushReq
  BY <1>5, <1>6 DEF Side, ToTime, ToDist, RushReq, PacedOpt
<1>9. \A J \in Watched, s \in Sessions :
           Asked(J, s)' <=> Asked(J, s) \/ (r.k \in J /\ s \in r.ids)
  BY <1>6, <1>7, <1>8, AppendAsked
<1>10. /\ ToDist \in Watched /\ ToErase \in Watched
       /\ "restarted" \notin ToErase /\ "restart" \in ToDist
  BY DEF Watched, ToDist, ToErase
<1>11. (EraseDue(x)' => EraseDue(x)) /\ DistDue(x)
  BY <1>5, <1>6, <1>9, <1>10 DEF EraseDue, DistDue
<1>12. Sure(x)'
  BY <1>1, <1>2, <1>11 DEF Sure, Serving
<1>13. /\ \A s \in Sessions : time'[s] \in {time[s], NoOpt}
       /\ \A s \in Sessions \ {x} : dist'[s] = dist[s]
  BY <1>1
<1> QED
  BY <1>1, <1>2, <1>3, <1>6, <1>7, <1>8, <1>12, <1>13, DistServes

(* A distance based session has become a time based one.                   *)
LEMMA SwitchServes ==
    ASSUME Shape, Accounts, Sided, Lives, Serving, RespSwitch
    PROVE  Serving'
<1>1. /\ Head(adQ) \in MsgShape /\ Head(adQ).k = "switch"
      /\ adQ # <<>> /\ adQ' = Tail(adQ) /\ adQ \in Seq(MsgShape)
      /\ UNCHANGED <<engine, dbt, up, lock, told, clients, nHz, hasty>>
  BY HeadTailProperties DEF RespSwitch, Handle, Shape, OtherOK, modemVars, histVars
<1>2. PICK x \in Sessions : Head(adQ).ids = {x}
  BY <1>1 DEF MsgShape
<1> DEFINE o == Head(adQ).o
           out == StartMultiplex(x, o)
<1>3. /\ Handle("switch") /\ Post(out, <<>>)
      /\ SaveTrackingSession(time, dist, x, o)
  BY <1>2 DEF RespSwitch
<1>4. o \in TrackingOptions /\ o # NoOpt
  BY <1>1, TrackingAssumption DEF MsgShape, Carriers
<1>5. ~(o.far /\ DistSupported) /\ o.ivl >= MinInterval
  <2>1. "switch" \notin {"erase", "engineUp"}
    OBVIOUS
  <2>2. Side("switch", Head(adQ).o)
    BY <1>2, <1>3, <2>1, TakenFacts
  <2>3. Head(adQ) \notin RushMsg
    BY <1>1, TailHas DEF Serving, Paced
  <2> QED
    BY <1>1, <2>2, <2>3 DEF Side, ToTime, RushMsg, PacedOpt
<1> HIDE DEF o
<1>6. Posts(out, x, {"start"})
  BY <1>4, MultiplexPosts
<1>7. Settled => (\A n \in Nat : Needed(n) \/ n = o.ivl => Runs(n)') /\ Highest'
  BY <1>1, <1>3, <1>4, <1>5, StartMultiplexRuns DEF Serving
<1> HIDE DEF out
<1>8. ~Has(out.reqs, RushReq)
  BY <1>6, TimePosts
<1>9. /\ \A s \in Sessions \ {x} : time'[s] = time[s]
      /\ \A s \in Sessions : dist'[s] = dist[s]
      /\ time'[x] = o
  <2>1. time \in [Sessions -> OptOrNone] /\ dist \in [Sessions -> OptOrNone]
    BY DEF Tables, Shape, AdapterOK
  <2>2. SaveTrackingSession(time, dist, x, o)
    BY <1>3
  <2> QED
    BY <1>4, <1>5, <2>1, <2>2, SaveAt
<1>10. \A n \in Nat : Needed(n)' => Needed(n) \/ n = o.ivl
  BY <1>9 DEF Needed
<1>11. Settled => Driven'
  BY <1>7, <1>10 DEF Driven
<1>12. \A s \in Sessions : time'[s] # NoOpt => time'[s].ivl >= MinInterval
  BY <1>5, <1>9 DEF Serving, Paced
<1>13. "switch" \notin DistAnswers /\ "switch" # "engineUp"
  BY DEF DistAnswers
<1> QED
  BY <1>1, <1>3, <1>6, <1>8, <1>9, <1>11, <1>12, <1>13, TimeServes

(* The responses.                                                          *)
LEMMA ResponseServes ==
    ASSUME CapsAtStart, Shape, Boot, Accounts, Sided, Lives, Serving,
           Response, ~EngineUp
    PROVE  Serving'
<1>h. ASSUME NEW k, Handle(k), k \notin {"erase", "engineUp"}
      PROVE  /\ Head(adQ) \in MsgShape /\ Head(adQ).k = k
             /\ \E x \in Sessions : Head(adQ).ids = {x}
  <2>1. Head(adQ) \in MsgShape /\ Head(adQ).k = k
    BY <1>h, HeadTailProperties DEF Handle, Shape, OtherOK
  <2> QED
    BY <1>h, <2>1 DEF MsgShape
<1>t. /\ Tables /\ lock
      /\ \A s \in Sessions : time[s] # NoOpt => time[s].ivl >= MinInterval
  BY DEF Shape, AdapterOK, Serving, Paced, Reach
<1>1. ASSUME NEW k \in {"start", "dbtStart"}, RespStart(k) PROVE Serving'
  <2>1. PICK x \in Sessions : Head(adQ).ids = {x}
    BY <1>1, <1>h DEF RespStart
  <2>2. /\ Handle(k) /\ UNCHANGED <<apiQ, nHz, spe>>
        /\ EraseTrackingSession(x) \/ UNCHANGED <<time, dist>>
    BY <1>1, <2>1 DEF RespStart, OnlySessions, sessVars
  <2>3. /\ \A s \in Sessions \ {x} : time'[s] = time[s] /\ dist'[s] = dist[s]
        /\ time'[x] \in {time[x], NoOpt} /\ dist'[x] \in {dist[x], NoOpt}
    BY <1>t, <2>2, EraseAt DEF EraseTrackingSession
  <2>4. k \notin {"erase", "engineUp", "restart"} /\ k # "dbtStop"
    BY <1>1
  <2>5. /\ \A s \in Sessions : time'[s] # NoOpt => time'[s].ivl >= MinInterval
        /\ \A s \in Sessions : time'[s] \in {time[s], NoOpt}
        /\ dist'[x] # NoOpt => dist[x] # NoOpt
    BY <1>t, <2>3
  <2> QED
    BY <2>1, <2>2, <2>3, <2>4, <2>5, AnswerOneServes
<1>2. CASE RespUpdate
  <2>1. PICK x \in Sessions : Head(adQ).ids = {x}
    BY <1>2, <1>h DEF RespUpdate
  <2> DEFINE o == Head(adQ).o
  <2>2. /\ Handle("update") /\ UNCHANGED <<apiQ, nHz, spe>>
        /\ \/ SaveTrackingSession(time, dist, x, o) /\ ~Head(adQ).ok
           \/ UNCHANGED <<time, dist>>
    BY <1>2, <2>1 DEF RespUpdate, OnlySessions, sessVars
  <2>3. /\ Head(adQ) \in MsgShape /\ Head(adQ).k = "update" /\ adQ \in Seq(MsgShape)
        /\ adQ # <<>> /\ adQ' = Tail(adQ) /\ UNCHANGED <<up, lock, told>>
    BY <1>h, <2>2 DEF Handle, Shape, OtherOK, modemVars
  <2>4. o \in TrackingOptions /\ Head(adQ).ok \in BOOLEAN
    BY <2>3 DEF MsgShape, Carriers, Messages
  <2>5. ~(o.far /\ DistSupported) /\ o.ivl >= MinInterval
    <3>1. "update" \notin {"erase", "engineUp"}
      OBVIOUS
    <3>2. Side("update", Head(adQ).o)
      BY <2>1, <2>2, <3>1, TakenFacts
    <3>3. Head(adQ) \notin RushMsg
      BY <2>3, TailHas DEF Serving, Paced
    <3> QED
      BY <2>3, <3>2, <3>3 DEF Side, ToTime, RushMsg, PacedOpt
  <2> HIDE DEF o
  <2>6. /\ \A s \in Sessions : time'[s] # NoOpt => time'[s].ivl >= MinInterval
        /\ \A s \in Sessions : dist'[s] = dist[s]
    <3>1. CASE SaveTrackingSession(time, dist, x, o)
      <4>1. /\ \A s \in Sessions \ {x} : time'[s] = time[s] /\ dist'[s] = dist[s]
            /\ time'[x] = o /\ dist'[x] = dist[x]
        BY <1>t, <2>4, <2>5, <3>1, SaveAt DEF Tables
      <4> QED
        BY <1>t, <2>5, <4>1
    <3>2. CASE UNCHANGED <<time, dist>>
      BY <1>t, <3>2
    <3> QED
      BY <2>2, <3>1, <3>2
  <2>7. Settled' => \A s \in Sessions : time'[s] \in {time[s], NoOpt}
    <3>1. CASE Head(adQ).ok
      BY <2>2, <3>1
    <3>2. CASE ~Head(adQ).ok
      <4>1. Head(adQ).ok = FALSE
        BY <2>4, <3>2
      <4>2. apiQ' = apiQ \o <<>> /\ apiQ \in Seq(ReqShape)
        BY <2>2, ConcatEmptySeq DEF Shape, AdapterOK
      <4>3. <<>> \in Seq(ReqShape) /\ ~Has(<<>>, OpenReq)
        BY EmptyHas
      <4>4. ~Settled'
        BY <2>3, <4>1, <4>2, <4>3, AdapterReach DEF Serving
      <4> QED
        BY <4>4
    <3> QED
      BY <3>1, <3>2
  <2>8. "update" \notin {"erase", "engineUp", "restart"} /\ "update" # "dbtStop"
    OBVIOUS
  <2> QED
    BY <2>1, <2>2, <2>6, <2>7, <2>8, AnswerOneServes
<1>3. CASE RespStop
  <2>1. PICK x \in Sessions : Head(adQ).ids = {x}
    BY <1>3, <1>h DEF RespStop
  <2>2. Handle("stop") /\ UNCHANGED <<apiQ, time, dist, nHz, spe>>
    BY <1>3 DEF RespStop, OnlySessions, sessVars
  <2>3. "stop" \notin {"erase", "engineUp", "restart"} /\ "stop" # "dbtStop"
    OBVIOUS
  <2>4. /\ \A s \in Sessions : time'[s] # NoOpt => time'[s].ivl >= MinInterval
        /\ \A s \in Sessions : time'[s] \in {time[s], NoOpt} /\ dist'[s] = dist[s]
    BY <1>t, <2>2
  <2> QED
    BY <2>1, <2>2, <2>3, <2>4, AnswerOneServes
<1>4. CASE RespDistanceStop
  <2>1. PICK x \in Sessions : Head(adQ).ids = {x}
    BY <1>4, <1>h DEF RespDistanceStop
  <2>2. Head(adQ).ok = TRUE
    <3>1. Head(adQ) \in MsgShape /\ Head(adQ).k = "dbtStop"
      BY <1>4, <1>h DEF RespDistanceStop
    <3> QED
      BY <3>1 DEF MsgShape
  <2>3. /\ Handle("dbtStop") /\ UNCHANGED <<apiQ, nHz, spe>>
        /\ EraseTrackingSession(x)
    BY <1>4, <2>1, <2>2 DEF RespDistanceStop, OnlySessions
  <2>4. x \notin hasty => time[x] = NoOpt \/ dist[x] = NoOpt
    BY DEF Lives, Life, Calm
  <2>5. /\ \A s \in Sessions \ {x} : time'[s] = time[s] /\ dist'[s] = dist[s]
        /\ time'[x] = NoOpt /\ (x \notin hasty => dist'[x] = NoOpt)
    BY <1>t, <2>3, <2>4, EraseAt DEF EraseTrackingSession
  <2>6. "dbtStop" \notin {"erase", "engineUp", "restart"}
    OBVIOUS
  <2>7. /\ \A s \in Sessions : time'[s] # NoOpt => time'[s].ivl >= MinInterval
        /\ \A s \in Sessions : time'[s] \in {time[s], NoOpt}
    BY <1>t, <2>5
  <2> QED
    BY <2>1, <2>3, <2>5, <2>6, <2>7, AnswerOneServes
<1>5. CASE RespRestarted
  <2>1. PICK x \in Sessions : Head(adQ).ids = {x}
    BY <1>5, <1>h DEF RespRestarted
  <2> DEFINE o == Head(adQ).o
  <2>2. /\ Handle("restarted") /\ UNCHANGED <<apiQ, nHz, spe>>
        /\ \/ SaveTrackingSession(time, dist, x, o)
           \/ UNCHANGED <<time, dist>>
    BY <1>5, <2>1 DEF RespRestarted, OnlySessions, sessVars
  <2>3. Head(adQ) \in MsgShape /\ Head(adQ).k = "restarted"
    BY <1>h, <2>2
  <2>4. o \in TrackingOptions
    BY <2>3 DEF MsgShape, Carriers
  <2>5. "restarted" \notin {"erase", "engineUp", "restart"} /\ "restarted" # "dbtStop"
    OBVIOUS
  <2>6. o.far /\ DistSupported /\ (x \notin hasty => dist[x] # NoOpt)
    <3>1. ToDist \in Watched /\ "restarted" \in ToDist
      BY DEF Watched, ToDist
    <3>2. Side("restarted", Head(adQ).o) /\ Told(ToDist, x)
      BY <2>1, <2>2, <2>5, <3>1, TakenFacts
    <3> QED
      BY <3>1, <3>2 DEF Side, Serving, Sure, DistDue
  <2> HIDE DEF o
  <2>7. /\ \A s \in Sessions : time'[s] = time[s]
        /\ \A s \in Sessions \ {x} : dist'[s] = dist[s]
    <3>1. CASE SaveTrackingSession(time, dist, x, o)
      BY <1>t, <2>4, <2>6, <3>1, SaveAt DEF Tables
    <3>2. CASE UNCHANGED <<time, dist>>
      BY <3>2
    <3> QED
      BY <2>2, <3>1, <3>2
  <2>8. /\ \A s \in Sessions : time'[s] # NoOpt => time'[s].ivl >= MinInterval
        /\ \A s \in Sessions : time'[s] \in {time[s], NoOpt}
    BY <1>t, <2>7
  <2> QED
    BY <2>1, <2>2, <2>5, <2>6, <2>7, <2>8, AnswerOneServes
<1>6. ~PendingStart /\ ~PendingUpdate
  <2>1. ASSUME NEW k \in {"startCmd", "updateCmd"}, Handle(k) PROVE FALSE
    <3>1. k \notin {"erase", "engineUp"}
      BY <2>1
    <3>2. PICK x \in Sessions : Head(adQ).ids = {x}
      BY <1>h, <2>1, <3>1
    <3> QED
      BY <2>1, <3>1, <3>2, TakenFacts
  <2> QED
    BY <2>1 DEF PendingStart, PendingUpdate
<1> QED
  BY <1>1, <1>2, <1>3, <1>4, <1>5, <1>6, ClientStopServes, RestartedServes, SwitchServes
  DEF Response

-----------------------------------------------------------------------------
(* Restarts.                                                               *)

(* checkAndRestartSPESession starts every distance based session.          *)
LEMMA RestartTracks ==
    ASSUME Shape, NEW q \in Seq(ReqShape), NEW b \in BOOLEAN,
           apiQ' = (apiQ \o q) \o RestartRequests(b), UNCHANGED dbt,
           NEW s \in DistSet
    PROVE  Tracks(s)'
<1> DEFINE raise == b /\ RestartOptions.ivl > MinInterval
           o == IF raise THEN [RestartOptions EXCEPT !.ivl = MinInterval] ELSE RestartOptions
           A == IF TimeSet = {} THEN <<>> ELSE <<Request("start", {}, o, "none", NoOpt)>>
           r == Request("startDbt", DistSet, NoOpt, "none", NoOpt)
<1>1. RestartRequests(b) = A \o <<r>>
  BY DEF RestartRequests
<1>2. s \in Sessions /\ DistSet \in SUBSET Sessions /\ dist[s] \in TrackingOptions
  BY DEF DistSet, Shape, AdapterOK, Tables, OptOrNone
<1>3. r \in ReqShape /\ r.op = "startDbt" /\ s \in r.ids
  BY <1>2, DistanceRequests DEF Request
<1>4. A \in Seq(ReqShape)
  <2>1. CASE TimeSet = {}
    <3>1. <<>> \in Seq(ReqShape) /\ A = <<>>
      BY <2>1
    <3> HIDE DEF A
    <3> QED
      BY <3>1
  <2>2. CASE TimeSet # {}
    <3>0. MinInterval \in Nat /\ Tables
      BY TrackingAssumption DEF Shape, AdapterOK
    <3>1. RestartOptions \in TrackingOptions
      BY <2>2, <3>0, RestartFinds
    <3>2. o \in TrackingOptions
      <4> DEFINE ro == RestartOptions
      <4>1. ro \in TrackingOptions
        BY <3>1
      <4> HIDE DEF ro
      <4>2. [ro EXCEPT !.ivl = MinInterval] \in TrackingOptions
        BY <3>0, <4>1 DEF TrackingOptions
      <4> QED
        BY <4>1, <4>2 DEF ro
    <3> HIDE DEF o
    <3>3. Request("start", {}, o, "none", NoOpt) \in ReqShape
      BY <1>2, <3>2, DistanceRequests
    <3> QED
      BY <2>2, <3>3
  <2> QED
    BY <2>1, <2>2
<1> HIDE DEF A, r
<1>5. /\ apiQ \in Seq(ReqShape) /\ <<r>> \in Seq(ReqShape)
      /\ q \o A \in Seq(ReqShape)
  BY <1>3, <1>4, ConcatProperties DEF Shape, AdapterOK
<1>6. apiQ' = apiQ \o Append(q \o A, r) /\ Append(q \o A, r) \in Seq(ReqShape)
  <2>1. (apiQ \o q) \o (A \o <<r>>) = apiQ \o (q \o (A \o <<r>>))
    <3>1. A \o <<r>> \in Seq(ReqShape)
      BY <1>4, <1>5, ConcatProperties
    <3> QED
      BY <1>5, <3>1, ConcatAssociative
  <2>2. q \o (A \o <<r>>) = (q \o A) \o <<r>>
    BY <1>4, <1>5, ConcatAssociative
  <2>3. Append(q \o A, r) = (q \o A) \o <<r>> /\ Append(q \o A, r) \in Seq(ReqShape)
    BY <1>3, <1>5, AppendIsConcat, AppendProperties
  <2> QED
    BY <1>1, <2>1, <2>2, <2>3
<1> DEFINE was == Tracks(s)
           p == Append(q \o A, r)
<1>7. was \in BOOLEAN /\ (Tracks(s)' <=> Finally(p, DbtReq(s), DbtStart(s), was))
  BY <1>6, TracksPost
<1> HIDE DEF was
<1>8. r \in DbtReq(s) /\ r \in DbtStart(s) /\ DbtStart(s) \in SUBSET DbtReq(s)
  BY <1>3 DEF DbtReq, DbtStart
<1>9. Finally(p, DbtReq(s), DbtStart(s), was)
  BY <1>3, <1>5, <1>7, <1>8, FinallyAppend
<1> QED
  BY <1>7, <1>9

(* checkAndRestartSPESession serves all sessions, whatever was the case.   *)
LEMMA RestartServes ==
    ASSUME Shape, Serving, NEW h \in Seq(ReqShape), Silent(h), NEW b \in BOOLEAN,
           apiQ' = (apiQ \o h) \o RestartRequests(b), spe' = RestartSpe(b), nHz' = b,
           UNCHANGED <<engine, dbt, up, lock, told, clients, time, dist, hasty>>,
           adQ' = adQ \/ (adQ # <<>> /\ adQ' = Tail(adQ) /\ Head(adQ).k = "engineUp")
    PROVE  Serving'
<1> DEFINE R == RestartRequests(b)
           q == h \o R
<1>1. (\A n \in Nat : Needed(n) => Runs(n)') /\ Highest'
  BY RestartRuns
<1>2. \A s \in DistSet : Tracks(s)'
  BY RestartTracks
<1>3. R \in Seq(ReqShape) /\ Silent(R) /\ apiQ' = (apiQ \o h) \o R
  BY RestartPosts DEF Silent
<1> HIDE DEF R
<1>4. apiQ \in Seq(ReqShape) /\ adQ \in Seq(MsgShape)
  BY DEF Shape, AdapterOK, OtherOK
<1>5. /\ apiQ' = apiQ \o q /\ q \in Seq(ReqShape)
      /\ \A P : Has(q, P) <=> Has(h, P) \/ Has(R, P)
  <2>1. q \in Seq(ReqShape) /\ apiQ' = apiQ \o q
    BY <1>3, <1>4, ConcatAssociative, ConcatProperties
  <2>2. \A P : Has(q, P) <=> Has(h, P) \/ Has(R, P)
    BY <1>3, ConcatHas
  <2> QED
    BY <2>1, <2>2
<1> HIDE DEF q
<1>6. ASSUME NEW p, p = h \/ p = R
      PROVE  /\ ~Has(p, OpenReq) /\ ~Has(p, RushReq)
             /\ \A J \in Watched, s \in Sessions : ~Has(p, ReqOf(J, s))
  <2>1. Silent(p)
    BY <1>3, <1>6
  <2> QED
    BY <2>1, WatchedKinds DEF Silent, Has, OpenReq, RushReq, PacedOpt, ToTime, ReqOf
<1>7. /\ ~Has(q, OpenReq) /\ ~Has(q, RushReq)
      /\ \A J \in Watched, s \in Sessions : Asked(J, s)' <=> Asked(J, s)
  <2>1. \A P : Has(apiQ', P) <=> Has(apiQ, P) \/ Has(q, P)
    BY <1>4, <1>5, ConcatHas
  <2> QED
    BY <1>5, <1>6, <2>1 DEF Asked
<1>8. \A J \in Watched, s \in Sessions : Told(J, s)' <=> Told(J, s)
  <2>1. CASE adQ' = adQ
    BY <2>1 DEF Told
  <2>2. CASE adQ # <<>> /\ adQ' = Tail(adQ) /\ Head(adQ).k = "engineUp"
    <3>1. \A J \in Watched : "engineUp" \notin J
      BY WatchedKinds DEF RespKinds
    <3> QED
      BY <2>2, <3>1, TakeTold
  <2> QED
    BY <2>1, <2>2
<1>9. \A s \in Sessions : Sure(s)'
  <2>1. ToDist \in Watched /\ ToErase \in Watched
    BY DEF Watched
  <2>2. \A s \in Sessions : /\ (EraseDue(s)' <=> EraseDue(s))
                            /\ (DistDue(s)' <=> DistDue(s))
    BY <1>7, <1>8, <2>1 DEF EraseDue, DistDue
  <2> QED
    BY <2>2 DEF Sure, Serving
<1>10. Driven' /\ \A s \in Sessions : Followed(s)'
  BY <1>1, <1>2 DEF Driven, Needed, Followed, DistSet
<1>11. \A s \in Sessions : time'[s] # NoOpt => time'[s].ivl >= MinInterval
  BY DEF Serving, Paced
<1>12. adQ' = adQ \/ (adQ # <<>> /\ adQ' = Tail(adQ))
  OBVIOUS
<1> QED
  BY <1>5, <1>7, <1>9, <1>10, <1>11, <1>12, AdapterServes

(* handleEngineUpEvent, updateNHzRequirementCb and the configurations that *)
(* suspend and restart.                                                    *)
LEMMA RestartsServe ==
    ASSUME CapsAtStart, Shape, Boot, Serving, EngineUp \/ NHzChanged \/ Reconfigure
    PROVE  Serving'
<1>1. /\ apiQ \in Seq(ReqShape) /\ <<>> \in Seq(ReqShape) /\ Silent(<<>>)
      /\ lock /\ nHz \in BOOLEAN
  BY EmptySeq DEF Shape, AdapterOK, OtherOK, Silent, Serving, Reach
<1>e. apiQ \o <<>> = apiQ
  BY <1>1, ConcatEmptySeq
<1>2. CASE EngineUp
  <2>1. /\ adQ # <<>> /\ Head(adQ).k = "engineUp" /\ mPendingMsgs = <<>>
        /\ UNCHANGED <<clients, time, dist, engine, dbt, up, lock, told, nHz, hasty>>
        /\ apiQ' = apiQ \o RestartRequests(nHz) /\ spe' = RestartSpe(nHz)
        /\ adQ' = Tail(adQ) \o mPendingMsgs
    BY <1>1, <1>2 DEF EngineUp, Boot, sessVars, modemVars
  <2>2. Tail(adQ) \in Seq(MsgShape)
    BY <2>1, HeadTailProperties DEF Shape, OtherOK
  <2>3. adQ' = Tail(adQ)
    BY <2>1, <2>2, ConcatEmptySeq
  <2>4. apiQ' = (apiQ \o <<>>) \o RestartRequests(nHz) /\ nHz' = nHz
    BY <1>e, <2>1
  <2> QED
    BY <1>1, <2>1, <2>3, <2>4, RestartServes
<1>3. CASE NHzChanged
  <2> DEFINE b == ~nHz
  <2>1. /\ nHz' = b /\ apiQ' = apiQ \o RestartRequests(nHz') /\ spe' = RestartSpe(nHz')
        /\ UNCHANGED <<clients, time, dist, engine, dbt, up, lock, told, adQ, hasty>>
        /\ b \in BOOLEAN
    BY <1>3 DEF NHzChanged, sessVars, modemVars, histVars
  <2> HIDE DEF b
  <2>2. apiQ' = (apiQ \o <<>>) \o RestartRequests(b) /\ spe' = RestartSpe(b)
    BY <1>e, <2>1
  <2> QED
    BY <1>1, <2>1, <2>2, RestartServes
<1>4. CASE Reconfigure
  <2> DEFINE a == Request("stop", {}, NoOpt, "none", NoOpt)
             halt == IF TimeSet = {} THEN <<>> ELSE <<a>>
  <2>1. /\ apiQ' = (apiQ \o halt) \o RestartRequests(nHz) /\ spe' = RestartSpe(nHz)
        /\ UNCHANGED <<clients, time, dist, engine, dbt, up, lock, told, adQ, nHz, hasty>>
    BY <1>4 DEF Reconfigure, sessVars, modemVars, histVars
  <2>2. a \in ReqShape /\ a.k = "none" /\ a.op # "open"
    <3>1. a \in Requests
      BY DEF Request, Requests, OptOrNone, RespKinds
    <3> QED
      BY <3>1 DEF Request, ReqShape, Carriers
  <2>3. halt \in Seq(ReqShape) /\ Silent(halt)
    <3> HIDE DEF a
    <3>1. CASE TimeSet = {}
      <4>1. halt = <<>>
        BY <3>1
      <4> HIDE DEF halt
      <4> QED
        BY <1>1, <4>1
    <3>2. CASE TimeSet # {}
      BY <2>2, <3>2 DEF Silent
    <3> QED
      BY <3>1, <3>2
  <2> HIDE DEF halt
  <2>4. nHz' = nHz
    BY <2>1
  <2> QED
    BY <1>1, <2>1, <2>3, <2>4, RestartServes
<1> QED
  BY <1>2, <1>3, <1>4

-----------------------------------------------------------------------------
(* The LocApi thread.                                                      *)

(* What is under way stays under way, and no table changes.                *)
LEMMA SureKept ==
    ASSUME \A s \in Sessions : Sure(s), UNCHANGED <<clients, dist, hasty>>,
           \A J \in Watched, s \in Sessions :
              Asked(J, s)' \/ Told(J, s)' <=> Asked(J, s) \/ Told(J, s)
    PROVE  /\ \A s \in Sessions : Sure(s)'
           /\ \A s \in Sessions : (Tracks(s)' <=> Tracks(s)) /\ Followed(s) => Followed(s)'
<1>1. ToDist \in Watched /\ ToStop \in Watched /\ ToErase \in Watched /\ ToRestart \in Watched
  BY DEF Watched
<1>2. \A s \in Sessions : /\ DistDue(s)' <=> DistDue(s)
                          /\ StopDue(s)' <=> StopDue(s)
                          /\ EraseDue(s)' <=> EraseDue(s)
                          /\ RestartDue(s)' <=> RestartDue(s)
  BY <1>1 DEF DistDue, StopDue, EraseDue, RestartDue
<1> QED
  BY <1>2 DEF Sure, Followed

(* A request is carried out and answered, or fails while the modem is      *)
(* being opened.                                                           *)
LEMMA RespondServes ==
    ASSUME Shape, Shape', Serving, apiQ # <<>>, Head(apiQ).op # "open",
           NEW ok \in BOOLEAN, Respond(ok), up => ok,
           UNCHANGED <<up, lock, told, clients, time, dist, nHz, spe, hasty>>,
           up => /\ \A n \in Nat : Runs(n)' <=> Runs(n)
                 /\ \A s \in Sessions : Tracks(s)' <=> Tracks(s)
    PROVE  Serving'
<1> DEFINE r == Head(apiQ)
           m == Message(r.k, r.ids, r.ro, ok)
<1>1. /\ apiQ \in Seq(ReqShape) /\ adQ \in Seq(MsgShape) /\ adQ' \in Seq(MsgShape)
      /\ r \in ReqShape
  BY HeadTailProperties DEF Shape, AdapterOK, OtherOK
<1>2. apiQ' = Tail(apiQ) /\ adQ' = IF r.k = "none" THEN adQ ELSE Append(adQ, m)
  BY DEF Respond
<1>3. m.k = r.k /\ m.ids = r.ids /\ m.o = r.ro /\ m.ok = ok
  BY DEF Message
<1>o. r.op # "open"
  OBVIOUS
<1> HIDE DEF m, r
<1>4. /\ \A P : Has(apiQ, P) <=> Has(apiQ', P) \/ r \in P
      /\ \A P : AtMostOne(apiQ, P) => AtMostOne(apiQ', P)
  BY <1>1, <1>2, TailHas DEF r
<1>5. r.k \in RespKinds \cup {"none"}
  BY <1>1 DEF ReqShape, Requests
<1>6. \A J, s : r \in ReqOf(J, s) <=> r.k \in J /\ s \in r.ids
  BY <1>1 DEF ReqOf
<1>7. (Opening' <=> Opening) /\ AtMostOne(apiQ', OpenReq)
  BY <1>o, <1>4 DEF Opening, OpenReq, Serving, Reach
<1>8. r.k # "none" => m \in MsgShape
  <2> SUFFICES ASSUME r.k # "none" PROVE m \in MsgShape
    OBVIOUS
  <2>1. adQ' = Append(adQ, m)
    BY <1>2
  <2>2. /\ Len(adQ) \in Nat /\ Len(Append(adQ, m)) = Len(adQ) + 1
        /\ Append(adQ, m)[Len(adQ) + 1] = m
    BY <1>1
  <2>3. Len(adQ) + 1 \in 1 .. Len(adQ')
    BY <2>1, <2>2
  <2>4. adQ'[Len(adQ) + 1] \in MsgShape
    BY <1>1, <2>3, ElementOfSeq
  <2> QED
    BY <2>1, <2>2, <2>4
<1>9. \A P : Has(adQ', P) <=> Has(adQ, P) \/ (r.k # "none" /\ m \in P)
  <2>1. CASE r.k = "none"
    BY <1>2, <2>1
  <2>2. CASE r.k # "none"
    BY <1>1, <1>2, <1>8, <2>2, AppendHas
  <2> QED
    BY <2>1, <2>2
<1>10. \A J \in Watched, s \in Sessions :
          Asked(J, s)' \/ Told(J, s)' <=> Asked(J, s) \/ Told(J, s)
  <2>1. \A J, s : r.k # "none" => (m \in MsgOf(J, s) <=> r.k \in J /\ s \in r.ids)
    BY <1>3, <1>8 DEF MsgOf
  <2> QED
    BY <1>4, <1>6, <1>9, <2>1, WatchedKinds DEF Asked, Told
<1>11. /\ \A s \in Sessions : Sure(s)'
       /\ \A s \in Sessions : (Tracks(s)' <=> Tracks(s)) /\ Followed(s) => Followed(s)'
  BY <1>10, SureKept DEF Serving
<1>12. Paced'
  <2>1. r \notin RushReq /\ ~Has(apiQ', RushReq)
    BY <1>4 DEF Serving, Paced
  <2>2. r.k # "none" => m \notin RushMsg
    BY <1>1, <1>3, <2>1 DEF RushReq, RushMsg
  <2> QED
    BY <1>9, <2>1, <2>2 DEF Serving, Paced
<1>13. Reach'
  <2>1. ASSUME told PROVE Covered'
    <3>1. up /\ ok /\ Covered
      BY <2>1 DEF Serving, Reach
    <3>2. CASE r.k = "none"
      BY <1>2, <3>1, <3>2 DEF Covered
    <3>3. CASE r.k # "none"
      <4> DEFINE P == FailedMsg \cup UpMsg
      <4>1. m \notin P /\ UpMsg \in SUBSET P
        BY <1>3, <1>5, <3>1, <3>3 DEF FailedMsg, UpMsg, RespKinds
      <4>2. (Covered <=> Finally(adQ, P, UpMsg, TRUE)) /\ (Covered' <=> Finally(adQ', P, UpMsg, TRUE))
        BY DEF Covered
      <4>3. adQ' = Append(adQ, m) /\ m \in MsgShape
        BY <1>2, <1>8, <3>3
      <4> HIDE DEF P
      <4> QED
        BY <1>1, <3>1, <4>1, <4>2, <4>3, FinallyAppend
    <3> QED
      BY <3>2, <3>3
  <2> QED
    BY <1>7, <2>1 DEF Serving, Reach
<1>14. Settled' => Settled /\ up
  BY <1>7, <1>9 DEF Settled, Serving, Reach
<1>15. Settled' => Driven' /\ \A s \in Sessions : Followed(s)'
  <2> SUFFICES ASSUME Settled' PROVE Driven' /\ \A s \in Sessions : Followed(s)'
    OBVIOUS
  <2>1. Driven /\ \A s \in Sessions : Followed(s)
    BY <1>14 DEF Serving
  <2>2. MinInterval \in Nat
    BY TrackingAssumption
  <2>3. Driven'
    BY <1>14, <2>1, <2>2 DEF Driven, Highest, Needed
  <2> QED
    BY <1>11, <1>14, <2>1, <2>3
<1> QED
  BY <1>11, <1>12, <1>13, <1>15 DEF Serving

(* The modem is opened and the engine-up event is on its way, or it is not *)
(* opened and nobody is told.                                              *)
LEMMA OpenServes ==
    ASSUME Shape, Serving, ApiOpen
    PROVE  Serving'
<1> DEFINE m == Message("engineUp", {}, NoOpt, TRUE)
<1>1. /\ apiQ # <<>> /\ apiQ' = Tail(apiQ)
      /\ \/ adQ' = Append(adQ, m) /\ up' /\ told'
         \/ UNCHANGED <<adQ, up, told>>
      /\ Head(apiQ).op = "open"
      /\ UNCHANGED <<lock, clients, time, dist, hasty>>
  BY DEF ApiOpen, ApiOnly, sessVars, histVars
<1>2. apiQ \in Seq(ReqShape) /\ adQ \in Seq(MsgShape) /\ Head(apiQ) \in ReqShape
  BY <1>1, HeadTailProperties DEF Shape, AdapterOK, OtherOK
<1>3. m \in MsgShape /\ m.k = "engineUp"
  <2>1. m \in Messages
    BY DEF Message, Messages, OptOrNone
  <2> QED
    BY <2>1 DEF Message, MsgShape, Carriers
<1> HIDE DEF m
<1>4. /\ \A P : Has(apiQ, P) <=> Has(apiQ', P) \/ Head(apiQ) \in P
      /\ \A P : AtMostOne(apiQ, P) => AtMostOne(apiQ', P)
      /\ \A P : Head(apiQ) \in P /\ AtMostOne(apiQ, P) => ~Has(apiQ', P)
      /\ adQ' # adQ => \A P : Has(adQ', P) <=> Has(adQ, P) \/ m \in P
  <2>1. adQ' = Append(adQ, m) => \A P : Has(adQ', P) <=> Has(adQ, P) \/ m \in P
    BY <1>2, <1>3, AppendHas
  <2>2. /\ \A P : Has(apiQ, P) <=> Has(apiQ', P) \/ Head(apiQ) \in P
        /\ \A P : AtMostOne(apiQ, P) => AtMostOne(apiQ', P)
        /\ \A P : Head(apiQ) \in P /\ AtMostOne(apiQ, P) => ~Has(apiQ', P)
    BY <1>1, <1>2, TailHas
  <2> QED
    BY <1>1, <2>1, <2>2
<1>5. Head(apiQ).k = "none" /\ Head(apiQ) \in OpenReq /\ m \in UpMsg
  BY <1>1, <1>2, <1>3 DEF ReqShape, OpenReq, UpMsg
<1>6. \A J \in Watched, s \in Sessions :
          Asked(J, s)' \/ Told(J, s)' <=> Asked(J, s) \/ Told(J, s)
  <2>1. ASSUME NEW J \in Watched, NEW s \in Sessions
        PROVE  Head(apiQ) \notin ReqOf(J, s) /\ m \notin MsgOf(J, s)
    BY <1>3, <1>5, WatchedKinds DEF ReqOf, MsgOf, RespKinds
  <2> QED
    BY <1>4, <2>1 DEF Asked, Told
<1>7. \A s \in Sessions : Sure(s)'
  BY <1>1, <1>6, SureKept DEF Serving
<1>8. Paced'
  <2>1. m \notin RushMsg
    BY <1>3 DEF RushMsg, PacedOpt, ToTime
  <2> QED
    BY <1>1, <1>4, <2>1 DEF Serving, Paced
<1>9. ~Opening' /\ AtMostOne(apiQ', OpenReq) /\ Opening /\ ~up /\ ~told
  BY <1>4, <1>5 DEF Opening, Serving, Reach
<1>10. CASE adQ' = Append(adQ, m) /\ up' /\ told'
  <2> DEFINE P == FailedMsg \cup UpMsg
  <2>1. m \in P /\ UpMsg \in SUBSET P
    BY <1>5
  <2>2. Covered' <=> Finally(adQ', P, UpMsg, TRUE)
    BY DEF Covered
  <2>3. Has(adQ', UpMsg)
    BY <1>2, <1>3, <1>5, <1>10, AppendHas
  <2> HIDE DEF P
  <2>4. Covered'
    BY <1>2, <1>3, <1>5, <1>10, <2>1, <2>2, FinallyAppend
  <2> QED
    BY <1>1, <1>7, <1>8, <1>9, <1>10, <2>3, <2>4 DEF Serving, Reach, Settled
<1>11. CASE UNCHANGED <<adQ, up, told>>
  BY <1>1, <1>7, <1>8, <1>9, <1>11 DEF Serving, Reach, Settled
<1> QED
  BY <1>1, <1>10, <1>11

(* The modem is opened and the adapter is not told.                        *)
LEMMA ReopenServes ==
    ASSUME Shape, Serving, Reopen
    PROVE  Serving'
<1>1. /\ ~up /\ \A i \in DOMAIN apiQ : apiQ[i].op # "open"
      /\ UNCHANGED <<apiQ, adQ, engine, dbt, told, nHz, spe, lock, clients, time, dist, hasty>>
  BY DEF Reopen, ApiOnly, sessVars, histVars
<1>2. ~Opening
  BY <1>1 DEF Opening, Has, OpenReq
<1>3. ~told
  BY <1>1 DEF Serving, Reach
<1>4. Reach'
  BY <1>1, <1>2, <1>3 DEF Serving, Reach, Opening
<1>5. \A s : Sure(s) => Sure(s)'
  BY <1>1 DEF Sure, DistDue, EraseDue, Asked, Told
<1>6. Paced' /\ ~Settled'
  BY <1>1, <1>3 DEF Serving, Paced, Settled
<1> QED
  BY <1>4, <1>5, <1>6 DEF Serving

(* Taking a request off the LocApi thread's queue and doing what it says.  *)
LEMMA CarriedOut ==
    ASSUME Shape, apiQ # <<>>, apiQ' = Tail(apiQ)
    PROVE  /\ \A n : \/ /\ Head(apiQ) \in EngineReq
                        /\ engine' # Off /\ engine'.ivl <= n <=> Head(apiQ) \in FastReq(n)
                     \/ Head(apiQ) \notin EngineReq /\ UNCHANGED engine
                     => (Runs(n)' <=> Runs(n))
           /\ \A s : \/ Head(apiQ) \in DbtReq(s) /\ (s \in dbt' <=> Head(apiQ) \in DbtStart(s))
                     \/ Head(apiQ) \notin DbtReq(s) /\ (s \in dbt' <=> s \in dbt)
                     => (Tracks(s)' <=> Tracks(s))
<1>0. apiQ \in Seq(ReqShape)
  BY DEF Shape, AdapterOK
<1>1. ASSUME NEW n, \/ /\ Head(apiQ) \in EngineReq
                       /\ engine' # Off /\ engine'.ivl <= n <=> Head(apiQ) \in FastReq(n)
                    \/ Head(apiQ) \notin EngineReq /\ UNCHANGED engine
      PROVE  Runs(n)' <=> Runs(n)
  <2> DEFINE now == engine # Off /\ engine.ivl <= n
             then == engine' # Off /\ engine'.ivl <= n
  <2>1. now \in BOOLEAN /\ then \in BOOLEAN
    OBVIOUS
  <2>2. FastReq(n) \in SUBSET EngineReq
    BY DEF FastReq, EngineReq
  <2>3. /\ Runs(n) <=> Finally(apiQ, EngineReq, FastReq(n), now)
        /\ Runs(n)' <=> Finally(Tail(apiQ), EngineReq, FastReq(n), then)
    BY DEF Runs
  <2>4. /\ Head(apiQ) \in EngineReq => (then <=> Head(apiQ) \in FastReq(n))
        /\ Head(apiQ) \notin EngineReq => (then <=> now)
    BY <1>1
  <2> HIDE DEF now, then
  <2> QED
    BY <1>0, <2>1, <2>2, <2>3, <2>4, FinallyTail
<1>2. ASSUME NEW s, \/ Head(apiQ) \in DbtReq(s) /\ (s \in dbt' <=> Head(apiQ) \in DbtStart(s))
                    \/ Head(apiQ) \notin DbtReq(s) /\ (s \in dbt' <=> s \in dbt)
      PROVE  Tracks(s)' <=> Tracks(s)
  <2> DEFINE now == s \in dbt
             then == s \in dbt'
  <2>1. now \in BOOLEAN /\ then \in BOOLEAN
    OBVIOUS
  <2>2. DbtStart(s) \in SUBSET DbtReq(s)
    BY DEF DbtStart, DbtReq
  <2>3. /\ Tracks(s) <=> Finally(apiQ, DbtReq(s), DbtStart(s), now)
        /\ Tracks(s)' <=> Finally(Tail(apiQ), DbtReq(s), DbtStart(s), then)
    BY DEF Tracks
  <2>4. /\ Head(apiQ) \in DbtReq(s) => (then <=> Head(apiQ) \in DbtStart(s))
        /\ Head(apiQ) \notin DbtReq(s) => (then <=> now)
    BY <1>2
  <2> HIDE DEF now, then
  <2> QED
    BY <1>0, <2>1, <2>2, <2>3, <2>4, FinallyTail
<1> QED
  BY <1>1, <1>2

(* The LocApi thread.                                                      *)
LEMMA LocApiServes ==
    ASSUME ~CanFail, Shape, Shape', Serving, LocApi
    PROVE  Serving'
<1>1. CASE ApiOpen
  BY <1>1, OpenServes
<1>2. CASE ~ApiOpen
  <2> DEFINE r == Head(apiQ)
  <2>1. /\ apiQ # <<>> /\ apiQ' = Tail(apiQ) /\ lock
        /\ UNCHANGED <<up, lock, told, clients, time, dist, nHz, spe, hasty>>
    BY <1>2 DEF LocApi, ApiStart, ApiStop, ApiStartDbt, ApiStopDbt, ApiOnly, sessVars, histVars,
                Respond, Serving, Reach
  <2>2. r \in ReqShape
    BY <2>1, HeadTailProperties DEF Shape, AdapterOK
  <2>3. up => ~Fails
    BY <2>1 DEF Fails
  <2>4. PICK ok \in BOOLEAN : Respond(ok) /\ (up => ok)
    BY <1>2, <2>3 DEF LocApi, ApiStart, ApiStop, ApiStartDbt, ApiStopDbt
  <2>5. r.op # "open"
    BY <1>2 DEF LocApi, ApiStart, ApiStop, ApiStartDbt, ApiStopDbt
  <2>6. ASSUME up PROVE  \A n \in Nat : Runs(n)' <=> Runs(n)
    <3>1. CASE ApiStart
      <4>1. r.op = "start" /\ engine' = r.o /\ r.o \in TrackingOptions
        BY <2>2, <2>3, <2>6, <3>1 DEF ApiStart, ReqShape
      <4>2. engine' # Off
        BY <4>1, TrackingAssumption
      <4>3. \A n : /\ r \in EngineReq
                   /\ engine' # Off /\ engine'.ivl <= n <=> r \in FastReq(n)
        BY <2>2, <4>1, <4>2 DEF EngineReq, FastReq
      <4> QED
        BY <2>1, <4>3, CarriedOut
    <3>2. CASE ApiStop
      <4>1. r.op = "stop" /\ engine' = Off
        BY <2>3, <2>6, <3>2 DEF ApiStop
      <4>2. \A n : /\ r \in EngineReq
                   /\ engine' # Off /\ engine'.ivl <= n <=> r \in FastReq(n)
        BY <2>2, <4>1 DEF EngineReq, FastReq
      <4> QED
        BY <2>1, <4>2, CarriedOut
    <3>3. CASE ApiStartDbt \/ ApiStopDbt
      <4>1. r \notin EngineReq /\ UNCHANGED engine
        BY <3>3 DEF ApiStartDbt, ApiStopDbt, EngineReq
      <4> QED
        BY <2>1, <4>1, CarriedOut
    <3> QED
      BY <1>2, <3>1, <3>2, <3>3 DEF LocApi
  <2>7. ASSUME up PROVE \A s \in Sessions : Tracks(s)' <=> Tracks(s)
    <3>1. CASE ApiStart \/ ApiStop
      <4>1. UNCHANGED dbt /\ \A s : r \notin DbtReq(s)
        BY <3>1 DEF ApiStart, ApiStop, DbtReq
      <4> QED
        BY <2>1, <4>1, CarriedOut
    <3>2. CASE ApiStartDbt
      <4>1. r.op = "startDbt" /\ dbt' = dbt \cup r.ids
        BY <2>3, <2>7, <3>2 DEF ApiStartDbt
      <4>2. \A s : \/ r \in DbtReq(s) /\ (s \in dbt' <=> r \in DbtStart(s))
                   \/ r \notin DbtReq(s) /\ (s \in dbt' <=> s \in dbt)
        BY <2>2, <4>1 DEF DbtReq, DbtStart
      <4> QED
        BY <2>1, <4>2, CarriedOut
    <3>3. CASE ApiStopDbt
      <4>1. r.op = "stopDbt" /\ dbt' = dbt \ r.ids
        BY <2>3, <2>7, <3>3 DEF ApiStopDbt
      <4>2. \A s : \/ r \in DbtReq(s) /\ (s \in dbt' <=> r \in DbtStart(s))
                   \/ r \notin DbtReq(s) /\ (s \in dbt' <=> s \in dbt)
        BY <2>2, <4>1 DEF DbtReq, DbtStart
      <4> QED
        BY <2>1, <4>2, CarriedOut
    <3> QED
      BY <1>2, <3>1, <3>2, <3>3 DEF LocApi
  <2> QED
    BY <2>1, <2>4, <2>5, <2>6, <2>7, RespondServes
<1> QED
  BY <1>1, <1>2

(* The modem restarts: LocSsrMsg is on its way to the LocApi thread.       *)
LEMMA DownServes ==
    ASSUME Shape, Serving, EngineDown
    PROVE  Serving'
<1> DEFINE r == Request("open", {}, NoOpt, "none", NoOpt)
<1>1. /\ up /\ up' = FALSE /\ told' = FALSE /\ apiQ' = Append(apiQ, r)
      /\ UNCHANGED <<lock, clients, time, dist, adQ, hasty>>
  BY DEF EngineDown, sessVars, histVars
<1>2. r \in ReqShape /\ r.k = "none" /\ r.op = "open"
  <2>1. r \in Requests
    BY DEF Request, Requests, OptOrNone, RespKinds
  <2> QED
    BY <2>1 DEF Request, ReqShape, Carriers
<1>3. apiQ \in Seq(ReqShape) /\ ~Opening /\ AtMostOne(apiQ, OpenReq)
  BY <1>1 DEF Shape, AdapterOK, Serving, Reach
<1> HIDE DEF r
<1>4. /\ \A P : Has(apiQ', P) <=> Has(apiQ, P) \/ r \in P
      /\ AtMostOne(apiQ', OpenReq)
  BY <1>1, <1>2, <1>3, AppendHas DEF Opening
<1>5. ~Settled'
  BY <1>1 DEF Settled
<1>6. \A J \in Watched, s \in Sessions :
          Asked(J, s)' \/ Told(J, s)' <=> Asked(J, s) \/ Told(J, s)
  BY <1>1, <1>2, <1>4, WatchedKinds DEF Asked, Told, ReqOf
<1>7. \A s \in Sessions : Sure(s)'
  BY <1>1, <1>6, SureKept DEF Serving
<1>8. Paced'
  <2>1. r \notin RushReq
    BY <1>2 DEF RushReq, PacedOpt, ToTime
  <2> QED
    BY <1>1, <1>4, <2>1 DEF Serving, Paced
<1> QED
  BY <1>1, <1>4, <1>5, <1>7, <1>8 DEF Serving, Reach

-----------------------------------------------------------------------------
(* At the start nothing is under way.                                      *)
LEMMA ServingInit ==
    ASSUME CapsAtStart, Init
    PROVE  Serving
<1>1. /\ apiQ = <<>> /\ adQ = <<>> /\ up /\ told /\ lock /\ ~spe
      /\ \A s \in Sessions : time[s] = NoOpt /\ dist[s] = NoOpt
  BY DEF Init
<1>2. \A P : ~Has(apiQ, P) /\ ~Has(adQ, P) /\ AtMostOne(apiQ, P)
  BY <1>1, EmptyHas
<1>3. Reach
  BY <1>1, <1>2, FinallyImplies DEF Reach, Opening, Covered
<1>4. Paced
  BY <1>1, <1>2 DEF Paced
<1>5. \A s \in Sessions : Sure(s) /\ Followed(s)
  BY <1>1, <1>2 DEF Sure, Followed, EraseDue, DistDue, Asked, Told
<1>6. Driven
  BY <1>1 DEF Driven, Highest, Needed
<1> QED
  BY <1>3, <1>4, <1>5, <1>6 DEF Serving

(* Serving is preserved by every step.                                     *)
LEMMA ServingStep ==
    ASSUME CapsAtStart, DistSupported, ~CanFail, ~CanLock,
           Shape, Shape', Boot, Accounts, Sided, Lives, Serving, [Next]_vars
    PROVE  Serving'
<1>1. CASE Command
  BY <1>1, StartServes, UpdateServes, StopServes DEF Command
<1>2. CASE Removal
  BY <1>2, RemovalServes
<1>3. CASE Response
  BY <1>3, ResponseServes, RestartsServe
<1>4. CASE LocApi
  BY <1>4, LocApiServes
<1>5. CASE NHzChanged \/ Reconfigure
  BY <1>5, RestartsServe
<1>6. CASE EngineDown
  BY <1>6, DownServes
<1>9. CASE Reopen
  BY <1>9, ReopenServes
<1>7. CASE UNCHANGED vars
  <2>1. UNCHANGED <<engine, nHz, spe, dbt, up, lock, told, apiQ, adQ, clients, time, dist, hasty>>
    BY <1>7 DEF vars
  <2> QED
    BY <2>1, IdleServes
<1>8. ~LockChanged
  BY DEF LockChanged
<1> QED
  BY <1>1, <1>2, <1>3, <1>4, <1>5, <1>6, <1>7, <1>8, <1>9 DEF Next

(* Once both threads are idle and the adapter was told of the modem that   *)
(* is up, the engine runs at least as fast as every time based session     *)
(* asked and the modem tracks by distance every session whose client       *)
(* waited for its answers (the multiplexers and checkAndRestartSPESession  *)
(* of GnssAdapter.cpp), for any number of sessions and clients, patient or *)
(* not, of commands, modem restarts and opens that fail, with and without  *)
(* NHz measurements and suspending configurations, if the modem supports   *)
(* distance based tracking and refuses no request while it is up, the      *)
(* engine was open when the clients came and it is not locked.             *)
THEOREM EngineServesThm ==
    ASSUME CapsAtStart, DistSupported, ~CanFail, ~CanLock
    PROVE  Spec => []EngineServes
<1> DEFINE All == Shape /\ Boot /\ Accounts /\ Sided /\ Lives
<1>1. Spec => []All
  BY LifeInvariance
<1>2. Init => Serving
  BY ServingInit
<1>3. All /\ All' /\ Serving /\ [Next]_vars => Serving'
  BY ServingStep
<1>4. All /\ Serving => EngineServes
  <2> SUFFICES ASSUME Shape, Serving, Quiet, told
               PROVE  /\ \A s \in TimeSet : engine # Off /\ engine.ivl <= time[s].ivl
                      /\ \A s \in DistSet \ hasty : s \in dbt
    BY DEF EngineServes
  <2>1. apiQ = <<>> /\ adQ = <<>>
    BY DEF Quiet
  <2>2. DOMAIN apiQ = {} /\ \A P : ~Has(apiQ, P) /\ ~Has(adQ, P)
    BY <2>1, EmptyHas, EmptySeq
  <2>3. Settled
    BY <2>2 DEF Settled
  <2>4. Driven /\ \A s \in Sessions : Followed(s)
    BY <2>3 DEF Serving
  <2>5. ASSUME NEW s \in TimeSet PROVE engine # Off /\ engine.ivl <= time[s].ivl
    <3>1. s \in Sessions /\ time[s] # NoOpt /\ time[s].ivl \in Nat
      BY DEF TimeSet, Shape, AdapterOK, Tables, OptOrNone, TrackingOptions
    <3>2. Runs(time[s].ivl)
      BY <2>4, <3>1 DEF Driven, Needed
    <3> QED
      BY <2>2, <3>2 DEF Runs, Finally
  <2>6. ASSUME NEW s \in DistSet \ hasty PROVE s \in dbt
    <3>1. s \in Sessions /\ dist[s] # NoOpt /\ Followed(s)
      BY <2>4 DEF DistSet
    <3>2. ~StopDue(s) /\ ~EraseDue(s) /\ ~RestartDue(s)
      BY <2>2 DEF StopDue, EraseDue, RestartDue, Asked, Told
    <3>3. Tracks(s)
      BY <3>1, <3>2 DEF Followed
    <3> QED
      BY <2>2, <3>3 DEF Tracks, Finally
  <2> QED
    BY <2>5, <2>6
<1> QED
  BY <1>1, <1>2, <1>3, <1>4, PTL DEF Spec
=============================================================================
