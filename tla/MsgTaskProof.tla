---------------------------- MODULE MsgTaskProof ----------------------------
(***************************************************************************)
(* Proofs about MsgTask for any set of messages.                           *)
(***************************************************************************)
EXTENDS MsgTask, ListFacts, SequenceTheorems, TLAPS

(* How the two threads' positions bound each other.  An unblocked queue    *)
(* means the owner has interrupted; only then can the worker leave; and    *)
(* the queue is freed exactly when both have let go of the runnable.       *)
Lifecycle ==
    /\ unblocked <=> owner \in {"interrupted", "gone"}
    /\ worker \in {"left", "exited"} => unblocked
    /\ destroyed <=> worker = "exited" /\ owner = "gone"
    /\ worker = "proc" <=> msg # NoMsg

(* Why one late message is the most: having taken it, the worker can only  *)
(* come back to the refusal at the top of msg_q_rcv.                       *)
LateBound ==
    /\ ~unblocked => lateTakes = 0
    /\ lateTakes <= 1
    /\ lateTakes = 1 => worker \notin {"wait", "woken"}

(* Fifo by indices: the list continues accepted where taken ends.          *)
Indices ==
    /\ ~destroyed => /\ Len(accepted) = Len(taken) + Len(msg_list)
                     /\ \A i \in 1 .. Len(msg_list) :
                            msg_list[i] = accepted[Len(taken) + i]
    /\ destroyed => msg_list = <<>>
    /\ Len(taken) <= Len(accepted)
    /\ \A i \in 1 .. Len(taken) : taken[i] = accepted[i]
    /\ \A i, j \in 1 .. Len(accepted) : accepted[i] = accepted[j] => i = j

IInv == TypeOK /\ Lifecycle /\ LateBound /\ NoLostWakeup /\ Indices

(* The inductive invariant holds initially.                                *)
LEMMA InitIInv == Init => IInv
<1> SUFFICES ASSUME Init PROVE IInv
  OBVIOUS
<1>1. /\ <<>> \in Seq(Msgs)
      /\ Len(<<>>) = 0
  BY EmptySeq
<1>2. TypeOK
  <2>1. deletes \in [Msgs -> Nat]
    BY DEF Init
  <2> QED
    BY <1>1, <2>1 DEF Init, TypeOK, WorkerStates, OwnerStates
<1>3. Lifecycle /\ LateBound /\ NoLostWakeup
  BY DEF Init, Lifecycle, LateBound, NoLostWakeup
<1>4. Indices
  BY <1>1 DEF Init, Indices
<1> QED
  BY <1>2, <1>3, <1>4 DEF IInv

(* ~MTRunnable leaves the list and the delete counts well typed.           *)
LEMMA ReleaseType ==
    ASSUME TypeOK, NEW last \in BOOLEAN, Release(last)
    PROVE  /\ msg_list' \in Seq(Msgs)
           /\ destroyed' \in BOOLEAN
           /\ deletes' \in [Msgs -> Nat]
<1>1. CASE last
  <2>1. deletes' \in [Msgs -> Nat]
    <3> DEFINE inc(m) == IF \E i \in DOMAIN msg_list : msg_list[i] = m
                         THEN deletes[m] + 1 ELSE deletes[m]
    <3>1. \A m \in Msgs : inc(m) \in Nat
      BY DEF TypeOK
    <3>2. deletes' = [m \in Msgs |-> inc(m)]
      BY <1>1 DEF Release
    <3> HIDE DEF inc
    <3> QED
      BY <3>1, <3>2
  <2> QED
    BY <1>1, <2>1, EmptySeq DEF Release
<1>2. CASE ~last
  BY <1>2 DEF Release, TypeOK
<1> QED
  BY <1>1, <1>2

(* Types, for every action.                                                *)
LEMMA TypeStep == TypeOK /\ Lifecycle /\ [Next]_vars => TypeOK'
<1> SUFFICES ASSUME TypeOK, Lifecycle, [Next]_vars PROVE TypeOK'
  OBVIOUS
<1> USE DEF TypeOK, WorkerStates, OwnerStates
<1>1. ASSUME NEW m \in Msgs, SndRefused(m) PROVE TypeOK'
  BY <1>1 DEF SndRefused
<1>2. ASSUME NEW m \in Msgs, SndAccepted(m) PROVE TypeOK'
  BY <1>2 DEF SndAccepted
<1>3. CASE RcvRefused
  BY <1>3 DEF RcvRefused, LeaveLoop
<1>4. CASE RcvTake \/ WokenTake
  <2>1. Head(msg_list) \in Msgs /\ Tail(msg_list) \in Seq(Msgs)
    BY <1>4, HeadTailProperties DEF RcvTake, WokenTake, Take
  <2>2. taken' \in Seq(Msgs) /\ msg' \in Msgs /\ msg_list' \in Seq(Msgs)
    <3>1. taken' = Append(taken, Head(msg_list)) /\ msg' = Head(msg_list)
          /\ msg_list' = Tail(msg_list)
      BY <1>4 DEF RcvTake, WokenTake, Take
    <3>2. Append(taken, Head(msg_list)) \in Seq(Msgs)
      BY <2>1, AppendProperties
    <3> QED
      BY <2>1, <3>1, <3>2
  <2>3. lateTakes' \in Nat
    BY <1>4 DEF RcvTake, WokenTake, Take
  <2>4. /\ UNCHANGED <<unblocked, destroyed, owner, accepted, deletes, leaked>>
        /\ worker' = "proc"
    BY <1>4 DEF RcvTake, WokenTake, Take
  <2> QED
    BY <2>2, <2>3, <2>4
<1>5. CASE RcvWait \/ WokenWait
  BY <1>5 DEF RcvWait, WokenWait, CondWait
<1>6. CASE WokenLeave
  BY <1>6 DEF WokenLeave, LeaveLoop
<1>7. CASE ProcDone
  BY <1>7 DEF ProcDone, Lifecycle
<1>8. CASE ThreadExit
  BY <1>8, ReleaseType DEF ThreadExit, OwnerHolds
<1>9. CASE SpuriousWakeup
  BY <1>9 DEF SpuriousWakeup
<1>10. CASE StopLock
  BY <1>10 DEF StopLock
<1>11. CASE StopInterrupt
  BY <1>11 DEF StopInterrupt
<1>12. CASE StopReturn
  BY <1>12, ReleaseType DEF StopReturn, WorkerHolds
<1>13. CASE UNCHANGED vars
  BY <1>13 DEF vars
<1> QED
  BY <1>1, <1>2, <1>3, <1>4, <1>5, <1>6, <1>7, <1>8, <1>9, <1>10, <1>11,
     <1>12, <1>13 DEF Next, Worker, Owner

(* Positions, the late bound and the absence of lost wakeups: none of the  *)
(* three needs to know what the list holds, only whether it is empty.      *)
LEMMA ControlStep ==
    TypeOK /\ Lifecycle /\ LateBound /\ NoLostWakeup /\ [Next]_vars
        => Lifecycle' /\ LateBound' /\ NoLostWakeup'
<1> SUFFICES ASSUME TypeOK, Lifecycle, LateBound, NoLostWakeup, [Next]_vars
             PROVE  Lifecycle' /\ LateBound' /\ NoLostWakeup'
  OBVIOUS
<1> USE NoMsgAssumption
    DEF TypeOK, WorkerStates, OwnerStates, Lifecycle, LateBound, NoLostWakeup
<1>1. ASSUME NEW m \in Msgs, SndRefused(m)
      PROVE  Lifecycle' /\ LateBound' /\ NoLostWakeup'
  BY <1>1 DEF SndRefused
<1>2. ASSUME NEW m \in Msgs, SndAccepted(m)
      PROVE  Lifecycle' /\ LateBound' /\ NoLostWakeup'
  BY <1>2 DEF SndAccepted
<1>3. CASE RcvRefused
  BY <1>3 DEF RcvRefused, LeaveLoop
<1>4. CASE RcvTake \/ WokenTake
  <2>1. msg' \in Msgs
    BY <1>4 DEF RcvTake, WokenTake, Take
  <2> QED
    BY <1>4, <2>1 DEF RcvTake, WokenTake, Take
<1>5. CASE RcvWait \/ WokenWait
  BY <1>5 DEF RcvWait, WokenWait, CondWait
<1>6. CASE WokenLeave
  BY <1>6 DEF WokenLeave, LeaveLoop
<1>7. CASE ProcDone
  BY <1>7 DEF ProcDone
<1>8. CASE ThreadExit
  BY <1>8 DEF ThreadExit, Release, OwnerHolds
<1>9. CASE SpuriousWakeup
  BY <1>9 DEF SpuriousWakeup
<1>10. CASE StopLock
  BY <1>10 DEF StopLock, WorkerHolds
<1>11. CASE StopInterrupt
  BY <1>11 DEF StopInterrupt
<1>12. CASE StopReturn
  BY <1>12 DEF StopReturn, Release, WorkerHolds
<1>13. CASE UNCHANGED vars
  BY <1>13 DEF vars
<1> QED
  BY <1>1, <1>2, <1>3, <1>4, <1>5, <1>6, <1>7, <1>8, <1>9, <1>10, <1>11,
     <1>12, <1>13 DEF Next, Worker, Owner

(* The list against the histories.                                         *)
LEMMA IndicesStep == IInv /\ [Next]_vars => Indices'
<1> SUFFICES ASSUME IInv, [Next]_vars PROVE Indices'
  OBVIOUS
<1>t. /\ msg_list \in Seq(Msgs) /\ accepted \in Seq(Msgs) /\ taken \in Seq(Msgs)
      /\ Len(msg_list) \in Nat /\ Len(accepted) \in Nat /\ Len(taken) \in Nat
  BY LenProperties DEF IInv, TypeOK
<1>0. ASSUME UNCHANGED <<msg_list, destroyed, accepted, taken>> PROVE Indices'
  BY <1>0 DEF IInv, Indices
<1>1. ASSUME NEW m \in Msgs, SndRefused(m) PROVE Indices'
  BY <1>0, <1>1 DEF SndRefused
<1>2. ASSUME NEW m \in Msgs, SndAccepted(m) PROVE Indices'
  <2>1. ~destroyed /\ ~destroyed'
    BY <1>2 DEF SndAccepted, IInv, Lifecycle
  <2>2. \A i \in 1 .. Len(accepted) : accepted[i] # m
    BY <1>2, <1>t DEF SndAccepted, Sent
  <2>3. /\ Len(accepted') = Len(accepted) + 1
        /\ Len(msg_list') = Len(msg_list) + 1
        /\ taken' = taken
        /\ \A i \in 1 .. Len(accepted) : accepted'[i] = accepted[i]
        /\ \A i \in 1 .. Len(msg_list) : msg_list'[i] = msg_list[i]
        /\ accepted'[Len(accepted) + 1] = m
        /\ msg_list'[Len(msg_list) + 1] = m
    BY <1>2, <1>t DEF SndAccepted
  <2>4. /\ Len(accepted) = Len(taken) + Len(msg_list)
        /\ \A i \in 1 .. Len(msg_list) :
               msg_list[i] = accepted[Len(taken) + i]
        /\ \A i \in 1 .. Len(taken) : taken[i] = accepted[i]
        /\ \A i, j \in 1 .. Len(accepted) : accepted[i] = accepted[j] => i = j
    BY <2>1 DEF IInv, Indices
  <2>5. \A i \in 1 .. Len(msg_list') :
            msg_list'[i] = accepted'[Len(taken') + i]
    <3> SUFFICES ASSUME NEW i \in 1 .. Len(msg_list')
                 PROVE  msg_list'[i] = accepted'[Len(taken') + i]
      OBVIOUS
    <3>1. CASE i \in 1 .. Len(msg_list)
      <4>1. Len(taken) + i \in 1 .. Len(accepted)
        BY <1>t, <2>4, <3>1
      <4> QED
        BY <2>3, <2>4, <3>1, <4>1
    <3>2. CASE i = Len(msg_list) + 1
      BY <1>t, <2>3, <2>4, <3>2
    <3> QED
      BY <1>t, <2>3, <3>1, <3>2
  <2>6. \A i \in 1 .. Len(taken') : taken'[i] = accepted'[i]
    BY <1>t, <2>3, <2>4
  <2>7. \A i, j \in 1 .. Len(accepted') : accepted'[i] = accepted'[j] => i = j
    <3> SUFFICES ASSUME NEW i \in 1 .. Len(accepted'),
                        NEW j \in 1 .. Len(accepted'),
                        accepted'[i] = accepted'[j]
                 PROVE  i = j
      OBVIOUS
    <3>1. /\ i \in 1 .. Len(accepted) \/ i = Len(accepted) + 1
          /\ j \in 1 .. Len(accepted) \/ j = Len(accepted) + 1
      BY <1>t, <2>3
    <3> QED
      BY <3>1, <2>2, <2>3, <2>4
  <2>8. Len(accepted') = Len(taken') + Len(msg_list') /\ Len(taken') <= Len(accepted')
    BY <1>t, <2>3, <2>4
  <2> QED
    BY <2>1, <2>5, <2>6, <2>7, <2>8 DEF Indices
<1>3. CASE Take /\ worker \in {"run", "woken"}
  <2>1. ~destroyed /\ ~destroyed'
    BY <1>3 DEF Take, IInv, Lifecycle
  <2>2. /\ Len(msg_list) >= 1
        /\ Len(taken') = Len(taken) + 1
        /\ Len(msg_list') = Len(msg_list) - 1
        /\ \A i \in 1 .. Len(msg_list') : msg_list'[i] = msg_list[i + 1]
        /\ \A i \in 1 .. Len(taken) : taken'[i] = taken[i]
        /\ taken'[Len(taken) + 1] = msg_list[1]
        /\ accepted' = accepted
    BY <1>3, <1>t DEF Take
  <2>3. /\ Len(accepted) = Len(taken) + Len(msg_list)
        /\ \A i \in 1 .. Len(msg_list) :
               msg_list[i] = accepted[Len(taken) + i]
        /\ \A i \in 1 .. Len(taken) : taken[i] = accepted[i]
        /\ \A i, j \in 1 .. Len(accepted) : accepted[i] = accepted[j] => i = j
    BY <2>1 DEF IInv, Indices
  <2>4. \A i \in 1 .. Len(msg_list') :
            msg_list'[i] = accepted'[Len(taken') + i]
    <3> SUFFICES ASSUME NEW i \in 1 .. Len(msg_list')
                 PROVE  msg_list'[i] = accepted'[Len(taken') + i]
      OBVIOUS
    <3>1. i + 1 \in 1 .. Len(msg_list) /\ Len(taken') + i = Len(taken) + (i + 1)
      BY <1>t, <2>2
    <3> QED
      BY <3>1, <2>2, <2>3
  <2>5. \A i \in 1 .. Len(taken') : taken'[i] = accepted'[i]
    <3> SUFFICES ASSUME NEW i \in 1 .. Len(taken') PROVE taken'[i] = accepted'[i]
      OBVIOUS
    <3>1. CASE i \in 1 .. Len(taken)
      BY <3>1, <2>2, <2>3
    <3>2. CASE i = Len(taken) + 1
      BY <1>t, <3>2, <2>2, <2>3
    <3> QED
      BY <1>t, <2>2, <3>1, <3>2
  <2>6. /\ Len(accepted') = Len(taken') + Len(msg_list')
        /\ Len(taken') <= Len(accepted')
    BY <1>t, <2>2, <2>3
  <2> QED
    BY <2>1, <2>2, <2>3, <2>4, <2>5, <2>6 DEF Indices
<1>4. CASE LeaveLoop \/ CondWait
  BY <1>0, <1>4 DEF LeaveLoop, CondWait
<1>5. CASE ProcDone \/ SpuriousWakeup
  BY <1>0, <1>5 DEF ProcDone, SpuriousWakeup
<1>6. ASSUME NEW last \in BOOLEAN, Release(last), ~destroyed,
             UNCHANGED <<accepted, taken>>
      PROVE  Indices'
  <2>1. CASE last
    BY <1>6, <2>1 DEF Release, IInv, Indices
  <2>2. CASE ~last
    BY <1>0, <1>6, <2>2 DEF Release
  <2> QED
    BY <2>1, <2>2
<1>7. CASE ThreadExit
  BY <1>6, <1>7 DEF ThreadExit, OwnerHolds, IInv, Lifecycle
<1>8. CASE StopLock \/ StopInterrupt
  BY <1>0, <1>8 DEF StopLock, StopInterrupt
<1>9. CASE StopReturn
  BY <1>6, <1>9 DEF StopReturn, WorkerHolds, IInv, Lifecycle
<1>10. CASE UNCHANGED vars
  BY <1>0, <1>10 DEF vars
<1> QED
  BY <1>1, <1>2, <1>3, <1>4, <1>5, <1>7, <1>8, <1>9, <1>10
     DEF Next, Worker, Owner, RcvTake, RcvRefused, RcvWait, WokenTake,
         WokenWait, WokenLeave

(* The inductive invariant holds of every behaviour.                       *)
THEOREM Invariance == Spec => []IInv
<1>1. IInv /\ [Next]_vars => IInv'
  BY TypeStep, ControlStep, IndicesStep DEF IInv
<1> QED
  BY InitIInv, <1>1, PTL DEF Spec

(* Every variable keeps its type (msg_q.c, MsgTask.cpp, LocThread.cpp).    *)
THEOREM TypeCorrect == Spec => []TypeOK
BY Invariance, PTL DEF IInv

(* msg_q_destroy runs only when neither the worker thread nor the          *)
(* LocThreadDelegate destructor can touch the queue again.                 *)
THEOREM DestroyedLastThm == Spec => []DestroyedLast
<1>1. IInv => DestroyedLast
  BY DEF IInv, Lifecycle, DestroyedLast
<1> QED
  BY Invariance, <1>1, PTL

(* After LocThread::stop has interrupted the queue at most one message is  *)
(* still handed to the worker.                                             *)
THEOREM AtMostOneLateThm == Spec => []AtMostOneLate
<1>1. IInv => AtMostOneLate
  BY DEF IInv, LateBound, AtMostOneLate
<1> QED
  BY Invariance, <1>1, PTL

(* The worker never sleeps on a queue that is not empty or is unblocked.   *)
THEOREM NoLostWakeupThm == Spec => []NoLostWakeup
BY Invariance, PTL DEF IInv

(* Messages are handed to the worker in the order msg_q_snd accepted them, *)
(* none skipped, none twice.                                               *)
THEOREM FifoThm == Spec => []Fifo
<1>1. IInv => Fifo
  <2> SUFFICES ASSUME IInv PROVE Fifo
    OBVIOUS
  <2>1. ASSUME ~destroyed PROVE accepted = taken \o msg_list
    <3>1. /\ taken \in Seq(Msgs) /\ msg_list \in Seq(Msgs)
          /\ accepted \in Seq(Msgs)
          /\ Len(taken) \in Nat /\ Len(msg_list) \in Nat
          /\ Len(accepted) \in Nat
      BY LenProperties DEF IInv, TypeOK
    <3>2. /\ Len(accepted) = Len(taken) + Len(msg_list)
          /\ \A i \in 1 .. Len(msg_list) :
                 msg_list[i] = accepted[Len(taken) + i]
          /\ \A i \in 1 .. Len(taken) : taken[i] = accepted[i]
      BY <2>1 DEF IInv, Indices
    <3>3. /\ taken \o msg_list \in Seq(Msgs)
          /\ Len(taken \o msg_list) = Len(taken) + Len(msg_list)
          /\ \A i \in 1 .. Len(taken) + Len(msg_list) :
                 (taken \o msg_list)[i] = IF i <= Len(taken) THEN taken[i]
                                          ELSE msg_list[i - Len(taken)]
      BY <3>1, ConcatProperties
    <3>4. ASSUME NEW i \in 1 .. Len(accepted)
          PROVE  accepted[i] = (taken \o msg_list)[i]
      <4>1. CASE i <= Len(taken)
        BY <3>1, <3>2, <3>3, <4>1
      <4>2. CASE i > Len(taken)
        <5>1. i - Len(taken) \in 1 .. Len(msg_list)
          BY <3>1, <3>2, <4>2
        <5>2. msg_list[i - Len(taken)] = accepted[i]
          BY <3>1, <3>2, <5>1
        <5> QED
          BY <3>1, <3>2, <3>3, <4>2, <5>2
      <4>3. i <= Len(taken) \/ i > Len(taken)
        BY <3>1
      <4> QED
        BY <4>1, <4>2, <4>3
    <3> QED
      BY <3>1, <3>2, <3>3, <3>4, SeqEqual
  <2> QED
    BY <2>1 DEF IInv, Indices, Fifo
<1> QED
  BY Invariance, <1>1, PTL

-----------------------------------------------------------------------------
(* What SingleOwner says of one message.                                   *)
Fate(linked, queued, inHand, deleted) ==
    /\ linked => \/ deleted = 0 /\ queued /\ ~inHand
                 \/ deleted = 0 /\ ~queued /\ inHand
                 \/ deleted = 1 /\ ~queued /\ ~inHand
    /\ ~linked => deleted = 0 /\ ~queued /\ ~inHand

(* SingleOwner, message by message.                                        *)
LEMMA SingleOwnerFate ==
    SingleOwner <=> \A m \in Msgs :
        Fate(Holds(accepted, m), Holds(msg_list, m), msg = m, deletes[m])
BY DEF SingleOwner, Fate, Holds

(* No element of the list is linked twice.                                 *)
LEMMA ListDistinct ==
    ASSUME IInv, ~destroyed
    PROVE  Distinct(msg_list)
<1>1. Len(msg_list) \in Nat /\ Len(taken) \in Nat /\ Len(accepted) \in Nat
  BY LenProperties DEF IInv, TypeOK
<1>2. ASSUME NEW i \in 1 .. Len(msg_list), NEW j \in 1 .. Len(msg_list),
             msg_list[i] = msg_list[j]
      PROVE  i = j
  <2>1. /\ Len(taken) + i \in 1 .. Len(accepted)
        /\ Len(taken) + j \in 1 .. Len(accepted)
    BY <1>1 DEF IInv, Indices
  <2>2. accepted[Len(taken) + i] = accepted[Len(taken) + j]
    BY <1>2 DEF IInv, Indices
  <2>3. Len(taken) + i = Len(taken) + j
    BY <2>1, <2>2 DEF IInv, Indices
  <2> QED
    BY <1>1, <2>3
<1> QED
  BY <1>2 DEF Distinct

(* The flush of ~MTRunnable deletes what is in the list and nothing else;  *)
(* with no message in hand that gives each message a single fate.          *)
LEMMA ReleaseFate ==
    ASSUME IInv, SingleOwner, NEW last \in BOOLEAN, Release(last),
           msg = NoMsg, UNCHANGED <<accepted, msg>>
    PROVE  SingleOwner'
<1>1. CASE last
  <2>1. ASSUME NEW m \in Msgs
        PROVE  Fate(Holds(accepted', m), Holds(msg_list', m), msg' = m, deletes'[m])
    <3>1. Fate(Holds(accepted, m), Holds(msg_list, m), msg = m, deletes[m])
      BY SingleOwnerFate
    <3>2. deletes'[m] = IF Holds(msg_list, m) THEN deletes[m] + 1 ELSE deletes[m]
      BY <1>1 DEF Release, Holds
    <3>3. ~Holds(msg_list', m)
      <4>1. msg_list' = <<>>
        BY <1>1 DEF Release
      <4> QED
        BY <4>1, EmptyHolds
    <3>4. msg # m /\ msg' # m /\ accepted' = accepted
      BY NoMsgAssumption
    <3> QED
      BY <3>1, <3>2, <3>3, <3>4 DEF Fate
  <2> QED
    BY <2>1 DEF SingleOwner, Fate, Holds
<1>2. CASE ~last
  BY <1>2 DEF Release, SingleOwner
<1> QED
  BY <1>1, <1>2

(* SingleOwner is inductive relative to IInv.                              *)
LEMMA SingleOwnerStep == IInv /\ SingleOwner /\ [Next]_vars => SingleOwner'
<1> SUFFICES ASSUME IInv, SingleOwner, [Next]_vars PROVE SingleOwner'
  OBVIOUS
<1>p. (\A m \in Msgs : Fate(Holds(accepted', m), Holds(msg_list', m), msg' = m, deletes'[m]))
        => SingleOwner'
  BY DEF SingleOwner, Fate, Holds
<1>t. /\ msg_list \in Seq(Msgs) /\ accepted \in Seq(Msgs)
      /\ deletes \in [Msgs -> Nat] /\ msg \in Msgs \cup {NoMsg}
  BY DEF IInv, TypeOK
<1>0. ASSUME UNCHANGED <<msg_list, accepted, msg, deletes>> PROVE SingleOwner'
  BY <1>0 DEF SingleOwner
<1>1. ASSUME NEW m \in Msgs, SndRefused(m) PROVE SingleOwner'
  BY <1>0, <1>1 DEF SndRefused
<1>2. ASSUME NEW m \in Msgs, SndAccepted(m) PROVE SingleOwner'
  <2>1. ASSUME NEW x \in Msgs
        PROVE  Fate(Holds(accepted', x), Holds(msg_list', x), msg' = x, deletes'[x])
    <3>1. /\ Holds(accepted', x) <=> Holds(accepted, x) \/ x = m
          /\ Holds(msg_list', x) <=> Holds(msg_list, x) \/ x = m
      <4>1. accepted' = Append(accepted, m) /\ msg_list' = Append(msg_list, m)
        BY <1>2 DEF SndAccepted
      <4> QED
        BY <4>1, <1>t, AppendHolds
    <3>2. ~Holds(accepted, m)
      BY <1>2 DEF SndAccepted, Sent, Holds
    <3>3. Fate(Holds(accepted, x), Holds(msg_list, x), msg = x, deletes[x])
      BY SingleOwnerFate
    <3>4. msg' = msg /\ deletes' = deletes
      BY <1>2 DEF SndAccepted
    <3> QED
      BY <3>1, <3>2, <3>3, <3>4 DEF Fate
  <2> QED
    BY <2>1, <1>p
<1>3. CASE Take /\ worker \in {"run", "woken"}
  <2>1. ASSUME NEW x \in Msgs
        PROVE  Fate(Holds(accepted', x), Holds(msg_list', x), msg' = x, deletes'[x])
    <3>1. ~destroyed /\ msg = NoMsg
      BY <1>3 DEF IInv, Lifecycle
    <3>2. Holds(msg_list', x) <=> Holds(msg_list, x) /\ x # Head(msg_list)
      <4>1. msg_list # <<>> /\ msg_list' = Tail(msg_list)
        BY <1>3 DEF Take
      <4> QED
        BY <4>1, <3>1, <1>t, ListDistinct, TailHolds
    <3>3. Holds(msg_list, Head(msg_list))
      BY <1>3, <1>t, HeadHolds DEF Take
    <3>4. Fate(Holds(accepted, x), Holds(msg_list, x), msg = x, deletes[x])
      BY SingleOwnerFate
    <3>5. msg' = Head(msg_list) /\ deletes' = deletes /\ accepted' = accepted
      BY <1>3 DEF Take
    <3>6. msg # x
      BY <3>1, NoMsgAssumption
    <3> QED
      BY <3>2, <3>3, <3>4, <3>5, <3>6 DEF Fate
  <2> QED
    BY <2>1, <1>p
<1>4. CASE LeaveLoop \/ CondWait
  BY <1>0, <1>4 DEF LeaveLoop, CondWait
<1>5. CASE SpuriousWakeup
  BY <1>0, <1>5 DEF SpuriousWakeup
<1>6. CASE ProcDone
  <2>1. ASSUME NEW x \in Msgs
        PROVE  Fate(Holds(accepted', x), Holds(msg_list', x), msg' = x, deletes'[x])
    <3>1. msg \in Msgs /\ msg' = NoMsg /\ accepted' = accepted /\ msg_list' = msg_list
      BY <1>6, <1>t DEF ProcDone, IInv, Lifecycle
    <3>2. deletes'[x] = IF x = msg THEN deletes[x] + 1 ELSE deletes[x]
      BY <1>6, <1>t, <3>1 DEF ProcDone
    <3>3. Fate(Holds(accepted, x), Holds(msg_list, x), msg = x, deletes[x])
      BY SingleOwnerFate
    <3>4. msg' # x
      BY <3>1, NoMsgAssumption
    <3> QED
      BY <3>1, <3>2, <3>3, <3>4 DEF Fate
  <2> QED
    BY <2>1, <1>p
<1>7. CASE ThreadExit
  BY <1>7, ReleaseFate DEF ThreadExit, OwnerHolds, IInv, Lifecycle
<1>8. CASE StopLock \/ StopInterrupt
  BY <1>0, <1>8 DEF StopLock, StopInterrupt
<1>9. CASE StopReturn
  <2>1. CASE worker = "exited"
    BY <1>9, <2>1, ReleaseFate DEF StopReturn, WorkerHolds, IInv, Lifecycle
  <2>2. CASE worker # "exited"
    BY <1>0, <1>9, <2>2 DEF StopReturn, WorkerHolds, Release
  <2> QED
    BY <2>1, <2>2
<1>10. CASE UNCHANGED vars
  BY <1>0, <1>10 DEF vars
<1> QED
  BY <1>1, <1>2, <1>3, <1>4, <1>5, <1>6, <1>7, <1>8, <1>9, <1>10
     DEF Next, Worker, Owner, RcvTake, RcvRefused, RcvWait, WokenTake,
         WokenWait, WokenLeave

(* Every message msg_q_snd accepted is in the list, in run()'s hand or     *)
(* deleted, never two of these, and it is never deleted twice: run()'s     *)
(* delete and ~MTRunnable's flush do not meet on a message.                *)
THEOREM SingleOwnerThm == Spec => []SingleOwner
<1>1. Init => SingleOwner
  <2> SUFFICES ASSUME Init PROVE SingleOwner
    OBVIOUS
  <2>1. DOMAIN <<>> = {}
    BY EmptySeq
  <2> QED
    BY <2>1, NoMsgAssumption DEF Init, SingleOwner
<1>2. IInv /\ SingleOwner /\ [Next]_vars => SingleOwner'
  BY SingleOwnerStep
<1> QED
  BY <1>1, <1>2, Invariance, PTL DEF Spec

-----------------------------------------------------------------------------
(* Each step of the queue, the thread and the destructor is a step of the  *)
(* serial executor, or does not show there.                                *)
LEMMA ExecutorStep == IInv /\ [Next]_vars => [Executor!Next]_(Executor!vars)
<1> SUFFICES ASSUME IInv, [Next]_vars PROVE [Executor!Next]_(Executor!vars)
  OBVIOUS
<1> USE DEF Executor!vars
<1>0. ASSUME UNCHANGED <<msg_list, msg, unblocked, lateTakes>>
      PROVE  [Executor!Next]_(Executor!vars)
  BY <1>0
<1>1. ASSUME NEW m \in Msgs, SndRefused(m) PROVE [Executor!Next]_(Executor!vars)
  BY <1>0, <1>1 DEF SndRefused
<1>2. ASSUME NEW m \in Msgs, SndAccepted(m) PROVE Executor!Accept
  BY <1>2 DEF SndAccepted, Executor!Accept
<1>3. CASE Take /\ ((worker = "run" /\ ~unblocked) \/ worker = "woken")
  <2>1. msg = NoMsg
    BY <1>3 DEF IInv, Lifecycle
  <2>2. unblocked => lateTakes = 0 /\ lateTakes' = 1
    BY <1>3 DEF Take, IInv, LateBound, TypeOK
  <2>3. Executor!Start
    BY <1>3, <2>1, <2>2 DEF Take, Executor!Start
  <2> QED
    BY <2>3 DEF Executor!Next
<1>4. CASE LeaveLoop \/ CondWait \/ SpuriousWakeup
  BY <1>0, <1>4 DEF LeaveLoop, CondWait, SpuriousWakeup
<1>5. CASE ProcDone
  <2>1. Executor!Finish
    BY <1>5 DEF ProcDone, Executor!Finish, IInv, Lifecycle
  <2> QED
    BY <2>1 DEF Executor!Next
<1>6. ASSUME NEW last \in BOOLEAN, Release(last), unblocked, msg = NoMsg,
             UNCHANGED <<unblocked, msg, lateTakes>>
      PROVE  [Executor!Next]_(Executor!vars)
  <2>1. CASE last
    <3>1. Executor!Discard
      BY <1>6, <2>1 DEF Release, Executor!Discard
    <3> QED
      BY <3>1 DEF Executor!Next
  <2>2. CASE ~last
    BY <1>0, <1>6, <2>2 DEF Release
  <2> QED
    BY <2>1, <2>2
<1>7. CASE ThreadExit
  BY <1>6, <1>7 DEF ThreadExit, OwnerHolds, IInv, Lifecycle
<1>8. CASE StopLock
  BY <1>0, <1>8 DEF StopLock
<1>9. CASE StopInterrupt
  <2>1. Executor!Close
    BY <1>9 DEF StopInterrupt, Executor!Close, IInv, Lifecycle
  <2> QED
    BY <2>1 DEF Executor!Next
<1>10. CASE StopReturn
  <2>1. CASE worker = "exited"
    BY <1>6, <1>10, <2>1 DEF StopReturn, WorkerHolds, IInv, Lifecycle
  <2>2. CASE worker # "exited"
    BY <1>0, <1>10, <2>2 DEF StopReturn, WorkerHolds, Release
  <2> QED
    BY <2>1, <2>2
<1>11. CASE UNCHANGED vars
  BY <1>0, <1>11 DEF vars
<1> QED
  BY <1>1, <1>2, <1>3, <1>4, <1>5, <1>7, <1>8, <1>9, <1>10, <1>11
     DEF Next, Worker, Owner, RcvTake, RcvRefused, RcvWait, WokenTake,
         WokenWait, WokenLeave, Executor!Next

(* The msg_q list, the condition variable, the worker thread and the       *)
(* interrupting destructor implement the serial executor every adapter     *)
(* takes MsgTask for.                                                      *)
THEOREM Refinement == Spec => ExecutorSpec
<1>1. Init => Executor!Init
  BY DEF Init, Executor!Init
<1>2. IInv /\ [Next]_vars => [Executor!Next]_(Executor!vars)
  BY ExecutorStep
<1> QED
  BY <1>1, <1>2, Invariance, PTL DEF Spec, ExecutorSpec, Executor!Spec
=============================================================================
