---------------------------- MODULE SyncReqProof ----------------------------
(***************************************************************************)
(* The slot array of loc_api_sync_req.cpp is used correctly by any number  *)
(* of threads, slots and indications, with late answers and spurious       *)
(* wakeups: a slot has one owner, in_use is exact, payloads are copied     *)
(* only into the buffer of a call that has not returned, and a call never  *)
(* finds its slot busy.                                                    *)
(***************************************************************************)
EXTENDS SyncReq, ListFacts, SequenceTheorems, FiniteSetTheorems, TLAPS

(* What the fields of a slot have to do with each other: a slot that waits *)
(* for an indication has a buffer for its payload, and a free slot has no  *)
(* waiter.                                                                 *)
Cleared == \A i \in Slots : /\ ind_id[i] # NoInd => payload[i] # None
                            /\ ~slot_in_use[i] => ~is_waiting[i]

(* The part of the invariant that relates slots and calls.                 *)
Owned == SlotExclusive /\ InUseExact /\ BufferAlive /\ WaitingMatches /\ Cleared

(* The inductive invariant.                                                *)
IInv == TypeOK /\ Owned

(* The inductive invariant holds initially.                                *)
LEMMA InitIInv == Init => IInv
<1> SUFFICES ASSUME Init PROVE IInv
  OBVIOUS
<1> USE DEF Init
<1>1. TypeOK
  <2>1. inds \in Seq(Threads \X Nat)
    BY EmptySeq
  <2>2. 0 \in 0..NSlots
    BY SyncReqAssumption
  <2> QED
    BY <2>1, <2>2 DEF TypeOK, CallStates, Statuses
<1>2. SlotExclusive
  BY DEF SlotExclusive
<1>3. InUseExact
  BY DEF InUseExact
<1>4. BufferAlive
  BY DEF BufferAlive
<1>5. WaitingMatches
  BY DEF WaitingMatches
<1>6. Cleared
  BY DEF Cleared
<1> QED
  BY <1>1, <1>2, <1>3, <1>4, <1>5, <1>6 DEF IInv, Owned

-----------------------------------------------------------------------------
USE DEF Goto, Return, slotVars

(* Alloc(t) once the first free slot is named.                             *)
AllocSlot(t, i) ==
    /\ ~slot_in_use[i] /\ NewCall(t)
    /\ slot_in_use' = [slot_in_use EXCEPT ![i] = TRUE]
    /\ in_use' = TRUE
    /\ slot' = [slot EXCEPT ![t] = i]
    /\ pc' = [pc EXCEPT ![t] = "alloc"]
    /\ UNCHANGED <<slotVars, modem, inds, lost>>

(* Every step keeps the types.                                             *)
LEMMA TypeStep == TypeOK /\ Owned /\ [Next]_vars => TypeOK'
<1> SUFFICES ASSUME TypeOK, Owned, [Next]_vars PROVE TypeOK'
  OBVIOUS
<1> USE DEF TypeOK, CallStates, Statuses
<1>1. ASSUME NEW t \in Threads, Alloc(t) PROVE TypeOK'
  <2>1. PICK i \in Slots : AllocSlot(t, i)
    BY <1>1 DEF Alloc, AllocSlot
  <2>2. i \in 0..NSlots
    BY SyncReqAssumption DEF Slots
  <2>3. slot' \in [Threads -> 0..NSlots] /\ slot_in_use' \in [Slots -> BOOLEAN]
    BY <2>1, <2>2 DEF AllocSlot
  <2>4. pc' \in [Threads -> CallStates] /\ ret' \in [Threads -> Statuses]
    BY <2>1 DEF AllocSlot, NewCall
  <2>5. calls' \in [Threads -> Nat]
    BY <2>1 DEF AllocSlot, NewCall
  <2>6. buf' \in [Threads -> (Threads \X Nat) \cup {None}]
    BY <2>1 DEF AllocSlot, NewCall
  <2> QED
    BY <2>1, <2>3, <2>4, <2>5, <2>6 DEF AllocSlot
<1>2. ASSUME NEW t \in Threads, Full(t) PROVE TypeOK'
  BY <1>2 DEF Full
<1>3. ASSUME NEW t \in Threads, Select(t) PROVE TypeOK'
  BY <1>3 DEF Select
<1>4. ASSUME NEW t \in Threads, Send(t) \/ SendFails(t) PROVE TypeOK'
  <2>1. <<t, calls[t]>> \in Threads \X Nat
    OBVIOUS
  <2>2. CASE Send(t)
    BY <2>1, <2>2 DEF Send
  <2>3. CASE SendFails(t)
    BY <2>3 DEF SendFails
  <2> QED
    BY <1>4, <2>2, <2>3
<1>5. ASSUME NEW t \in Threads, ArrivedBefore(t) \/ Wait(t) PROVE TypeOK'
  BY <1>5 DEF ArrivedBefore, Wait
<1>6. ASSUME NEW t \in Threads, Expire(t) \/ SpuriousWakeup(t) \/ Resume(t)
      PROVE  TypeOK'
  <2>1. CASE Expire(t) \/ SpuriousWakeup(t)
    BY <2>1 DEF Expire, SpuriousWakeup
  <2>2. CASE Resume(t)
    BY <2>2 DEF Resume
  <2> QED
    BY <1>6, <2>1, <2>2
<1>7. ASSUME NEW t \in Threads, Free(t) PROVE TypeOK'
  <2>1. 0 \in 0..NSlots /\ NoInd \in {IndOf[u] : u \in Threads} \cup {NoInd}
    BY SyncReqAssumption
  <2>2. in_use' \in BOOLEAN
    BY <1>7 DEF Free
  <2> QED
    BY <1>7, <2>1, <2>2 DEF Free
<1>8. ASSUME NEW r \in Requests, Answer(r) \/ LoseAnswer(r) PROVE TypeOK'
  <2>1. r \in Threads \X Nat
    BY DEF Requests
  <2>2. Append(inds, r) \in Seq(Threads \X Nat)
    BY <2>1, AppendProperties
  <2>3. CASE Answer(r)
    BY <2>2, <2>3 DEF Answer
  <2>4. CASE LoseAnswer(r)
    BY <2>1, <2>4 DEF LoseAnswer
  <2> QED
    BY <1>8, <2>3, <2>4
<1>9. CASE ProcessInd
  <2>1. inds # <<>> /\ inds' = Tail(inds)
    BY <1>9 DEF ProcessInd
  <2>2. Head(inds) \in Threads \X Nat /\ inds' \in Seq(Threads \X Nat)
    BY <2>1, HeadTailProperties
  <2>3. CASE UNCHANGED <<buf, pc, has_arrived>>
    BY <1>9, <2>2, <2>3 DEF ProcessInd
  <2>4. CASE \E i \in Slots : Fits(i, Head(inds)) /\ TakeInd(i, Head(inds))
    <3>1. PICK i \in Slots : Fits(i, Head(inds)) /\ TakeInd(i, Head(inds))
      BY <2>4
    <3>2. payload[i] \in Threads
      BY <2>2, <3>1, SyncReqAssumption DEF Fits, Owned, Cleared
    <3> QED
      BY <1>9, <2>2, <3>1, <3>2 DEF ProcessInd, TakeInd
  <2> QED
    BY <1>9, <2>3, <2>4 DEF ProcessInd
<1>10. CASE UNCHANGED vars
  BY <1>10 DEF vars
<1> QED
  BY <1>1, <1>2, <1>3, <1>4, <1>5, <1>6, <1>7, <1>8, <1>9, <1>10 DEF Next, Call

-----------------------------------------------------------------------------
(* A call that holds a filled-in slot and stays in the module keeps it,    *)
(* if the array does not change.                                           *)
LEMMA CallMoves ==
    ASSUME TypeOK, Owned, NEW t \in Threads,
           NEW label \in CallStates \ {"idle", "alloc"},
           pc[t] \notin {"idle", "alloc"}, pc' = [pc EXCEPT ![t] = label],
           UNCHANGED <<in_use, slot_in_use, payload, slot>>
    PROVE  SlotExclusive' /\ InUseExact' /\ BufferAlive'
<1> USE DEF Owned, TypeOK
<1>1. \A u \in Threads : pc'[u] = "idle" <=> pc[u] = "idle"
  OBVIOUS
<1>2. \A u \in Threads : pc[u] \notin {"idle", "alloc"} => pc'[u] \notin {"idle", "alloc"}
  OBVIOUS
<1>3. SlotExclusive'
  BY <1>1 DEF SlotExclusive
<1>4. InUseExact'
  BY DEF InUseExact
<1>5. BufferAlive'
  BY <1>2 DEF BufferAlive
<1> QED
  BY <1>3, <1>4, <1>5

(* loc_sync_process_ind wakes at most one thread, and only one that waits. *)
LEMMA IndWakes ==
    ASSUME IInv, ProcessInd
    PROVE  \/ UNCHANGED pc
           \/ \E t \in Threads : pc[t] = "wait" /\ pc' = [pc EXCEPT ![t] = "woken"]
<1> USE DEF IInv, Owned, TypeOK
<1>1. CASE UNCHANGED pc
  BY <1>1
<1>2. CASE \E i \in Slots : Fits(i, Head(inds)) /\ TakeInd(i, Head(inds))
  <2>1. PICK i \in Slots : Fits(i, Head(inds)) /\ TakeInd(i, Head(inds))
    BY <1>2
  <2>2. inds # <<>> /\ Head(inds) \in Threads \X Nat
    BY HeadTailProperties DEF ProcessInd
  <2>3. payload[i] \in Threads
    BY <2>1, <2>2, SyncReqAssumption DEF Fits, Cleared
  <2>4. CASE pc[payload[i]] = "wait"
    BY <2>1, <2>3, <2>4 DEF TakeInd
  <2>5. CASE pc[payload[i]] # "wait"
    BY <2>1, <2>3, <2>5 DEF TakeInd
  <2> QED
    BY <2>4, <2>5
<1> QED
  BY <1>1, <1>2 DEF ProcessInd

(* Every step keeps the relation between slots and calls.                  *)
LEMMA OwnedStep == IInv /\ [Next]_vars => Owned'
<1> SUFFICES ASSUME TypeOK, Owned, [Next]_vars PROVE Owned'
  BY DEF IInv
<1> USE DEF Owned, TypeOK, CallStates
<1>1. ASSUME NEW t \in Threads, Alloc(t) PROVE Owned'
  <2>1. PICK i \in Slots : AllocSlot(t, i)
    BY <1>1 DEF Alloc, AllocSlot
  <2>2. \A u \in Threads : pc[u] # "idle" => slot[u] # i
    BY <2>1 DEF AllocSlot, SlotExclusive
  <2>3. pc[t] = "idle"
    BY <2>1 DEF AllocSlot, NewCall
  <2> USE DEF AllocSlot
  <2>4. SlotExclusive'
    BY <2>1, <2>2, <2>3 DEF SlotExclusive
  <2>5. InUseExact'
    BY <2>1 DEF InUseExact
  <2>6. BufferAlive'
    BY <2>1, <2>3, SyncReqAssumption DEF BufferAlive
  <2>7. WaitingMatches'
    BY <2>1, <2>2, <2>3 DEF WaitingMatches, Cleared
  <2>8. Cleared'
    BY <2>1 DEF Cleared
  <2> QED
    BY <2>4, <2>5, <2>6, <2>7, <2>8
<1>2. ASSUME NEW t \in Threads, Full(t) PROVE Owned'
  BY <1>2 DEF Full, SlotExclusive, InUseExact, BufferAlive, WaitingMatches, Cleared
<1>3. ASSUME NEW t \in Threads, Select(t) PROVE Owned'
  <2> USE <1>3 DEF Select
  <2>1. slot[t] \in Slots /\ slot_in_use[slot[t]]
    BY DEF SlotExclusive
  <2>2. SlotExclusive' /\ InUseExact'
    BY DEF SlotExclusive, InUseExact
  <2>3. BufferAlive'
    BY <2>1 DEF BufferAlive, SlotExclusive
  <2>4. WaitingMatches'
    BY <2>1 DEF WaitingMatches, SlotExclusive
  <2>5. Cleared'
    BY <2>1, SyncReqAssumption DEF Cleared
  <2> QED
    BY <2>2, <2>3, <2>4, <2>5
<1>4. ASSUME NEW t \in Threads, Send(t) \/ SendFails(t) \/ ArrivedBefore(t)
      PROVE  Owned'
  <2>1. /\ pc[t] \in {"select", "sent"}
        /\ \E label \in {"sent", "done"} : pc' = [pc EXCEPT ![t] = label]
        /\ UNCHANGED <<in_use, slot_in_use, slotVars, slot>>
    BY <1>4 DEF Send, SendFails, ArrivedBefore
  <2>2. SlotExclusive' /\ InUseExact' /\ BufferAlive'
    BY <2>1, CallMoves
  <2>3. WaitingMatches'
    BY <2>1 DEF WaitingMatches
  <2>4. Cleared'
    BY <2>1 DEF Cleared
  <2> QED
    BY <2>2, <2>3, <2>4
<1>5. ASSUME NEW t \in Threads, Wait(t) \/ Resume(t) PROVE Owned'
  <2> USE <1>5 DEF Wait, Resume
  <2>1. slot[t] \in Slots /\ slot_in_use[slot[t]]
    BY DEF SlotExclusive
  <2>2. SlotExclusive' /\ InUseExact' /\ BufferAlive'
    BY CallMoves
  <2>3. WaitingMatches'
    <3>1. \A u \in Threads \ {t} : pc[u] # "idle" => slot[u] # slot[t]
      BY DEF SlotExclusive
    <3>2. CASE Wait(t)
      BY <2>1, <3>1, <3>2 DEF WaitingMatches, SlotExclusive
    <3>3. CASE Resume(t)
      BY <2>1, <3>1, <3>3 DEF WaitingMatches, SlotExclusive
    <3> QED
      BY <3>2, <3>3
  <2>4. Cleared'
    BY <2>1 DEF Cleared
  <2> QED
    BY <2>2, <2>3, <2>4
<1>6. ASSUME NEW t \in Threads, Expire(t) \/ SpuriousWakeup(t) PROVE Owned'
  <2>1. /\ pc[t] = "wait"
        /\ \E label \in {"woken", "expired"} : pc' = [pc EXCEPT ![t] = label]
        /\ UNCHANGED <<in_use, slot_in_use, slotVars, slot>>
    BY <1>6 DEF Expire, SpuriousWakeup
  <2>2. SlotExclusive' /\ InUseExact' /\ BufferAlive'
    BY <2>1, CallMoves
  <2>3. WaitingMatches'
    BY <2>1 DEF WaitingMatches
  <2>4. Cleared'
    BY <2>1 DEF Cleared
  <2> QED
    BY <2>2, <2>3, <2>4
<1>7. ASSUME NEW t \in Threads, Free(t) PROVE Owned'
  <2> USE <1>7 DEF Free
  <2>1. slot[t] \in Slots /\ slot_in_use[slot[t]]
    BY DEF SlotExclusive
  <2>2. \A u \in Threads \ {t} : pc[u] # "idle" => slot[u] # slot[t]
    BY DEF SlotExclusive
  <2>3. SlotExclusive'
    BY <2>1, <2>2 DEF SlotExclusive
  <2>4. InUseExact'
    BY <2>1 DEF InUseExact
  <2>5. BufferAlive'
    BY <2>1, <2>2 DEF BufferAlive
  <2>6. WaitingMatches'
    BY <2>1, <2>2 DEF WaitingMatches
  <2>7. Cleared'
    BY <2>1 DEF Cleared
  <2> QED
    BY <2>3, <2>4, <2>5, <2>6, <2>7
<1>8. ASSUME NEW r \in Requests, Answer(r) \/ LoseAnswer(r) PROVE Owned'
  BY <1>8 DEF Answer, LoseAnswer, SlotExclusive, InUseExact, BufferAlive,
              WaitingMatches, Cleared
<1>9. CASE ProcessInd
  <2>1. /\ in_use' = (in_use /\ \E i \in Slots : slot_in_use[i])
        /\ UNCHANGED <<slot_in_use, ind_id, is_waiting, payload, slot>>
    BY <1>9 DEF ProcessInd
  <2>2. InUseExact' /\ Cleared'
    BY <2>1 DEF InUseExact, Cleared
  <2>3. \/ UNCHANGED pc
        \/ \E t \in Threads : pc[t] = "wait" /\ pc' = [pc EXCEPT ![t] = "woken"]
    BY <1>9, IndWakes DEF IInv
  <2>4. CASE UNCHANGED pc
    BY <2>1, <2>2, <2>4 DEF SlotExclusive, BufferAlive, WaitingMatches
  <2>5. CASE \E t \in Threads : pc[t] = "wait" /\ pc' = [pc EXCEPT ![t] = "woken"]
    <3>1. SlotExclusive' /\ BufferAlive'
      BY <2>1, <2>5, <2>2, CallMoves DEF InUseExact
    <3>2. WaitingMatches'
      BY <2>1, <2>5 DEF WaitingMatches
    <3> QED
      BY <2>2, <3>1, <3>2
  <2> QED
    BY <2>3, <2>4, <2>5
<1>10. CASE UNCHANGED vars
  BY <1>10 DEF vars, SlotExclusive, InUseExact, BufferAlive, WaitingMatches, Cleared
<1> QED
  BY <1>1, <1>2, <1>3, <1>4, <1>5, <1>6, <1>7, <1>8, <1>9, <1>10 DEF Next, Call

-----------------------------------------------------------------------------
(* The inductive invariant holds in every reachable state of               *)
(* loc_api_sync_req.cpp's slots.                                           *)
THEOREM Invariance == Spec => []IInv
<1>1. Init => IInv
  BY InitIInv
<1>2. IInv /\ [Next]_vars => IInv'
  BY TypeStep, OwnedStep DEF IInv
<1> QED
  BY <1>1, <1>2, PTL DEF Spec

(* Type correctness of loc_sync_array and of the calls.                    *)
THEOREM TypeCorrect == Spec => []TypeOK
<1>1. IInv => TypeOK
  BY DEF IInv
<1> QED
  BY <1>1, Invariance, PTL

(* loc_alloc_slot never hands one slot to two calls, and no slot leaks:    *)
(* each one in use belongs to a call that will free it.  And               *)
(* loc_sync_process_ind may trust in_use to drop an indication early.      *)
THEOREM SlotsOwnedThm == Spec => []SlotsOwned
<1>1. IInv => SlotsOwned
  BY DEF IInv, Owned, SlotsOwned
<1> QED
  BY <1>1, Invariance, PTL

(* A late indication is never copied to the stack of a call that has       *)
(* returned, whatever the modem and the timeouts do.                       *)
THEOREM BufferAliveThm == Spec => []BufferAlive
<1>1. IInv => BufferAlive
  BY DEF IInv, Owned
<1> QED
  BY <1>1, Invariance, PTL

(* loc_sync_wait_for_ind never finds its slot waited for (-EBUSY).         *)
THEOREM WaitingMatchesThm == Spec => []WaitingMatches
<1>1. IInv => WaitingMatches
  BY DEF IInv, Owned
<1> QED
  BY <1>1, Invariance, PTL

-----------------------------------------------------------------------------
(* What it takes for an answer to reach its own call.  The modem answers   *)
(* in time or not at all and pthread_cond_timedwait does not wake up for   *)
(* nothing; no two threads wait for the same indication; and there are as  *)
(* many slots as threads.  Drop one of the four, and TLC finds a call that *)
(* returns SUCCESS with somebody else's answer or with none.               *)
Prompt ==
    /\ ~Late /\ ~Spurious
    /\ \A t, u \in Threads : IndOf[t] = IndOf[u] => t = u
    /\ IsFiniteSet(Threads) /\ Cardinality(Threads) <= NSlots

(* The current request of a thread; a request on its way.                  *)
Cur(t) == <<t, calls[t]>>
Out(r) == r \in modem \/ Holds(inds, r)

(* A slot names the indication of the call that owns it, from Select on.   *)
FilledBy(t) ==
    /\ pc[t] \notin {"idle", "alloc"} =>
           ind_id[slot[t]] = IndOf[t] /\ payload[slot[t]] = t
    /\ pc[t] = "alloc" => ind_id[slot[t]] = NoInd
Filled == /\ \A t \in Threads : FilledBy(t)
          /\ \A i \in Slots : ~slot_in_use[i] => ind_id[i] = NoInd

(* A request is in one place only on its way through the modem.            *)
Once == Distinct(inds) /\ \A r \in modem : ~Holds(inds, r)

(* A request on its way is the current one of a call still waiting for it. *)
Current ==
    \A t \in Threads, n \in Nat :
        Out(<<t, n>>) => /\ n = calls[t]
                         /\ pc[t] \in {"sent", "wait"}
                         /\ ~has_arrived[slot[t]]

(* What a call may conclude at each point about the answer to its request. *)
Learnt(t) ==
    /\ pc[t] \in {"select", "wait"} => ~has_arrived[slot[t]]
    /\ pc[t] \in {"sent", "wait"} /\ ~has_arrived[slot[t]] =>
           Out(Cur(t)) \/ Cur(t) \in lost
    /\ pc[t] = "sent" /\ has_arrived[slot[t]] => buf[t] = Cur(t)
    /\ pc[t] = "woken" => buf[t] = Cur(t)
    /\ pc[t] = "expired" => Cur(t) \in lost
    /\ pc[t] \in {"done", "idle"} => /\ ret[t] = "SUCCESS" => buf[t] = Cur(t)
                                     /\ ret[t] = "TIMEOUT" => Cur(t) \in lost
Answered == \A t \in Threads : Learnt(t)

(* The inductive invariant of prompt answers.                              *)
PInv == Filled /\ Once /\ Current /\ Answered /\ IsFiniteSet(lost)

(* The prompt invariant holds initially.                                   *)
LEMMA InitPInv == Init => PInv
<1> SUFFICES ASSUME Init PROVE PInv
  OBVIOUS
<1>1. \A r : ~Out(r)
  BY EmptyHolds DEF Init, Out
<1>2. Filled
  BY DEF Init, Filled, FilledBy
<1>3. Once
  BY EmptyHolds DEF Init, Once
<1>4. Current
  BY <1>1 DEF Current
<1>5. Answered
  BY DEF Init, Answered, Learnt
<1>6. IsFiniteSet(lost)
  BY FS_EmptySet DEF Init
<1> QED
  BY <1>2, <1>3, <1>4, <1>5, <1>6 DEF PInv

(* With a slot for every thread loc_alloc_slot never fails: each slot in   *)
(* use belongs to another thread than the one that calls.                  *)
LEMMA NeverFull ==
    ASSUME Prompt, IInv, NEW t \in Threads, Full(t)
    PROVE  FALSE
<1> DEFINE others == Threads \ {t}
           owner == [i \in Slots |-> CHOOSE u \in Threads : pc[u] # "idle" /\ slot[u] = i]
<1>1. \A i \in Slots : owner[i] \in Threads /\ pc[owner[i]] # "idle" /\ slot[owner[i]] = i
  BY DEF Full, IInv, Owned, SlotExclusive
<1>2. pc[t] = "idle"
  BY DEF Full
<1>3. owner \in [Slots -> others]
  BY <1>1, <1>2
<1>4. \A i, j \in Slots : owner[i] = owner[j] => i = j
  BY <1>1
<1>5. IsFiniteSet(others) /\ Cardinality(others) = Cardinality(Threads) - 1
  BY FS_RemoveElement DEF Prompt
<1>6. IsFiniteSet(Slots) /\ Cardinality(Slots) = NSlots
  <2>1. NSlots \in Nat
    BY SyncReqAssumption
  <2>2. /\ IsFiniteSet(1..NSlots)
        /\ Cardinality(1..NSlots) = IF 1 > NSlots THEN 0 ELSE NSlots - 1 + 1
    BY <2>1, FS_Interval
  <2> QED
    BY <2>1, <2>2 DEF Slots
<1>7. Cardinality(Threads) \in Nat /\ NSlots \in Nat
  BY FS_CardinalityType, SyncReqAssumption DEF Prompt
<1>8. Cardinality(others) < Cardinality(Slots)
  BY <1>5, <1>6, <1>7 DEF Prompt
<1> HIDE DEF others, owner
<1> QED
  BY <1>3, <1>4, <1>5, <1>6, <1>8, FS_PigeonHole

(* Every step keeps the slots filled in for their owners.                  *)
LEMMA FilledStep == IInv /\ Filled /\ [Next]_vars => Filled'
<1> SUFFICES ASSUME IInv, Filled, [Next]_vars PROVE Filled'
  OBVIOUS
<1> USE DEF IInv, Owned, TypeOK, CallStates, Filled, FilledBy
<1>0. ASSUME NEW t \in Threads, NEW label \in CallStates \ {"idle", "alloc"},
             pc[t] \notin {"idle", "alloc"}, pc' = [pc EXCEPT ![t] = label],
             UNCHANGED <<slot_in_use, ind_id, payload, slot>>
      PROVE  Filled'
  BY <1>0
<1>1. ASSUME NEW t \in Threads, Alloc(t) PROVE Filled'
  <2>1. PICK i \in Slots : AllocSlot(t, i)
    BY <1>1 DEF Alloc, AllocSlot
  <2>2. \A u \in Threads : pc[u] # "idle" => slot[u] # i
    BY <2>1 DEF AllocSlot, SlotExclusive
  <2> QED
    BY <2>1, <2>2 DEF AllocSlot
<1>2. ASSUME NEW t \in Threads, Full(t) PROVE Filled'
  BY <1>2 DEF Full
<1>3. ASSUME NEW t \in Threads, Select(t) PROVE Filled'
  <2>1. slot[t] \in Slots /\ slot_in_use[slot[t]]
    BY <1>3 DEF Select, SlotExclusive
  <2>2. \A u \in Threads \ {t} : pc[u] # "idle" => slot[u] # slot[t] /\ slot[u] \in Slots
    BY <1>3 DEF Select, SlotExclusive
  <2> QED
    BY <1>3, <2>1, <2>2 DEF Select
<1>4. ASSUME NEW t \in Threads,
             Send(t) \/ SendFails(t) \/ ArrivedBefore(t) \/ Wait(t) \/ Resume(t)
               \/ Expire(t) \/ SpuriousWakeup(t)
      PROVE  Filled'
  <2>1. /\ pc[t] \notin {"idle", "alloc"}
        /\ \E label \in CallStates \ {"idle", "alloc"} : pc' = [pc EXCEPT ![t] = label]
        /\ UNCHANGED <<slot_in_use, ind_id, payload, slot>>
    BY <1>4 DEF Send, SendFails, ArrivedBefore, Wait, Resume, Expire, SpuriousWakeup
  <2> QED
    BY <1>0, <2>1
<1>5. ASSUME NEW t \in Threads, Free(t) PROVE Filled'
  <2>1. slot[t] \in Slots
    BY <1>5 DEF Free, SlotExclusive
  <2>2. \A u \in Threads \ {t} : pc[u] # "idle" => slot[u] # slot[t] /\ slot[u] \in Slots
    BY <1>5 DEF Free, SlotExclusive
  <2> QED
    BY <1>5, <2>1, <2>2 DEF Free
<1>6. ASSUME NEW r \in Requests, Answer(r) \/ LoseAnswer(r) PROVE Filled'
  BY <1>6 DEF Answer, LoseAnswer
<1>7. CASE ProcessInd
  <2>1. UNCHANGED <<slot_in_use, ind_id, payload, slot>>
    BY <1>7 DEF ProcessInd
  <2>2. \/ UNCHANGED pc
        \/ \E t \in Threads : pc[t] = "wait" /\ pc' = [pc EXCEPT ![t] = "woken"]
    BY <1>7, IndWakes
  <2>3. CASE UNCHANGED pc
    BY <2>1, <2>3
  <2>4. CASE \E t \in Threads : pc[t] = "wait" /\ pc' = [pc EXCEPT ![t] = "woken"]
    BY <1>0, <2>1, <2>4
  <2> QED
    BY <2>2, <2>3, <2>4
<1>8. CASE UNCHANGED vars
  BY <1>8 DEF vars
<1> QED
  BY <1>1, <1>2, <1>3, <1>4, <1>5, <1>6, <1>7, <1>8 DEF Next, Call

(* A request on its way is taken by the slot of the thread that sent it,   *)
(* and by no other: loc_sync_process_ind finds exactly that slot.          *)
LEMMA IndFinds ==
    ASSUME Prompt, IInv, Filled, Current, NEW t \in Threads, NEW n \in Nat,
           Out(<<t, n>>)
    PROVE  /\ in_use /\ slot[t] \in Slots /\ payload[slot[t]] = t
           /\ {i \in Slots : Fits(i, <<t, n>>)} = {slot[t]}
<1>1. pc[t] \in {"sent", "wait"} /\ ~has_arrived[slot[t]]
  BY DEF Current
<1>2. slot[t] \in Slots /\ slot_in_use[slot[t]]
  BY <1>1 DEF IInv, Owned, SlotExclusive
<1>3. in_use
  BY <1>2 DEF IInv, Owned, InUseExact
<1>4. ind_id[slot[t]] = IndOf[t] /\ payload[slot[t]] = t
  BY <1>1 DEF Filled, FilledBy
<1>5. Fits(slot[t], <<t, n>>)
  BY <1>1, <1>2, <1>4 DEF Fits
<1>6. ASSUME NEW i \in Slots, Fits(i, <<t, n>>) PROVE i = slot[t]
  <2>1. slot_in_use[i] /\ ind_id[i] = IndOf[t]
    BY <1>6 DEF Fits
  <2>2. PICK u \in Threads : pc[u] # "idle" /\ slot[u] = i
    BY <2>1 DEF IInv, Owned, SlotExclusive
  <2>3. IndOf[u] = IndOf[t]
    BY <2>1, <2>2, SyncReqAssumption DEF Filled, FilledBy
  <2> QED
    BY <2>2, <2>3 DEF Prompt
<1> QED
  BY <1>2, <1>3, <1>4, <1>5, <1>6

(* A step that leaves a call and what it waits for alone.                  *)
Untouched(u) ==
    /\ pc'[u] = pc[u] /\ calls'[u] = calls[u] /\ ret'[u] = ret[u] /\ buf'[u] = buf[u]
    /\ pc[u] \in {"select", "sent", "wait"} =>
           has_arrived'[slot'[u]] = has_arrived[slot[u]]
    /\ Out(Cur(u)) => Out(Cur(u))' \/ Cur(u)' \in lost'
    /\ lost \subseteq lost'

(* A call that a step does not touch keeps its part of the invariant.      *)
LEMMA UntouchedLearns ==
    ASSUME NEW u \in Threads, Learnt(u), Untouched(u)
    PROVE  Learnt(u)'
<1>1. Cur(u)' = Cur(u)
  BY DEF Untouched, Cur
<1>2. /\ Out(Cur(u)) \/ Cur(u) \in lost => Out(Cur(u))' \/ Cur(u)' \in lost'
      /\ Cur(u) \in lost => Cur(u)' \in lost'
  BY <1>1 DEF Untouched
<1> QED
  BY <1>1, <1>2 DEF Untouched, Learnt

(* The steps of a thread inside loc_sync_send_req, other than Send, that   *)
(* keep its slot: what is on its way stays as it is, and every other call  *)
(* is untouched.                                                           *)
LEMMA OwnStep ==
    ASSUME IInv, PInv, NEW t \in Threads,
           UNCHANGED <<modem, inds, lost>>,
           \A u \in Threads \ {t} : Untouched(u),
           \A n \in Nat : ~Out(<<t, n>>) \/ (/\ calls'[t] = calls[t]
                                             /\ pc'[t] \in {"sent", "wait"}
                                             /\ has_arrived'[slot'[t]] = has_arrived[slot[t]]),
           Learnt(t)'
    PROVE  Once' /\ Current' /\ Answered' /\ IsFiniteSet(lost)'
<1>1. \A r : Out(r)' <=> Out(r)
  BY DEF Out
<1>2. Once' /\ IsFiniteSet(lost)'
  BY DEF PInv, Once
<1>3. Answered'
  BY UntouchedLearns DEF PInv, Answered
<1>4. Current'
  <2> SUFFICES ASSUME NEW u \in Threads, NEW n \in Nat, Out(<<u, n>>)
               PROVE  /\ n = calls'[u]
                      /\ pc'[u] \in {"sent", "wait"}
                      /\ ~has_arrived'[slot'[u]]
    BY <1>1 DEF Current
  <2>1. n = calls[u] /\ pc[u] \in {"sent", "wait"} /\ ~has_arrived[slot[u]]
    BY DEF PInv, Current
  <2>2. CASE u = t
    BY <2>1, <2>2
  <2>3. CASE u # t
    <3>1. Untouched(u)
      BY <2>3
    <3> QED
      BY <2>1, <3>1 DEF Untouched
  <2> QED
    BY <2>2, <2>3
<1> QED
  BY <1>2, <1>3, <1>4

(* Every step keeps the invariant of prompt answers.                       *)
LEMMA PromptStep ==
    ASSUME Prompt, IInv, PInv, [Next]_vars
    PROVE  PInv'
<1>f. Filled'
  BY FilledStep DEF PInv
<1> SUFFICES Once' /\ Current' /\ Answered' /\ IsFiniteSet(lost)'
  BY <1>f DEF PInv
<1>t. /\ pc \in [Threads -> CallStates] /\ calls \in [Threads -> Nat]
      /\ ret \in [Threads -> Statuses] /\ slot \in [Threads -> 0..NSlots]
      /\ has_arrived \in [Slots -> BOOLEAN]
      /\ buf \in [Threads -> (Threads \X Nat) \cup {None}]
      /\ inds \in Seq(Threads \X Nat) /\ modem \subseteq Threads \X Nat
  BY DEF IInv, TypeOK
<1>s. \A t, u \in Threads : pc[t] # "idle" /\ pc[u] # "idle" /\ t # u
                              => slot[t] # slot[u] /\ slot[t] \in Slots
  BY DEF IInv, Owned, SlotExclusive
<1>l. \A t \in Threads : Learnt(t)
  BY DEF PInv, Answered
<1>n. \A t \in Threads : pc[t] \notin {"sent", "wait"} => \A n \in Nat : ~Out(<<t, n>>)
  BY DEF PInv, Current
<1>o. UNCHANGED <<modem, inds>> => \A r : Out(r)' <=> Out(r)
  BY DEF Out
<1>c. \A u \in Threads : calls'[u] = calls[u] => Cur(u)' = Cur(u)
  BY DEF Cur
<1>m. UNCHANGED <<modem, inds, lost>> =>
        \A u \in Threads : /\ pc'[u] = pc[u] /\ calls'[u] = calls[u]
                           /\ ret'[u] = ret[u] /\ buf'[u] = buf[u]
                           /\ pc[u] \in {"select", "sent", "wait"} =>
                                 has_arrived'[slot'[u]] = has_arrived[slot[u]]
                           => Untouched(u)
  BY <1>o, <1>c DEF Untouched, Out, Cur
<1>1. ASSUME NEW t \in Threads, Alloc(t)
      PROVE  Once' /\ Current' /\ Answered' /\ IsFiniteSet(lost)'
  <2>1. PICK i \in Slots : AllocSlot(t, i)
    BY <1>1 DEF Alloc, AllocSlot
  <2>2. UNCHANGED <<modem, inds, lost>>
    BY <2>1 DEF AllocSlot
  <2>3. \A u \in Threads \ {t} : Untouched(u)
    BY <1>t, <1>m, <2>1, <2>2 DEF AllocSlot, NewCall
  <2>4. \A n \in Nat : ~Out(<<t, n>>)
    BY <1>n, <2>1 DEF AllocSlot, NewCall
  <2>5. Learnt(t)'
    BY <1>t, <2>1 DEF AllocSlot, Learnt
  <2> QED
    BY <2>2, <2>3, <2>4, <2>5, OwnStep
<1>2. ASSUME NEW t \in Threads, Full(t) PROVE FALSE
  BY <1>2, NeverFull
<1>3. ASSUME NEW t \in Threads, Select(t)
      PROVE  Once' /\ Current' /\ Answered' /\ IsFiniteSet(lost)'
  <2>1. slot[t] \in Slots
    BY <1>3 DEF Select, IInv, Owned, SlotExclusive
  <2>2. UNCHANGED <<modem, inds, lost>>
    BY <1>3 DEF Select
  <2>3. \A u \in Threads \ {t} : Untouched(u)
    BY <1>t, <1>s, <1>m, <1>3, <2>1, <2>2 DEF Select
  <2>4. \A n \in Nat : ~Out(<<t, n>>)
    BY <1>n, <1>3 DEF Select
  <2>5. Learnt(t)'
    BY <1>t, <1>3, <2>1 DEF Select, Learnt
  <2> QED
    BY <2>2, <2>3, <2>4, <2>5, OwnStep
<1>4. ASSUME NEW t \in Threads, Send(t)
      PROVE  Once' /\ Current' /\ Answered' /\ IsFiniteSet(lost)'
  <2>1. /\ modem' = modem \cup {Cur(t)} /\ pc[t] = "select"
        /\ pc' = [pc EXCEPT ![t] = "sent"]
        /\ UNCHANGED <<has_arrived, slot, calls, buf, ret, inds, lost>>
    BY <1>4 DEF Send, Cur
  <2>2. ~Out(Cur(t)) /\ Cur(t)' = Cur(t)
    BY <1>t, <1>n, <2>1 DEF Cur
  <2>3. \A r : Out(r)' <=> Out(r) \/ r = Cur(t)
    BY <2>1 DEF Out
  <2>4. Once'
    BY <2>1, <2>2 DEF PInv, Once, Out
  <2>5. Learnt(t)
    BY <1>l
  <2>6. ~has_arrived[slot[t]]
    BY <2>1, <2>5 DEF Learnt
  <2>7. Current'
    <3> SUFFICES ASSUME NEW u \in Threads, NEW n \in Nat,
                        Out(<<u, n>>) \/ <<u, n>> = Cur(t)
                 PROVE  /\ n = calls[u]
                        /\ pc'[u] \in {"sent", "wait"}
                        /\ ~has_arrived[slot[u]]
      BY <2>1, <2>3 DEF Current
    <3>1. CASE Out(<<u, n>>)
      BY <1>t, <2>1, <3>1 DEF PInv, Current
    <3>2. CASE <<u, n>> = Cur(t)
      <4>1. u = t /\ n = calls[t]
        BY <3>2 DEF Cur
      <4> QED
        BY <1>t, <2>1, <2>6, <4>1
    <3> QED
      BY <3>1, <3>2
  <2>8. ASSUME NEW u \in Threads PROVE Learnt(u)'
    <3>1. CASE u = t
      <4>1. Out(Cur(t))'
        BY <2>2, <2>3
      <4> QED
        BY <1>t, <2>1, <2>6, <3>1, <4>1 DEF Learnt
    <3>2. CASE u # t
      <4>1. Cur(u)' = Cur(u)
        BY <2>1 DEF Cur
      <4>2. Untouched(u)
        BY <1>t, <2>1, <2>3, <3>2, <4>1 DEF Untouched
      <4> QED
        BY <1>l, <4>2, UntouchedLearns
    <3> QED
      BY <3>1, <3>2
  <2>9. IsFiniteSet(lost)'
    BY <2>1 DEF PInv
  <2> QED
    BY <2>4, <2>7, <2>8, <2>9 DEF Answered
<1>5. ASSUME NEW t \in Threads, SendFails(t) \/ ArrivedBefore(t)
      PROVE  Once' /\ Current' /\ Answered' /\ IsFiniteSet(lost)'
  <2>1. /\ pc' = [pc EXCEPT ![t] = "done"]
        /\ UNCHANGED <<has_arrived, slot, calls, buf, modem, inds, lost>>
    BY <1>5 DEF SendFails, ArrivedBefore
  <2>2. \A u \in Threads \ {t} : Untouched(u)
    BY <1>t, <1>m, <1>5, <2>1 DEF SendFails, ArrivedBefore
  <2>3. \A n \in Nat : ~Out(<<t, n>>)
    <3>1. CASE SendFails(t)
      BY <1>n, <3>1 DEF SendFails
    <3>2. CASE ArrivedBefore(t)
      BY <3>2 DEF ArrivedBefore, PInv, Current
    <3> QED
      BY <1>5, <3>1, <3>2
  <2>4. Learnt(t)'
    <3>1. Learnt(t) /\ Cur(t)' = Cur(t)
      BY <1>l, <1>c, <2>1
    <3>2. CASE SendFails(t)
      BY <1>t, <2>1, <3>2 DEF SendFails, Learnt
    <3>3. CASE ArrivedBefore(t)
      BY <1>t, <2>1, <3>1, <3>3 DEF ArrivedBefore, Learnt
    <3> QED
      BY <1>5, <3>2, <3>3
  <2> QED
    BY <2>1, <2>2, <2>3, <2>4, OwnStep
<1>6. ASSUME NEW t \in Threads, Wait(t)
      PROVE  Once' /\ Current' /\ Answered' /\ IsFiniteSet(lost)'
  <2>1. /\ pc[t] = "sent" /\ ~has_arrived[slot[t]]
        /\ pc' = [pc EXCEPT ![t] = "wait"]
        /\ UNCHANGED <<has_arrived, slot, calls, buf, ret, modem, inds, lost>>
    BY <1>6 DEF Wait
  <2>2. \A u \in Threads \ {t} : Untouched(u)
    BY <1>t, <1>m, <2>1
  <2>3. calls'[t] = calls[t] /\ pc'[t] \in {"sent", "wait"}
        /\ has_arrived'[slot'[t]] = has_arrived[slot[t]]
    BY <1>t, <2>1
  <2>4. Learnt(t)'
    <3>1. Learnt(t) /\ Cur(t)' = Cur(t) /\ (Out(Cur(t))' <=> Out(Cur(t)))
      BY <1>l, <1>c, <1>o, <2>1
    <3> QED
      BY <1>t, <2>1, <3>1 DEF Learnt
  <2> QED
    BY <2>1, <2>2, <2>3, <2>4, OwnStep
<1>7. ASSUME NEW t \in Threads, Expire(t)
      PROVE  Once' /\ Current' /\ Answered' /\ IsFiniteSet(lost)'
  <2>1. /\ pc[t] = "wait" /\ pc' = [pc EXCEPT ![t] = "expired"]
        /\ UNCHANGED <<has_arrived, slot, calls, buf, ret, modem, inds, lost>>
    BY <1>7 DEF Expire
  <2>2. \A u \in Threads \ {t} : Untouched(u)
    BY <1>t, <1>m, <2>1
  <2>3. \A n \in Nat : ~Out(<<t, n>>)
    <3>1. \A r \in modem \cup {inds[k] : k \in DOMAIN inds} : IndOf[r[1]] # IndOf[t]
      BY <1>7 DEF Expire, Prompt
    <3>2. ASSUME NEW n \in Nat, Out(<<t, n>>)
          PROVE  <<t, n>> \in modem \cup {inds[k] : k \in DOMAIN inds}
      BY <3>2 DEF Out, Holds
    <3> QED
      BY <3>1, <3>2
  <2>4. Learnt(t)'
    <3>1. Learnt(t) /\ Cur(t)' = Cur(t)
      BY <1>l, <1>c, <2>1
    <3>2. ~Out(Cur(t))
      BY <1>t, <2>3 DEF Cur
    <3> QED
      BY <1>t, <2>1, <3>1, <3>2 DEF Learnt
  <2> QED
    BY <2>1, <2>2, <2>3, <2>4, OwnStep
<1>8. ASSUME NEW t \in Threads, SpuriousWakeup(t) PROVE FALSE
  BY <1>8 DEF SpuriousWakeup, Prompt
<1>9. ASSUME NEW t \in Threads, Resume(t)
      PROVE  Once' /\ Current' /\ Answered' /\ IsFiniteSet(lost)'
  <2>1. /\ pc[t] \in {"woken", "expired"} /\ pc' = [pc EXCEPT ![t] = "done"]
        /\ ret' = [ret EXCEPT ![t] = IF pc[t] = "woken" THEN "SUCCESS" ELSE "TIMEOUT"]
        /\ UNCHANGED <<has_arrived, slot, calls, buf, modem, inds, lost>>
    BY <1>9 DEF Resume
  <2>2. \A u \in Threads \ {t} : Untouched(u)
    BY <1>t, <1>m, <2>1
  <2>3. \A n \in Nat : ~Out(<<t, n>>)
    BY <1>n, <2>1
  <2>4. Learnt(t)'
    <3>1. Learnt(t) /\ Cur(t)' = Cur(t)
      BY <1>l, <1>c, <2>1
    <3> QED
      BY <1>t, <2>1, <3>1 DEF Learnt
  <2> QED
    BY <2>1, <2>2, <2>3, <2>4, OwnStep
<1>10. ASSUME NEW t \in Threads, Free(t)
       PROVE  Once' /\ Current' /\ Answered' /\ IsFiniteSet(lost)'
  <2>1. /\ pc[t] = "done" /\ pc' = [pc EXCEPT ![t] = "idle"]
        /\ has_arrived' = [has_arrived EXCEPT ![slot[t]] = FALSE]
        /\ slot' = [slot EXCEPT ![t] = 0]
        /\ UNCHANGED <<calls, buf, ret, modem, inds, lost>>
    BY <1>10 DEF Free
  <2>2. \A u \in Threads \ {t} : Untouched(u)
    BY <1>t, <1>m, <1>s, <2>1
  <2>3. \A n \in Nat : ~Out(<<t, n>>)
    BY <1>n, <2>1
  <2>4. Learnt(t)'
    <3>1. Learnt(t) /\ Cur(t)' = Cur(t)
      BY <1>l, <1>c, <2>1
    <3> QED
      BY <1>t, <2>1, <3>1 DEF Learnt
  <2> QED
    BY <2>1, <2>2, <2>3, <2>4, OwnStep
<1>11. ASSUME NEW r \in Requests, Answer(r) \/ LoseAnswer(r)
       PROVE  Once' /\ Current' /\ Answered' /\ IsFiniteSet(lost)'
  <2>0. r \in Threads \X Nat /\ r \in modem /\ ~Holds(inds, r)
    BY <1>11 DEF Requests, Answer, LoseAnswer, PInv, Once
  <2>1. UNCHANGED <<pc, slot, calls, buf, ret, has_arrived>>
    BY <1>11 DEF Answer, LoseAnswer
  <2>2. CASE Answer(r)
    <3>1. modem' = modem \ {r} /\ inds' = Append(inds, r) /\ lost' = lost
      BY <2>2 DEF Answer
    <3>2. \A x : Holds(inds', x) <=> Holds(inds, x) \/ x = r
      <4>1. inds \in Seq(Threads \X Nat) /\ r \in Threads \X Nat
        BY <1>t, <2>0
      <4>2. \A x : Holds(Append(inds, r), x) <=> Holds(inds, x) \/ x = r
        BY <4>1, AppendHolds, Zenon
      <4> QED
        BY <3>1, <4>2
    <3>3. \A x : Out(x)' <=> Out(x)
      BY <2>0, <3>1, <3>2 DEF Out
    <3>4. Once'
      <4>1. Distinct(inds')
        BY <1>t, <2>0, <3>1, AppendDistinct DEF PInv, Once
      <4> QED
        BY <3>1, <3>2, <4>1 DEF PInv, Once
    <3>5. Current'
      BY <2>1, <3>3 DEF PInv, Current
    <3>6. \A u \in Threads : Untouched(u)
      BY <1>c, <2>1, <3>1, <3>3 DEF Untouched
    <3> QED
      BY <1>l, <3>1, <3>4, <3>5, <3>6, UntouchedLearns DEF Answered, PInv
  <2>3. CASE LoseAnswer(r)
    <3>1. modem' = modem \ {r} /\ inds' = inds /\ lost' = lost \cup {r}
      BY <2>3 DEF LoseAnswer
    <3>2. \A x : Out(x)' <=> Out(x) /\ x # r
      BY <2>0, <3>1 DEF Out
    <3>3. Once'
      BY <3>1 DEF PInv, Once
    <3>4. Current'
      BY <2>1, <3>2 DEF PInv, Current
    <3>5. \A u \in Threads : Untouched(u)
      BY <1>c, <2>1, <3>1, <3>2 DEF Untouched
    <3>6. IsFiniteSet(lost)'
      BY <3>1, FS_AddElement DEF PInv
    <3> QED
      BY <1>l, <3>3, <3>4, <3>5, <3>6, UntouchedLearns DEF Answered
  <2> QED
    BY <1>11, <2>2, <2>3
<1>12. CASE ProcessInd
  <2>0. /\ inds # <<>> /\ inds' = Tail(inds)
        /\ UNCHANGED <<slot, calls, ret, modem, lost>>
    BY <1>12 DEF ProcessInd
  <2>1. Head(inds) \in Threads \X Nat /\ Holds(inds, Head(inds))
    BY <1>t, <2>0, HeadHolds
  <2>2. PICK t \in Threads, n \in Nat : Head(inds) = <<t, n>>
    BY <2>1
  <2>3. Out(<<t, n>>)
    BY <2>1, <2>2 DEF Out
  <2>4. n = calls[t] /\ pc[t] \in {"sent", "wait"} /\ ~has_arrived[slot[t]]
    BY <2>3 DEF PInv, Current
  <2>5. /\ in_use /\ slot[t] \in Slots /\ payload[slot[t]] = t
        /\ {i \in Slots : Fits(i, <<t, n>>)} = {slot[t]}
    BY <2>3, IndFinds DEF PInv
  <2>6. TakeInd(slot[t], <<t, n>>)
    BY <1>12, <2>2, <2>5 DEF ProcessInd
  <2>7. buf' = [buf EXCEPT ![t] = <<t, n>>]
    BY <2>5, <2>6 DEF TakeInd
  <2>8. is_waiting[slot[t]] <=> pc[t] = "wait"
    BY <2>4 DEF IInv, Owned, WaitingMatches
  <2>9. \/ /\ pc[t] = "wait" /\ pc' = [pc EXCEPT ![t] = "woken"]
           /\ has_arrived' = has_arrived
        \/ /\ pc[t] = "sent" /\ pc' = pc
           /\ has_arrived' = [has_arrived EXCEPT ![slot[t]] = TRUE]
    BY <2>4, <2>5, <2>6, <2>8, <1>t DEF TakeInd
  <2>10. \A x : Holds(inds', x) <=> Holds(inds, x) /\ x # <<t, n>>
    BY <1>t, <2>0, <2>2, TailHolds DEF PInv, Once
  <2>11. \A x : Out(x)' <=> Out(x) /\ x # <<t, n>>
    BY <2>0, <2>1, <2>2, <2>10 DEF Out, PInv, Once
  <2>12. Once'
    <3>1. Distinct(inds')
      BY <1>t, <2>0, TailDistinct DEF PInv, Once
    <3> QED
      BY <2>0, <2>10, <3>1 DEF PInv, Once
  <2>13. \A u \in Threads \ {t} :
            /\ pc'[u] = pc[u] /\ buf'[u] = buf[u]
            /\ pc[u] # "idle" => has_arrived'[slot[u]] = has_arrived[slot[u]]
    BY <1>t, <1>s, <2>4, <2>5, <2>7, <2>9
  <2>14. \A u \in Threads \ {t} : Untouched(u)
    <3> SUFFICES ASSUME NEW u \in Threads \ {t} PROVE Untouched(u)
      OBVIOUS
    <3>1. Cur(u)' = Cur(u) /\ Cur(u) # <<t, n>>
      BY <2>0 DEF Cur
    <3>2. Out(Cur(u)) => Out(Cur(u))'
      BY <2>11, <3>1
    <3> QED
      BY <2>0, <2>13, <3>2 DEF Untouched
  <2>15. Current'
    <3> SUFFICES ASSUME NEW u \in Threads, NEW k \in Nat, Out(<<u, k>>),
                        <<u, k>> # <<t, n>>
                 PROVE  /\ k = calls'[u]
                        /\ pc'[u] \in {"sent", "wait"}
                        /\ ~has_arrived'[slot'[u]]
      BY <2>11 DEF Current
    <3>1. k = calls[u] /\ pc[u] \in {"sent", "wait"} /\ ~has_arrived[slot[u]]
      BY DEF PInv, Current
    <3>2. u # t
      BY <2>4, <3>1
    <3> QED
      BY <2>0, <2>13, <3>1, <3>2
  <2>16. Learnt(t)'
    <3>1. buf'[t] = Cur(t)'
      BY <1>t, <2>0, <2>4, <2>7 DEF Cur
    <3>2. CASE pc[t] = "wait"
      BY <1>t, <2>9, <3>1, <3>2 DEF Learnt
    <3>3. CASE pc[t] = "sent"
      <4>1. has_arrived'[slot'[t]] /\ pc'[t] = "sent"
        BY <1>t, <2>0, <2>5, <2>9, <3>3
      <4> QED
        BY <3>1, <4>1 DEF Learnt
    <3> QED
      BY <2>4, <3>2, <3>3
  <2> QED
    BY <1>l, <2>0, <2>12, <2>14, <2>15, <2>16, UntouchedLearns DEF Answered, PInv
<1>13. CASE UNCHANGED vars
  <2>1. UNCHANGED <<pc, slot, calls, buf, ret, has_arrived, modem, inds, lost>>
    BY <1>13 DEF vars
  <2>2. \A u \in Threads : Untouched(u)
    BY <1>m, <2>1
  <2>3. Once' /\ IsFiniteSet(lost)'
    BY <2>1 DEF PInv, Once
  <2>4. Current'
    BY <1>o, <2>1 DEF PInv, Current
  <2> QED
    BY <1>l, <2>2, <2>3, <2>4, UntouchedLearns DEF Answered
<1> QED
  BY <1>1, <1>2, <1>3, <1>4, <1>5, <1>6, <1>7, <1>8, <1>9, <1>10, <1>11, <1>12,
     <1>13 DEF Next, Call

(* The invariant of prompt answers holds under the four conditions.        *)
LEMMA PromptInvariance == ASSUME Prompt PROVE Spec => []PInv
<1>1. IInv /\ PInv /\ [Next]_vars => PInv'
  BY PromptStep
<1> QED
  BY <1>1, InitPInv, Invariance, PTL DEF Spec

(* A loc_sync_send_req that returns SUCCESS has the answer to its own      *)
(* request in its buffer, provided answers are prompt, indications are not *)
(* shared and slots do not run out.                                        *)
THEOREM SuccessHasAnswerThm == ASSUME Prompt PROVE Spec => []SuccessHasAnswer
<1>1. PInv => SuccessHasAnswer
  BY DEF PInv, Answered, Learnt, SuccessHasAnswer, Cur
<1> QED
  BY <1>1, PromptInvariance, PTL

(* Under the same conditions no indication is wasted: each call whose last *)
(* status is TIMEOUT has a request of its own that the modem never         *)
(* answered.                                                               *)
THEOREM TimeoutOnlyIfLostThm == ASSUME Prompt PROVE Spec => []TimeoutOnlyIfLost
<1>1. PInv => TimeoutOnlyIfLost
  <2> SUFFICES ASSUME PInv PROVE TimeoutOnlyIfLost
    OBVIOUS
  <2> DEFINE late == {t \in Threads : pc[t] = "idle" /\ ret[t] = "TIMEOUT"}
             request == [t \in late |-> Cur(t)]
  <2>1. request \in [late -> lost]
    BY DEF PInv, Answered, Learnt
  <2>2. \A t, u \in late : request[t] = request[u] => t = u
    BY DEF Cur
  <2>3. IsFiniteSet(lost)
    BY DEF PInv
  <2> HIDE DEF late, request
  <2>4. request \in Injection(late, lost)
    BY <2>1, <2>2 DEF Injection, IsInjective
  <2>5. Cardinality(late) <= Cardinality(lost)
    BY <2>3, <2>4, FS_Injection
  <2> QED
    BY <2>5 DEF TimeoutOnlyIfLost, late
<1> QED
  BY <1>1, PromptInvariance, PTL
=============================================================================
