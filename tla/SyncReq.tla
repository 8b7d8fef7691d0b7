------------------------------- MODULE SyncReq -------------------------------
(***************************************************************************)
(* Synchronous requests to the modem, loc_api_sync_req.cpp.  A thread that *)
(* calls loc_sync_send_req takes a slot of a fixed array, writes into it   *)
(* which indication it waits for and where to copy its payload, sends the  *)
(* request, and waits on the slot's condition variable for at most the     *)
(* timeout.  The QMI callback thread (loc_sync_process_ind) looks for the  *)
(* first slot that fits an indication.                                     *)
(*                                                                         *)
(* loc_sync_call_mutex protects slot_in_use and in_use and is held for the *)
(* whole of loc_sync_process_ind; sync_req_lock protects the fields of a   *)
(* slot.  Each critical section is one step.  All callers use one client   *)
(* handle and pass a buffer for the payload; left out are the resenders of *)
(* LocApiV02::locSyncSendReq, which repeat a request the engine was too    *)
(* busy for without one.                                                   *)
(***************************************************************************)
EXTENDS Naturals, Sequences, FiniteSets

CONSTANTS
    Threads,    \* the threads that send requests
    IndOf,      \* IndOf[t]: the indication thread t waits for
    NSlots,     \* LOC_SYNC_REQ_BUFFER_SIZE
    NoInd,      \* recv_ind_id = 0: no indication selected
    None,       \* no thread, no answer
    MaxCalls,   \* bound: calls of one thread
    Late,       \* the modem may answer a request after its timeout
    Spurious    \* pthread_cond_timedwait may wake up without a signal

ASSUME SyncReqAssumption ==
    /\ NSlots \in Nat /\ MaxCalls \in Nat
    /\ NoInd \notin {IndOf[t] : t \in Threads}
    /\ None \notin Threads
    /\ None \notin Threads \X Nat
    /\ Late \in BOOLEAN /\ Spurious \in BOOLEAN

Slots == 1..NSlots
Requests == Threads \X (1..MaxCalls)   \* the n-th request of a thread

VARIABLES
    in_use,       \* loc_sync_array.in_use
    slot_in_use,  \* loc_sync_array.slot_in_use
    ind_id,       \* slot.recv_ind_id; with it client_handle and ind_is_selected
    is_waiting,   \* slot.ind_is_waiting
    has_arrived,  \* slot.ind_has_arrived
    payload,      \* slot.recv_ind_payload_ptr: the thread that owns the buffer
    pc,           \* where each thread is, see CallStates
    slot,         \* select_id of each thread, 0 if none
    calls,        \* number of the current request of each thread
    buf,          \* the thread's payload buffer: the request it answers
    ret,          \* the status of the current or last call
    modem,        \* requests the modem has not answered
    inds,         \* indications on their way to the callback thread
    lost          \* history: requests the modem never answered

slotVars == <<ind_id, is_waiting, has_arrived, payload>>
vars == <<in_use, slot_in_use, ind_id, is_waiting, has_arrived, payload, pc,
          slot, calls, buf, ret, modem, inds, lost>>

(* idle: outside loc_sync_send_req; alloc: it has a slot, not yet filled   *)
(* in; select: filled in; sent: the request is out; wait: in               *)
(* pthread_cond_timedwait; woken, expired: woken or timed out, about to    *)
(* take sync_req_lock again; done: about to free the slot.                 *)
CallStates == {"idle", "alloc", "select", "sent", "wait", "woken", "expired", "done"}

Init ==
    /\ in_use = FALSE
    /\ slot_in_use = [i \in Slots |-> FALSE]
    /\ ind_id = [i \in Slots |-> NoInd]
    /\ is_waiting = [i \in Slots |-> FALSE]
    /\ has_arrived = [i \in Slots |-> FALSE]
    /\ payload = [i \in Slots |-> None]
    /\ pc = [t \in Threads |-> "idle"]
    /\ slot = [t \in Threads |-> 0]
    /\ calls = [t \in Threads |-> 0]
    /\ buf = [t \in Threads |-> None]
    /\ ret = [t \in Threads |-> "none"]
    /\ modem = {} /\ inds = <<>> /\ lost = {}

Goto(t, label) == pc' = [pc EXCEPT ![t] = label]
Return(t, status) == ret' = [ret EXCEPT ![t] = status]

-----------------------------------------------------------------------------
(* loc_sync_send_req.                                                      *)

NewCall(t) == /\ pc[t] = "idle" /\ calls[t] < MaxCalls
              /\ calls' = [calls EXCEPT ![t] = @ + 1]
              /\ buf' = [buf EXCEPT ![t] = None]
              /\ Return(t, "none")

(* loc_alloc_slot takes the first free slot.                               *)
Alloc(t) ==
    \E i \in Slots :
      /\ ~slot_in_use[i] /\ \A j \in 1..(i - 1) : slot_in_use[j]
      /\ NewCall(t)
      /\ slot_in_use' = [slot_in_use EXCEPT ![i] = TRUE]
      /\ in_use' = TRUE
      /\ slot' = [slot EXCEPT ![t] = i]
      /\ Goto(t, "alloc")
      /\ UNCHANGED <<slotVars, modem, inds, lost>>

(* All slots are taken: loc_sync_select_ind returns -ENOMEM, the request   *)
(* is not sent, and status is still what it was initialised to.            *)
MutantFull(t) ==  \* select_id -1 is not recognised
    /\ \A i \in Slots : slot_in_use[i]
    /\ NewCall(t)
    /\ slot' = [slot EXCEPT ![t] = NSlots + 1]
    /\ Goto(t, "alloc")
    /\ UNCHANGED <<in_use, slot_in_use, slotVars, modem, inds, lost>>
Full(t) ==
    /\ \A i \in Slots : slot_in_use[i]
    /\ pc[t] = "idle" /\ calls[t] < MaxCalls
    /\ calls' = [calls EXCEPT ![t] = @ + 1]
    /\ buf' = [buf EXCEPT ![t] = None]
    /\ Return(t, "SUCCESS")
    /\ UNCHANGED <<in_use, slot_in_use, slotVars, pc, slot, modem, inds, lost>>

(* loc_sync_select_ind, after loc_alloc_slot.                              *)
Select(t) ==
    LET i == slot[t] IN
    /\ pc[t] = "alloc"
    /\ ind_id' = [ind_id EXCEPT ![i] = IndOf[t]]
    /\ is_waiting' = [is_waiting EXCEPT ![i] = FALSE]
    /\ has_arrived' = [has_arrived EXCEPT ![i] = FALSE]
    /\ payload' = [payload EXCEPT ![i] = t]
    /\ Goto(t, "select")
    /\ UNCHANGED <<in_use, slot_in_use, slot, calls, buf, ret, modem, inds, lost>>

(* locClientSendReq.                                                       *)
Send(t) ==
    /\ pc[t] = "select"
    /\ modem' = modem \cup {<<t, calls[t]>>}
    /\ Goto(t, "sent")
    /\ UNCHANGED <<in_use, slot_in_use, slotVars, slot, calls, buf, ret, inds, lost>>

SendFails(t) ==
    /\ pc[t] = "select"
    /\ Return(t, "FAILURE")
    /\ Goto(t, "done")
    /\ UNCHANGED <<in_use, slot_in_use, slotVars, slot, calls, buf, modem, inds, lost>>

(* loc_sync_wait_for_ind: the indication came before the wait.             *)
ArrivedBefore(t) ==
    /\ pc[t] = "sent" /\ has_arrived[slot[t]]
    /\ Return(t, "SUCCESS")
    /\ Goto(t, "done")
    /\ UNCHANGED <<in_use, slot_in_use, slotVars, slot, calls, buf, modem, inds, lost>>

MutantWait(t) ==  \* waits without looking at ind_has_arrived
    /\ pc[t] = "sent"
    /\ is_waiting' = [is_waiting EXCEPT ![slot[t]] = TRUE]
    /\ Goto(t, "wait")
    /\ UNCHANGED <<in_use, slot_in_use, ind_id, has_arrived, payload, slot,
                   calls, buf, ret, modem, inds, lost>>
Wait(t) ==
    /\ pc[t] = "sent" /\ ~has_arrived[slot[t]]
    /\ ~is_waiting[slot[t]]
    /\ is_waiting' = [is_waiting EXCEPT ![slot[t]] = TRUE]
    /\ Goto(t, "wait")
    /\ UNCHANGED <<in_use, slot_in_use, ind_id, has_arrived, payload, slot,
                   calls, buf, ret, modem, inds, lost>>

(* The timeout passes, or the wait ends for no reason; the thread has yet  *)
(* to take sync_req_lock again.  Without Late the modem answers in time or *)
(* not at all: nothing that could end the wait is still on its way.        *)
MutantExpire(t) == FALSE /\ UNCHANGED vars  \* the wait has no timeout
Expire(t) ==
    /\ pc[t] = "wait"
    /\ ~Late => \A r \in modem \cup {inds[n] : n \in DOMAIN inds} :
                    IndOf[r[1]] # IndOf[t]
    /\ Goto(t, "expired")
    /\ UNCHANGED <<in_use, slot_in_use, slotVars, slot, calls, buf, ret,
                   modem, inds, lost>>

SpuriousWakeup(t) ==
    /\ Spurious /\ pc[t] = "wait"
    /\ Goto(t, "woken")
    /\ UNCHANGED <<in_use, slot_in_use, slotVars, slot, calls, buf, ret, modem, inds, lost>>

(* pthread_cond_timedwait has returned, with 0 or with ETIMEDOUT.          *)
MutantResumeKeeps(t) ==  \* a timeout leaves ind_is_waiting set
    /\ pc[t] \in {"woken", "expired"}
    /\ is_waiting' = [is_waiting EXCEPT ![slot[t]] = pc[t] = "expired"]
    /\ Return(t, IF pc[t] = "woken" THEN "SUCCESS" ELSE "TIMEOUT")
    /\ Goto(t, "done")
    /\ UNCHANGED <<in_use, slot_in_use, ind_id, has_arrived, payload, slot,
                   calls, buf, modem, inds, lost>>
Resume(t) ==
    /\ pc[t] \in {"woken", "expired"}
    /\ is_waiting' = [is_waiting EXCEPT ![slot[t]] = FALSE]
    /\ Return(t, IF pc[t] = "woken" THEN "SUCCESS" ELSE "TIMEOUT")
    /\ Goto(t, "done")
    /\ UNCHANGED <<in_use, slot_in_use, ind_id, has_arrived, payload, slot,
                   calls, buf, modem, inds, lost>>

(* loc_free_slot, and the call returns.                                    *)
MutantFreeKeepsPayload(t) ==  \* the payload pointer is not cleared
    LET i == slot[t] IN
    /\ pc[t] = "done"
    /\ slot_in_use' = [slot_in_use EXCEPT ![i] = FALSE]
    /\ in_use' = \E j \in Slots : slot_in_use'[j]
    /\ ind_id' = [ind_id EXCEPT ![i] = NoInd]
    /\ is_waiting' = [is_waiting EXCEPT ![i] = FALSE]
    /\ has_arrived' = [has_arrived EXCEPT ![i] = FALSE]
    /\ slot' = [slot EXCEPT ![t] = 0]
    /\ Goto(t, "idle")
    /\ UNCHANGED <<payload, calls, buf, ret, modem, inds, lost>>
MutantFreeClearsInUse(t) ==  \* in_use is cleared with any slot
    LET i == slot[t] IN
    /\ pc[t] = "done"
    /\ slot_in_use' = [slot_in_use EXCEPT ![i] = FALSE]
    /\ in_use' = FALSE
    /\ ind_id' = [ind_id EXCEPT ![i] = NoInd]
    /\ is_waiting' = [is_waiting EXCEPT ![i] = FALSE]
    /\ has_arrived' = [has_arrived EXCEPT ![i] = FALSE]
    /\ payload' = [payload EXCEPT ![i] = None]
    /\ slot' = [slot EXCEPT ![t] = 0]
    /\ Goto(t, "idle")
    /\ UNCHANGED <<calls, buf, ret, modem, inds, lost>>
Free(t) ==
    LET i == slot[t] IN
    /\ pc[t] = "done"
    /\ slot_in_use' = [slot_in_use EXCEPT ![i] = FALSE]
    /\ in_use' = (in_use /\ \E j \in Slots : slot_in_use'[j])
    /\ ind_id' = [ind_id EXCEPT ![i] = NoInd]
    /\ is_waiting' = [is_waiting EXCEPT ![i] = FALSE]
    /\ has_arrived' = [has_arrived EXCEPT ![i] = FALSE]
    /\ payload' = [payload EXCEPT ![i] = None]
    /\ slot' = [slot EXCEPT ![t] = 0]
    /\ Goto(t, "idle")
    /\ UNCHANGED <<calls, buf, ret, modem, inds, lost>>

-----------------------------------------------------------------------------
(* The modem (external) answers in any order, or never.                    *)
Answer(r) ==
    /\ r \in modem
    /\ modem' = modem \ {r}
    /\ inds' = Append(inds, r)
    /\ UNCHANGED <<in_use, slot_in_use, slotVars, pc, slot, calls, buf, ret, lost>>

LoseAnswer(r) ==
    /\ r \in modem
    /\ modem' = modem \ {r}
    /\ lost' = lost \cup {r}
    /\ UNCHANGED <<in_use, slot_in_use, slotVars, pc, slot, calls, buf, ret, inds>>

-----------------------------------------------------------------------------
(* loc_sync_process_ind, on the callback thread.                           *)

Fits(i, r) == /\ slot_in_use[i]
              /\ ind_id[i] = IndOf[r[1]]
              /\ ~has_arrived[i]

(* The first slot that fits takes the payload.  A thread in                *)
(* pthread_cond_timedwait is signalled; a signal for one that was woken or *)
(* has timed out already is lost.  Without a waiter the arrival is         *)
(* remembered.                                                             *)
MutantTakeInd(i, r) ==  \* the payload is not copied
    LET t == payload[i] IN
    /\ IF is_waiting[i]
       THEN /\ pc' = [pc EXCEPT ![t] = IF @ = "wait" THEN "woken" ELSE @]
            /\ UNCHANGED has_arrived
       ELSE /\ has_arrived' = [has_arrived EXCEPT ![i] = TRUE]
            /\ UNCHANGED pc
    /\ UNCHANGED buf
TakeInd(i, r) ==
    LET t == payload[i] IN
    /\ buf' = [buf EXCEPT ![t] = r]
    /\ IF is_waiting[i]
       THEN /\ pc' = [pc EXCEPT ![t] = IF @ = "wait" THEN "woken" ELSE @]
            /\ UNCHANGED has_arrived
       ELSE /\ has_arrived' = [has_arrived EXCEPT ![i] = TRUE]
            /\ UNCHANGED pc

ProcessInd ==
    /\ inds # <<>>
    /\ inds' = Tail(inds)
    /\ LET r == Head(inds)
           fit == {i \in Slots : Fits(i, r)}
       IN IF in_use /\ fit # {}
          THEN \E i \in fit : (\A j \in fit : i <= j) /\ TakeInd(i, r)
          ELSE UNCHANGED <<buf, pc, has_arrived>>
    /\ in_use' = (in_use /\ \E i \in Slots : slot_in_use[i])
    /\ UNCHANGED <<slot_in_use, ind_id, is_waiting, payload, slot, calls, ret, modem, lost>>

-----------------------------------------------------------------------------
Call(t) == \/ Alloc(t) \/ Full(t) \/ Select(t) \/ Send(t) \/ SendFails(t)
           \/ ArrivedBefore(t) \/ Wait(t) \/ Resume(t) \/ Free(t)

Next == \/ \E t \in Threads : Call(t) \/ Expire(t) \/ SpuriousWakeup(t)
        \/ \E r \in Requests : Answer(r) \/ LoseAnswer(r)
        \/ ProcessInd

Spec == Init /\ [][Next]_vars
FairSpec == /\ Spec
            /\ \A t \in Threads : WF_vars(pc[t] # "idle" /\ Call(t)) /\ WF_vars(Expire(t))
            /\ \A r \in Requests : WF_vars(Answer(r) \/ LoseAnswer(r))
            /\ WF_vars(ProcessInd)

-----------------------------------------------------------------------------
(* Properties.                                                             *)

Statuses == {"none", "SUCCESS", "TIMEOUT", "FAILURE"}

(* The slot array, the threads and the modem hold values of their types.   *)
TypeOK ==
    /\ in_use \in BOOLEAN
    /\ slot_in_use \in [Slots -> BOOLEAN]
    /\ ind_id \in [Slots -> {IndOf[t] : t \in Threads} \cup {NoInd}]
    /\ is_waiting \in [Slots -> BOOLEAN]
    /\ has_arrived \in [Slots -> BOOLEAN]
    /\ payload \in [Slots -> Threads \cup {None}]
    /\ pc \in [Threads -> CallStates]
    /\ slot \in [Threads -> 0..NSlots]
    /\ calls \in [Threads -> Nat]
    /\ buf \in [Threads -> (Threads \X Nat) \cup {None}]
    /\ ret \in [Threads -> Statuses]
    /\ modem \subseteq Threads \X Nat
    /\ inds \in Seq(Threads \X Nat)
    /\ lost \subseteq Threads \X Nat

(* loc_alloc_slot and loc_free_slot: a slot in use belongs to exactly one  *)
(* call, and a call inside the module has a slot in use.                   *)
SlotExclusive ==
    /\ \A t \in Threads : pc[t] # "idle" => slot[t] \in Slots /\ slot_in_use[slot[t]]
    /\ \A t, u \in Threads : pc[t] # "idle" /\ pc[u] # "idle" /\ slot[t] = slot[u] => t = u
    /\ \A i \in Slots : slot_in_use[i] => \E t \in Threads : pc[t] # "idle" /\ slot[t] = i

(* in_use is TRUE whenever a slot is: loc_sync_process_ind never drops an  *)
(* indication because it believes that nobody waits.                       *)
InUseExact == in_use <=> \E i \in Slots : slot_in_use[i]

(* The slot array, the calls and the flag that guards them agree.          *)
SlotsOwned == SlotExclusive /\ InUseExact

(* loc_sync_process_ind copies a payload to the stack of the caller: the   *)
(* pointer in a slot is only ever that of a call that has not returned and *)
(* that owns the slot.                                                     *)
BufferAlive ==
    \A i \in Slots : payload[i] # None =>
        pc[payload[i]] \notin {"idle", "alloc"} /\ slot[payload[i]] = i

(* ind_is_waiting is set exactly while the call is in the wait, so that an *)
(* indication signals the thread and loc_sync_wait_for_ind never finds the *)
(* slot busy (its -EBUSY return, which Wait leaves out).                   *)
WaitingMatches ==
    \A t \in Threads : pc[t] # "idle" =>
        (is_waiting[slot[t]] <=> pc[t] \in {"wait", "woken", "expired"})

(* A call that has returned SUCCESS has the answer to its own request in   *)
(* its buffer.                                                             *)
SuccessHasAnswer ==
    \A t \in Threads :
        pc[t] = "idle" /\ ret[t] = "SUCCESS" => buf[t] = <<t, calls[t]>>

(* No answer is wasted: no more calls time out than answers were lost by   *)
(* the modem, so each indication ends the wait of one call.                *)
TimeoutOnlyIfLost ==
    Cardinality({t \in Threads : pc[t] = "idle" /\ ret[t] = "TIMEOUT"})
        <= Cardinality(lost)

(* Every call returns.                                                     *)
CallReturns == \A t \in Threads : pc[t] # "idle" ~> pc[t] = "idle"
=============================================================================
