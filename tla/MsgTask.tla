------------------------------- MODULE MsgTask -------------------------------
(***************************************************************************)
(* The message queue and the thread under every adapter of the GNSS stack: *)
(* msg_q.c (a list, a mutex, a condition variable and an "unblocked"       *)
(* flag), MsgTask.cpp (MTRunnable::run receives one message and processes  *)
(* it) and LocThread.cpp (a detached thread that shares ownership of the   *)
(* runnable with nobody but, for the length of its destructor, the         *)
(* LocThreadDelegate that interrupts it).                                  *)
(*                                                                         *)
(* Each critical section of list_mutex is one step: nothing else touches   *)
(* the list or the flag.  pthread_cond_wait is two steps, the wait (which  *)
(* gives the mutex back) and the re-evaluation of the loop after a signal, *)
(* a broadcast or a spurious wakeup.                                       *)
(***************************************************************************)
EXTENDS Sequences, Naturals

CONSTANTS Msgs,   \* the LocMsg objects; each is sent at most once
          NoMsg   \* no message in hand

ASSUME NoMsgAssumption == NoMsg \notin Msgs

VARIABLES
    msg_list,   \* the list, oldest element first (added at p_head, taken at p_tail)
    unblocked,  \* msg_q.unblocked
    destroyed,  \* msg_q_destroy has freed the queue
    worker,     \* where the MsgTask thread is, see WorkerStates
    msg,        \* MTRunnable::run's local: the message in hand
    owner,      \* where the thread that owns the MsgTask object is
    accepted,   \* history: messages linked into the list, in that order
    taken,      \* history: messages given to the worker, in that order
    lateTakes,  \* history: messages taken after the queue was unblocked
    deletes,    \* history: how often each message was deleted
    leaked      \* history: messages msg_q_snd did not take over

vars == <<msg_list, unblocked, destroyed, worker, msg, owner,
          accepted, taken, lateTakes, deletes, leaked>>

(* run: outside msg_q_rcv, about to call it; wait: in pthread_cond_wait;   *)
(* woken: signalled, the loop condition not yet re-read; proc: in          *)
(* msg->proc(); left: the loop has ended, the runnable not yet released;   *)
(* exited: the thread's shared_ptr is gone.                                *)
WorkerStates == {"run", "wait", "woken", "proc", "left", "exited"}

(* alive: MsgTask exists; locked: ~LocThreadDelegate has promoted its      *)
(* weak_ptr; interrupted: it has called interrupt(); gone: it has returned *)
OwnerStates == {"alive", "locked", "interrupted", "gone"}

(* Who holds a shared_ptr<LocRunnable>.                                    *)
WorkerHolds == worker # "exited"
MutantOwnerHoldsNothing == FALSE  \* the destructor does not lock its weak_ptr
OwnerHolds == owner \in {"locked", "interrupted"}

Init == /\ msg_list = <<>>
        /\ unblocked = FALSE
        /\ destroyed = FALSE
        /\ worker = "run"
        /\ msg = NoMsg
        /\ owner = "alive"
        /\ accepted = <<>>
        /\ taken = <<>>
        /\ lateTakes = 0
        /\ deletes = [m \in Msgs |-> 0]
        /\ leaked = {}

Sent(m) == m \in leaked \/ \E i \in DOMAIN accepted : accepted[i] = m

-----------------------------------------------------------------------------
(* MsgTask::sendMsg -> msg_q_snd.  Called by any thread that can reach the *)
(* MsgTask, the worker included, until the owner's destructor returns.     *)

(* The queue has been unblocked, or linked_list_add found no memory: the   *)
(* error is returned to sendMsg, which drops it together with the message. *)
SndRefused(m) ==
    /\ owner # "gone"
    /\ ~Sent(m)
    /\ leaked' = leaked \cup {m}
    /\ worker' = IF ~unblocked /\ worker = "wait" THEN "woken" ELSE worker
    /\ UNCHANGED <<msg_list, unblocked, destroyed, msg, owner, accepted,
                   taken, lateTakes, deletes>>

(* Mutants of SndAccepted: a null pointer gets past the msg_obj check; the *)
(* signal is forgotten; the unblocked check is forgotten.                  *)
MutantSndNull(m) ==
    /\ owner # "gone" /\ ~Sent(m) /\ ~unblocked
    /\ msg_list' = Append(msg_list, NoMsg)
    /\ accepted' = Append(accepted, m)
    /\ worker' = IF worker = "wait" THEN "woken" ELSE worker
    /\ UNCHANGED <<unblocked, destroyed, msg, owner, taken, lateTakes,
                   deletes, leaked>>
MutantSndNoSignal(m) ==
    /\ owner # "gone" /\ ~Sent(m) /\ ~unblocked
    /\ msg_list' = Append(msg_list, m)
    /\ accepted' = Append(accepted, m)
    /\ UNCHANGED <<unblocked, destroyed, worker, msg, owner, taken,
                   lateTakes, deletes, leaked>>
MutantSndUnblocked(m) ==
    /\ owner # "gone" /\ ~Sent(m)
    /\ msg_list' = Append(msg_list, m)
    /\ accepted' = Append(accepted, m)
    /\ worker' = IF worker = "wait" THEN "woken" ELSE worker
    /\ UNCHANGED <<unblocked, destroyed, msg, owner, taken, lateTakes,
                   deletes, leaked>>

(* linked_list_add, then pthread_cond_signal; the worker is the only       *)
(* thread that ever waits.                                                 *)
SndAccepted(m) ==
    /\ owner # "gone"
    /\ ~Sent(m)
    /\ ~unblocked
    /\ msg_list' = Append(msg_list, m)
    /\ accepted' = Append(accepted, m)
    /\ worker' = IF worker = "wait" THEN "woken" ELSE worker
    /\ UNCHANGED <<unblocked, destroyed, msg, owner, taken, lateTakes,
                   deletes, leaked>>

-----------------------------------------------------------------------------
(* MTRunnable::run -> msg_q_rcv.                                           *)

(* Mutants of Take: the newest element is taken; the element is read but   *)
(* not unlinked.                                                           *)
MutantTakeNewest ==
    LET last == Len(msg_list) IN
    /\ msg_list # <<>>
    /\ msg' = msg_list[last]
    /\ msg_list' = SubSeq(msg_list, 1, last - 1)
    /\ taken' = Append(taken, msg_list[last])
    /\ lateTakes' = IF unblocked THEN lateTakes + 1 ELSE lateTakes
    /\ worker' = "proc"
    /\ UNCHANGED <<unblocked, destroyed, owner, accepted, deletes, leaked>>
MutantTakeKeeps ==
    /\ msg_list # <<>>
    /\ msg' = Head(msg_list)
    /\ worker' = "proc"
    /\ UNCHANGED <<msg_list, unblocked, destroyed, owner, accepted, taken,
                   lateTakes, deletes, leaked>>

(* linked_list_remove of the oldest element; run() goes on to proc().      *)
Take ==
    /\ msg_list # <<>>
    /\ msg' = Head(msg_list)
    /\ msg_list' = Tail(msg_list)
    /\ taken' = Append(taken, Head(msg_list))
    /\ lateTakes' = IF unblocked THEN lateTakes + 1 ELSE lateTakes
    /\ worker' = "proc"
    /\ UNCHANGED <<unblocked, destroyed, owner, accepted, deletes, leaked>>

(* An error from msg_q_rcv makes run() return false and ends the loop.     *)
LeaveLoop ==
    /\ worker' = "left"
    /\ UNCHANGED <<msg_list, unblocked, destroyed, msg, owner, accepted,
                   taken, lateTakes, deletes, leaked>>

CondWait ==
    /\ msg_list = <<>>
    /\ ~unblocked
    /\ worker' = "wait"
    /\ UNCHANGED <<msg_list, unblocked, destroyed, msg, owner, accepted,
                   taken, lateTakes, deletes, leaked>>

(* The first look under the mutex: an unblocked queue is refused outright, *)
(* even when messages are left in it.                                      *)
RcvRefused == worker = "run" /\ unblocked /\ LeaveLoop
RcvTake    == worker = "run" /\ ~unblocked /\ Take
RcvWait    == worker = "run" /\ CondWait

(* The while condition again, after pthread_cond_wait returned.  There the *)
(* flag only ends the wait: a message still in the list is taken.          *)
WokenTake  == worker = "woken" /\ Take
WokenWait  == worker = "woken" /\ CondWait
WokenLeave == worker = "woken" /\ msg_list = <<>> /\ unblocked /\ LeaveLoop

(* POSIX lets pthread_cond_wait return without a signal.                   *)
SpuriousWakeup ==
    /\ worker = "wait"
    /\ worker' = "woken"
    /\ UNCHANGED <<msg_list, unblocked, destroyed, msg, owner, accepted,
                   taken, lateTakes, deletes, leaked>>

(* msg->proc() returns, the message is deleted, run() returns true.        *)
ProcDone ==
    /\ worker = "proc"
    /\ deletes' = [deletes EXCEPT ![msg] = @ + 1]
    /\ msg' = NoMsg
    /\ worker' = "run"
    /\ UNCHANGED <<msg_list, unblocked, destroyed, owner, accepted, taken,
                   lateTakes, leaked>>

-----------------------------------------------------------------------------
(* Releasing a shared_ptr<LocRunnable>: the last holder runs ~MTRunnable,  *)
(* which flushes the list (deleting what is in it) and frees the queue.    *)
Release(lastHolder) ==
    IF lastHolder
    THEN /\ deletes' = [m \in Msgs |->
                          IF \E i \in DOMAIN msg_list : msg_list[i] = m
                          THEN deletes[m] + 1 ELSE deletes[m]]
         /\ msg_list' = <<>>
         /\ destroyed' = TRUE
    ELSE UNCHANGED <<deletes, msg_list, destroyed>>

(* The thread's lambda ends, and with it its copy of the shared_ptr.       *)
ThreadExit ==
    /\ worker = "left"
    /\ worker' = "exited"
    /\ Release(~OwnerHolds)
    /\ UNCHANGED <<unblocked, msg, owner, accepted, taken, lateTakes, leaked>>

(* LocThread::stop deletes the delegate: mRunnable.lock().                 *)
StopLock ==
    /\ owner = "alive"
    /\ owner' = IF WorkerHolds THEN "locked" ELSE "gone"
    /\ UNCHANGED <<msg_list, unblocked, destroyed, worker, msg, accepted,
                   taken, lateTakes, deletes, leaked>>

(* Mutant of StopInterrupt: the flag is set, the broadcast forgotten.      *)
MutantUnblockNoBroadcast ==
    /\ owner = "locked"
    /\ owner' = "interrupted"
    /\ unblocked' = TRUE
    /\ UNCHANGED <<msg_list, destroyed, worker, msg, accepted, taken,
                   lateTakes, deletes, leaked>>

(* runnable->interrupt() -> msg_q_unblock: set the flag and broadcast.     *)
StopInterrupt ==
    /\ owner = "locked"
    /\ owner' = "interrupted"
    /\ unblocked' = TRUE
    /\ worker' = IF worker = "wait" THEN "woken" ELSE worker
    /\ UNCHANGED <<msg_list, destroyed, msg, accepted, taken, lateTakes,
                   deletes, leaked>>

(* The local shared_ptr of ~LocThreadDelegate goes out of scope.           *)
StopReturn ==
    /\ owner = "interrupted"
    /\ owner' = "gone"
    /\ Release(~WorkerHolds)
    /\ UNCHANGED <<unblocked, worker, msg, accepted, taken, lateTakes, leaked>>

-----------------------------------------------------------------------------
Worker == \/ RcvRefused \/ RcvTake \/ RcvWait
          \/ WokenTake \/ WokenWait \/ WokenLeave
          \/ ProcDone \/ ThreadExit

Owner == StopInterrupt \/ StopReturn

Next == \/ \E m \in Msgs : SndRefused(m) \/ SndAccepted(m)
        \/ Worker
        \/ SpuriousWakeup
        \/ StopLock
        \/ Owner

Spec == Init /\ [][Next]_vars

(* The worker thread is scheduled and its message handlers return; a       *)
(* destructor that has begun goes on.  Nobody has to stop the task.        *)
FairSpec == Spec /\ WF_vars(Worker) /\ WF_vars(Owner)

-----------------------------------------------------------------------------
(* Types of all variables.                                                 *)
TypeOK ==
    /\ msg_list \in Seq(Msgs)
    /\ unblocked \in BOOLEAN
    /\ destroyed \in BOOLEAN
    /\ worker \in WorkerStates
    /\ msg \in Msgs \cup {NoMsg}
    /\ owner \in OwnerStates
    /\ accepted \in Seq(Msgs)
    /\ taken \in Seq(Msgs)
    /\ lateTakes \in Nat
    /\ deletes \in [Msgs -> Nat]
    /\ leaked \in SUBSET Msgs

(* FIFO across the whole life of the queue: what the worker was given is   *)
(* the beginning of what was accepted, and until the queue is destroyed    *)
(* the rest is exactly the list (msg_q_snd adds at the head, msg_q_rcv     *)
(* takes at the tail).                                                     *)
Fifo ==
    /\ ~destroyed => accepted = taken \o msg_list
    /\ Len(taken) <= Len(accepted)
    /\ \A i \in 1 .. Len(taken) : taken[i] = accepted[i]

(* Nobody is inside the queue, or can still enter it, once it is freed:    *)
(* the delegate's temporary shared_ptr keeps it alive across msg_q_unblock *)
(* and the thread's own across msg_q_rcv.                                  *)
DestroyedLast == destroyed => worker = "exited" /\ owner = "gone"

(* An interrupted task starts at most one more message, the one it was     *)
(* woken for; whatever else is queued is flushed, not run.                 *)
AtMostOneLate == lateTakes <= 1

(* Every accepted message has exactly one fate: in the list, in hand, or   *)
(* deleted, and deleted once (by run() or by the flush, never by both).    *)
SingleOwner ==
    \A m \in Msgs :
        LET queued == \E i \in DOMAIN msg_list : msg_list[i] = m
            linked == \E i \in DOMAIN accepted : accepted[i] = m
        IN  /\ linked => \/ deletes[m] = 0 /\ queued /\ msg # m
                         \/ deletes[m] = 0 /\ ~queued /\ msg = m
                         \/ deletes[m] = 1 /\ ~queued /\ msg # m
            /\ ~linked => deletes[m] = 0 /\ ~queued /\ msg # m

(* No lost wakeup: the worker never sleeps on a queue that has a message   *)
(* or has been unblocked.                                                  *)
NoLostWakeup == worker = "wait" => msg_list = <<>> /\ ~unblocked

(* Every message msg_q_snd accepted is deleted in the end, after its       *)
(* proc() or by the flush (a refused one never is: sendMsg ignores         *)
(* msg_q_snd's error and keeps no reference, see leaked).                  *)
AcceptedIsDeleted ==
    \A m \in Msgs :
        (\E i \in DOMAIN accepted : accepted[i] = m) ~> deletes[m] = 1

(* A stopped task winds up: the thread leaves and the queue is freed.      *)
StopFreesQueue == (owner # "alive") ~> destroyed

(* Nothing a task was given outlives it: neither an accepted message nor,  *)
(* after the stop, the queue itself.                                       *)
NothingLeaks == AcceptedIsDeleted /\ StopFreesQueue

(* The queue, the thread and the interrupt together behave as a serial     *)
(* executor.                                                               *)
Executor == INSTANCE SerialExecutor WITH
                pending <- msg_list,
                running <- msg,
                closed <- unblocked,
                late <- lateTakes
ExecutorSpec == Executor!Spec
=============================================================================
