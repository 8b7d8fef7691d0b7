--------------------------- MODULE SerialExecutor ---------------------------
(***************************************************************************)
(* What every client of MsgTask (gps/utils/MsgTask.h) relies on: one       *)
(* thread runs the accepted messages one at a time, in the order in which  *)
(* they were accepted; after the task is closed nothing is accepted any    *)
(* more, at most one further message is started, and the rest is discarded *)
(* together.  No thread, lock or condition variable appears here.          *)
(***************************************************************************)
EXTENDS Sequences, Naturals

CONSTANTS Msgs,   \* the LocMsg objects clients may submit
          NoMsg   \* stands for "no message in hand"

VARIABLES pending,  \* accepted, not yet started, oldest first
          running,  \* the message being processed, or NoMsg
          closed,   \* the task has been told to stop
          late      \* messages started since then

vars == <<pending, running, closed, late>>

Init == /\ pending = <<>>
        /\ running = NoMsg
        /\ closed = FALSE
        /\ late = 0

Accept == /\ ~closed
          /\ \E m \in Msgs : pending' = Append(pending, m)
          /\ UNCHANGED <<running, closed, late>>

Start == /\ running = NoMsg
         /\ pending # <<>>
         /\ running' = Head(pending)
         /\ pending' = Tail(pending)
         /\ IF closed THEN late = 0 /\ late' = 1 ELSE late' = late
         /\ UNCHANGED closed

Finish == /\ running # NoMsg
          /\ running' = NoMsg
          /\ UNCHANGED <<pending, closed, late>>

Close == /\ ~closed
         /\ closed' = TRUE
         /\ UNCHANGED <<pending, running, late>>

Discard == /\ closed
           /\ running = NoMsg
           /\ pending' = <<>>
           /\ UNCHANGED <<running, closed, late>>

Next == Accept \/ Start \/ Finish \/ Close \/ Discard

Spec == Init /\ [][Next]_vars
=============================================================================
