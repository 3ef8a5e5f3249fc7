------------------------------ MODULE BulkFifo ------------------------------
(***************************************************************************)
(* What the bulk buffer promises its users: a bounded first-in first-out   *)
(* queue.  A byte offered to a full queue is dropped, and then the         *)
(* overflow flag stands until the queue is opened again; no byte is lost,  *)
(* duplicated or reordered without it.                                     *)
(***************************************************************************)
EXTENDS Integers, Sequences

CONSTANTS
    Item,           \* what the queue carries
    Capacities      \* the capacities it can be opened with; 0 closes it

VARIABLES
    queue,          \* items accepted and not yet taken, oldest first
    capacity,       \* how many fit
    overflow,       \* an item has been dropped since the queue was opened
    out             \* the items taken last: <<>> or one item

fifoVars == <<queue, capacity, overflow, out>>

FifoInit == /\ queue = <<>>
            /\ capacity = 0
            /\ overflow = FALSE
            /\ out = <<>>

\* Opening (or closing, with no room) forgets what was in the queue.
Open(c) == /\ queue' = <<>>
           /\ capacity' = c
           /\ overflow' = FALSE
           /\ out' = <<>>

Put(x) == /\ Len(queue) < capacity
          /\ queue' = Append(queue, x)
          /\ UNCHANGED <<capacity, overflow, out>>

Drop == /\ Len(queue) >= capacity
        /\ overflow' = TRUE
        /\ UNCHANGED <<queue, capacity, out>>

Take == /\ queue # <<>>
        /\ out' = <<Head(queue)>>
        /\ queue' = Tail(queue)
        /\ UNCHANGED <<capacity, overflow>>

FifoNext == \/ \E c \in Capacities : Open(c)
            \/ \E x \in Item : Put(x)
            \/ Drop
            \/ Take

FifoSpec == FifoInit /\ [][FifoNext]_fifoVars
=============================================================================
