----------------------------- MODULE BoundedFifo -----------------------------
(***************************************************************************)
(* What a SafeQueuee promises its users: a first-in first-out queue that   *)
(* never holds more elements than its limit.  Nothing is said of threads,  *)
(* mutexes or condition variables; SafeQueue implements this module.       *)
(***************************************************************************)
EXTENDS Naturals, Sequences

CONSTANTS
  Elements,    (* the values a user may put                                *)
  InitialLimit (* the capacity the queue is constructed with               *)

VARIABLES
  fifo,        (* the elements held, oldest first                          *)
  limit        (* the capacity                                             *)

fifoVars == <<fifo, limit>>

FifoInit ==
  /\ fifo = <<>>
  /\ limit = InitialLimit

Put(x) ==
  /\ Len(fifo) < limit
  /\ fifo' = Append(fifo, x)
  /\ UNCHANGED limit

Take ==
  /\ fifo # <<>>
  /\ fifo' = Tail(fifo)
  /\ UNCHANGED limit

Purge ==
  /\ fifo' = <<>>
  /\ UNCHANGED limit

\* The capacity never drops below what the queue already holds.
Resize ==
  /\ limit' \in Nat \ {0}
  /\ Len(fifo) <= limit'
  /\ UNCHANGED fifo

FifoNext ==
  \/ \E x \in Elements : Put(x)
  \/ Take
  \/ Purge
  \/ Resize

FifoSpec == FifoInit /\ [][FifoNext]_fifoVars

=============================================================================
