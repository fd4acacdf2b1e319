----------------------------- MODULE MCSafeQueue -----------------------------
(***************************************************************************)
(* SafeQueue for model checking: the threads and capacities of an instance *)
(* are model values and numbers given in SafeQueue.cfg.                    *)
(***************************************************************************)
EXTENDS SafeQueue

=============================================================================
