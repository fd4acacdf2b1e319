---------------------------- MODULE TimerService ----------------------------
(***************************************************************************)
(* What the timer service promises about a task, and nothing about lists,  *)
(* locks and threads: its function is called while it is due, one call at  *)
(* a time, not after it said it was the last time and not after the task   *)
(* was cancelled; a task is cancelled once, and its record is given back   *)
(* once, outside its calls and never before it was cancelled, unless it    *)
(* had not been started when the service stopped.  The service stops only  *)
(* when every task it started is cancelled.                                *)
(***************************************************************************)
CONSTANT Tasks

VARIABLES
  phase,      (* of each task: none, made, listed, due, called or freed     *)
  over,       (* the tasks that said they were called for the last time     *)
  cancelled,
  stopped     (* the service has stopped                                    *)

serviceVars == <<phase, over, cancelled, stopped>>

Init ==
  /\ phase = [t \in Tasks |-> "none"]
  /\ over = {} /\ cancelled = {} /\ stopped = FALSE

Goes(t, from, to) == phase[t] = from /\ phase' = [phase EXCEPT ![t] = to]

\* All tasks that wait in the list go from it at once.
AllListed(to) == phase' = [t \in Tasks |-> IF phase[t] = "listed" THEN to ELSE phase[t]]

Make(t) == Goes(t, "none", "made") /\ UNCHANGED <<over, cancelled, stopped>>
List(t) == Goes(t, "made", "listed") /\ UNCHANGED <<over, cancelled, stopped>>
Start   == AllListed("due") /\ UNCHANGED <<over, cancelled, stopped>>

Call(t) ==
  /\ t \notin over \cup cancelled
  /\ Goes(t, "due", "called")
  /\ UNCHANGED <<over, cancelled, stopped>>

CallEnds(t) ==
  /\ Goes(t, "called", "due")
  /\ over' \in {over, over \cup {t}}
  /\ UNCHANGED <<cancelled, stopped>>

Cancel(t) ==
  /\ phase[t] \in {"due", "called"} /\ t \notin cancelled
  /\ cancelled' = cancelled \cup {t}
  /\ UNCHANGED <<phase, over, stopped>>

Free(t) ==
  /\ t \in cancelled
  /\ Goes(t, "due", "freed")
  /\ UNCHANGED <<over, cancelled, stopped>>

Stop ==
  /\ ~stopped /\ stopped' = TRUE
  /\ \A t \in Tasks : phase[t] \in {"due", "called"} => t \in cancelled
  /\ AllListed("freed")
  /\ UNCHANGED <<over, cancelled>>

Next ==
  \/ \E t \in Tasks :
       Make(t) \/ List(t) \/ Call(t) \/ CallEnds(t) \/ Cancel(t) \/ Free(t)
  \/ Start \/ Stop

Spec == Init /\ [][Next]_serviceVars

=============================================================================
