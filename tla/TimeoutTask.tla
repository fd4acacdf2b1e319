----------------------------- MODULE TimeoutTask -----------------------------
(***************************************************************************)
(* The timer service of the SDK (ipc_timeout_task.c): callers add and      *)
(* remove tasks through two lists that a checker thread works off, and     *)
(* every running task is a detached thread that sleeps, calls its function *)
(* and in the end frees its own record.                                    *)
(*                                                                         *)
(* The lists are only touched under one mutex, but a task's thread reads   *)
(* `cancel' and frees the record without it: that is why cancelling and    *)
(* unlinking are two steps here.  What the list macros do with a record    *)
(* that is already freed is not defined; the model stops there.            *)
(***************************************************************************)
EXTENDS Integers

CONSTANTS
  Users,        (* threads that call the add and remove functions          *)
  MaxTasks,     (* bound: tasks ever added                                  *)
  Cells,        (* the addresses calloc() may give a record                 *)
  None          (* no task, no address                                      *)

Tasks == 1..MaxTasks

ASSUME TimeoutAssumption ==
  /\ MaxTasks \in Nat
  /\ None \notin Tasks /\ None \notin Cells

VARIABLES
  running, update,      (* the two flags of timer_tasks                     *)
  lock,                 (* who holds timer_tasks.lock                       *)
  pending, living,      (* the lists of tasks                               *)
  removing,             (* the list of removals: whose id, asked by whom    *)
  check,                (* where check_task() is                            *)
  deinit,               (* where the caller of ipc_timeout_task_deinit() is *)
  victim,               (* the task cancelled and not yet unlinked          *)
  user,                 (* where each caller is, and with which task        *)
  ids,                  (* tasks whose id their caller still has            *)
  addr,                 (* the address of each task, which is its id        *)
  cancel,               (* tasks whose flag `cancel' is set                 *)
  tpc,                  (* where the thread of each task is                 *)
  valid,                (* tasks whose thread has next_valid                *)
  freed,                (* tasks whose record was freed                     *)
  asked,                (* history: every removal asked for; with "self"    *)
                        (* it is the thread's waiting_remove                *)
  late,                 (* history: tasks listed after deinit had cleared   *)
  undefined             (* a freed record was unlinked                      *)

listVars  == <<pending, living, removing>>
taskVars  == <<cancel, tpc, valid>>
vars == <<running, update, lock, listVars, check, deinit, victim, user, ids, addr,
          taskVars, freed, asked, late, undefined>>

Idle == [at |-> "idle", task |-> None]
Allocated == {t \in Tasks : addr[t] # None}
InUse == {addr[t] : t \in Allocated \ freed}

\* ipc_timeout_task_init() has been called.
Init ==
  /\ running = TRUE /\ update = FALSE /\ lock = "free"
  /\ pending = {} /\ living = {} /\ removing = {}
  /\ check = "test" /\ deinit = "up" /\ victim = None
  /\ user = [u \in Users |-> Idle]
  /\ ids = {}
  /\ addr = [t \in Tasks |-> None]
  /\ cancel = {} /\ valid = {} /\ freed = {}
  /\ tpc = [t \in Tasks |-> "none"]
  /\ asked = {} /\ late = {} /\ undefined = FALSE

-----------------------------------------------------------------------------
(* A caller: ipc_timeout_task_add(), ipc_onetime_task_add() and            *)
(* ipc_timeout_task_remove()                                               *)

\* `running' is read without the lock; calloc() may reuse a freed record.
TaskAdd(u, t) ==
  /\ user[u].at = "idle" /\ running
  /\ t \notin Allocated /\ \A s \in Tasks : s < t => s \in Allocated
  /\ \E a \in Cells \ InUse : addr' = [addr EXCEPT ![t] = a]
  /\ user' = [user EXCEPT ![u] = [at |-> "insert", task |-> t]]
  /\ UNCHANGED <<running, update, lock, listVars, check, deinit, victim, ids,
                 cancel, tpc, valid, freed, asked, late, undefined>>

TaskInsert(u) ==
  /\ user[u].at = "insert" /\ lock = "free"
  /\ LET t == user[u].task IN
       /\ pending' = pending \cup {t}
       /\ late' = IF running THEN late ELSE late \cup {t}
  /\ update' = TRUE
  /\ user' = [user EXCEPT ![u].at = "return"]
  /\ UNCHANGED <<running, lock, living, removing, check, deinit, victim, ids, addr,
                 taskVars, freed, asked, undefined>>

\* `return info->id' reads the record again, which may be gone and its memory
\* just cleared for another.
TaskReturn(u) ==
  /\ user[u].at = "return"
  /\ LET t == user[u].task IN
       \/ ids' = ids \cup {t}
       \/ t \in freed /\ UNCHANGED ids
  /\ user' = [user EXCEPT ![u] = Idle]
  /\ UNCHANGED <<running, update, lock, listVars, check, deinit, victim, addr,
                 taskVars, freed, asked, late, undefined>>

TaskRemove(u, t) ==
  /\ user[u].at = "idle" /\ running
  /\ t \in ids
  /\ ids' = ids \ {t}
  /\ user' = [user EXCEPT ![u] = [at |-> "remove", task |-> t]]
  /\ UNCHANGED <<running, update, lock, listVars, check, deinit, victim, addr,
                 taskVars, freed, asked, late, undefined>>

\* insert_task_to_list() into `removing', by a caller or by the task itself.
Ask(t, who) ==
  /\ lock = "free"
  /\ removing' = removing \cup {[of |-> t, by |-> who]}
  /\ asked' = asked \cup {[of |-> t, by |-> who]}
  /\ update' = TRUE

RemoveInsert(u) ==
  /\ user[u].at = "remove"
  /\ Ask(user[u].task, "user")
  /\ user' = [user EXCEPT ![u] = Idle]
  /\ UNCHANGED <<running, lock, pending, living, check, deinit, victim, ids, addr,
                 taskVars, freed, late, undefined>>

-----------------------------------------------------------------------------
(* check_task()                                                            *)

CheckTest ==
  /\ check = "test"
  /\ check' = IF running THEN "wait" ELSE "done"
  /\ UNCHANGED <<running, update, lock, listVars, deinit, victim, user, ids, addr,
                 taskVars, freed, asked, late, undefined>>

\* Mutant: a pending task is started but not entered among the living.
CheckBeginUnlisted ==
  /\ check = "wait" /\ lock = "free" /\ update
  /\ update' = FALSE /\ lock' = "check"
  /\ pending' = {}
  /\ tpc' = [t \in Tasks |-> IF t \in pending THEN "sleep" ELSE tpc[t]]
  /\ valid' = valid \cup pending
  /\ check' = "remove"
  /\ UNCHANGED <<running, living, removing, deinit, victim, user, ids, addr, cancel, freed, asked, late, undefined>>

\* The wait on the condition variable ends with the lock held; every pending
\* task becomes a living one and gets its thread.
CheckBegin ==
  /\ check = "wait" /\ lock = "free" /\ update
  /\ update' = FALSE /\ lock' = "check"
  /\ living' = living \cup pending
  /\ pending' = {}
  /\ tpc' = [t \in Tasks |-> IF t \in pending THEN "sleep" ELSE tpc[t]]
  /\ valid' = valid \cup pending
  /\ check' = "remove"
  /\ UNCHANGED <<running, removing, deinit, victim, user, ids, addr, cancel,
                 freed, asked, late, undefined>>

\* The living tasks a removal of t finds: it compares ids, that is addresses.
Found(t) == {s \in living : addr[s] = addr[t]}

\* One entry of `removing': cancel the task it finds, if any, and free the entry.
CheckCancel ==
  /\ check = "remove" /\ victim = None
  /\ \E r \in removing :
       /\ removing' = removing \ {r}
       /\ \/ Found(r.of) = {} /\ UNCHANGED <<cancel, victim>>
          \/ \E t \in Found(r.of) : cancel' = cancel \cup {t} /\ victim' = t
  /\ UNCHANGED <<running, update, lock, pending, living, check, deinit, user, ids,
                 addr, tpc, valid, freed, asked, late, undefined>>

\* LIST_REMOVE() of the task just cancelled, whose thread may have freed it.
Unlink ==
  /\ living' = living \ {victim}
  /\ victim' = None
  /\ undefined' = (victim \in freed)

CheckUnlink ==
  /\ check = "remove" /\ victim # None
  /\ Unlink
  /\ UNCHANGED <<running, update, lock, pending, removing, check, deinit, user, ids,
                 addr, taskVars, freed, asked, late>>

CheckEnd ==
  /\ check = "remove" /\ victim = None /\ removing = {}
  /\ lock' = "free"
  /\ check' = "test"
  /\ UNCHANGED <<running, update, listVars, deinit, victim, user, ids, addr, taskVars,
                 freed, asked, late, undefined>>

-----------------------------------------------------------------------------
(* timer_process(): the thread of task t                                   *)

\* select() returns; the function is called unless the task is cancelled or over.
Wake(t) ==
  /\ tpc[t] = "sleep"
  /\ tpc' = [tpc EXCEPT ![t] = IF t \notin cancel /\ t \in valid
                               THEN "call" ELSE "tested"]
  /\ UNCHANGED <<running, update, lock, listVars, check, deinit, victim, user, ids,
                 addr, cancel, valid, freed, asked, late, undefined>>

\* The function answers whether it wants to be called again; the answer of a
\* one-time task counts as no.
Called(t, next) ==
  /\ tpc[t] = "call"
  /\ valid' = IF next THEN valid ELSE valid \ {t}
  /\ tpc' = [tpc EXCEPT ![t] = "tested"]
  /\ UNCHANGED <<running, update, lock, listVars, check, deinit, victim, user, ids,
                 addr, cancel, freed, asked, late, undefined>>

WaitingRemove(t) == [of |-> t, by |-> "self"] \in asked

\* Mutant: waiting_remove is not looked at.
TestedAgain(t) ==
  /\ tpc[t] = "tested"
  /\ tpc' = [tpc EXCEPT ![t] = IF t \in cancel THEN "exit"
                               ELSE IF t \notin valid THEN "request" ELSE "sleep"]
  /\ UNCHANGED <<running, update, lock, listVars, check, deinit, victim, user, ids,
                 addr, cancel, valid, freed, asked, late, undefined>>

\* `cancel' is read a second time, after the call.
Tested(t) ==
  /\ tpc[t] = "tested"
  /\ tpc' = [tpc EXCEPT ![t] = IF t \in cancel THEN "exit"
                               ELSE IF t \notin valid /\ ~WaitingRemove(t)
                                    THEN "request" ELSE "sleep"]
  /\ UNCHANGED <<running, update, lock, listVars, check, deinit, victim, user, ids,
                 addr, cancel, valid, freed, asked, late, undefined>>

\* Mutant: a task that is over leaves its loop instead of asking to be removed.
RequestExits(t) ==
  /\ tpc[t] = "request"
  /\ tpc' = [tpc EXCEPT ![t] = "exit"]
  /\ UNCHANGED <<running, update, lock, listVars, check, deinit, victim, user, ids,
                 addr, cancel, valid, freed, asked, late, undefined>>

\* A task that is over asks to be removed.
Request(t) ==
  /\ tpc[t] = "request"
  /\ Ask(t, "self")
  /\ tpc' = [tpc EXCEPT ![t] = "sleep"]
  /\ UNCHANGED <<running, lock, pending, living, check, deinit, victim, user, ids,
                 addr, cancel, valid, freed, late, undefined>>

\* Out of the loop: free(info).
Exit(t) ==
  /\ tpc[t] = "exit"
  /\ tpc' = [tpc EXCEPT ![t] = "gone"]
  /\ freed' = freed \cup {t}
  /\ UNCHANGED <<running, update, lock, listVars, check, deinit, victim, user, ids,
                 addr, cancel, valid, asked, late, undefined>>

-----------------------------------------------------------------------------
(* ipc_timeout_task_deinit()                                               *)

\* Mutant: the lists are cleared without the lock.
DeinitBeginUnlocked ==
  /\ deinit = "up"
  /\ deinit' = "clear"
  /\ UNCHANGED <<running, update, lock, listVars, check, victim, user, ids, addr,
                 taskVars, freed, asked, late, undefined>>

DeinitBegin ==
  /\ deinit = "up" /\ lock = "free"
  /\ lock' = "deinit"
  /\ deinit' = "clear"
  /\ UNCHANGED <<running, update, listVars, check, victim, user, ids, addr, taskVars,
                 freed, asked, late, undefined>>

DeinitCancel ==
  /\ deinit = "clear" /\ victim = None
  /\ \E t \in living : cancel' = cancel \cup {t} /\ victim' = t
  /\ UNCHANGED <<running, update, lock, listVars, check, deinit, user, ids, addr,
                 tpc, valid, freed, asked, late, undefined>>

DeinitUnlink ==
  /\ deinit = "clear" /\ victim # None
  /\ Unlink
  /\ UNCHANGED <<running, update, lock, pending, removing, check, deinit, user, ids,
                 addr, taskVars, freed, asked, late>>

\* Mutant: the pending tasks are left in their list.
DeinitClearLeavesPending ==
  /\ deinit = "clear" /\ victim = None /\ living = {}
  /\ removing' = {}
  /\ running' = FALSE /\ update' = TRUE /\ lock' = "free"
  /\ deinit' = "join"
  /\ UNCHANGED <<pending, freed, living, check, victim, user, ids, addr, taskVars,
                 asked, late, undefined>>

\* No living task is left: free the rest and stop the checker.
DeinitClear ==
  /\ deinit = "clear" /\ victim = None /\ living = {}
  /\ freed' = freed \cup pending /\ pending' = {}
  /\ removing' = {}
  /\ running' = FALSE /\ update' = TRUE /\ lock' = "free"
  /\ deinit' = "join"
  /\ UNCHANGED <<living, check, victim, user, ids, addr, taskVars, asked, late,
                 undefined>>

DeinitJoin ==
  /\ deinit = "join" /\ check = "done"
  /\ deinit' = "done"
  /\ UNCHANGED <<running, update, lock, listVars, check, victim, user, ids, addr,
                 taskVars, freed, asked, late, undefined>>

-----------------------------------------------------------------------------
Finish(u)  == TaskInsert(u) \/ TaskReturn(u) \/ RemoveInsert(u)
Checker    == CheckTest \/ CheckBegin \/ CheckCancel \/ CheckUnlink \/ CheckEnd
Timer(t)   == \/ Wake(t) \/ Tested(t) \/ Request(t) \/ Exit(t)
              \/ \E next \in BOOLEAN : Called(t, next)
Stopping   == DeinitCancel \/ DeinitUnlink \/ DeinitClear \/ DeinitJoin

Next ==
  /\ ~undefined
  /\ \/ \E u \in Users, t \in Tasks :
          TaskAdd(u, t) \/ TaskRemove(u, t)
     \/ \E u \in Users : Finish(u)
     \/ Checker
     \/ \E t \in Tasks : Timer(t)
     \/ DeinitBegin \/ Stopping

Spec == Init /\ [][Next]_vars

(***************************************************************************)
(* Every thread that is past a call into the service, or belongs to it,    *)
(* keeps running, and the functions of the tasks return.  A thread that    *)
(* waits for the mutex gets it: strong fairness where it is contended.     *)
(***************************************************************************)
Fairness ==
  /\ \A u \in Users : SF_vars(~undefined /\ Finish(u))
  /\ SF_vars(~undefined /\ Checker)
  /\ \A t \in Tasks : SF_vars(~undefined /\ Timer(t))
  /\ WF_vars(~undefined /\ Stopping)

FairSpec == Spec /\ Fairness

-----------------------------------------------------------------------------
(* Properties                                                              *)

Places == {"none", "sleep", "call", "tested", "request", "exit", "gone"}

\* The type invariant; the lock is with the thread that is inside its critical
\* section, and only there a task is half removed.
TypeOK ==
  /\ running \in BOOLEAN /\ update \in BOOLEAN /\ undefined \in BOOLEAN
  /\ lock \in {"free", "check", "deinit"}
  /\ pending \subseteq Allocated /\ living \subseteq Allocated
  /\ removing \subseteq asked
  /\ asked \subseteq [of : Allocated, by : {"user", "self"}]
  /\ check \in {"test", "wait", "remove", "done"}
  /\ deinit \in {"up", "clear", "join", "done"}
  /\ victim \in Tasks \cup {None}
  /\ user \in [Users -> [at : {"idle", "insert", "return", "remove"},
                         task : Tasks \cup {None}]]
  /\ \A u \in Users : user[u].at # "idle" => user[u].task \in Allocated
  /\ ids \subseteq Allocated
  /\ cancel \subseteq Allocated /\ valid \subseteq Allocated
  /\ freed \subseteq Allocated /\ late \subseteq Allocated
  /\ addr \in [Tasks -> Cells \cup {None}]
  /\ tpc \in [Tasks -> Places]
  /\ \A t \in Tasks : tpc[t] # "none" => t \in Allocated
  /\ lock = "check" <=> check = "remove"
  /\ lock = "deinit" <=> deinit = "clear"
  /\ victim # None => lock # "free"

\* A record that is still linked in a list is not freed, but for the one task
\* that was cancelled and is about to be unlinked: its thread needs no lock to
\* free it in between.  No other order of removals, deinit and threads that end
\* leaves a dangling pointer in a list.
LinkedIsAllocated == (pending \cup living) \cap freed \subseteq {victim}

AskedBy(t, who) == [of |-> t, by |-> who] \in asked

\* While the service is up, a task is cancelled because it ended, because its
\* caller removed it, or because an earlier task at its address was removed
\* twice: when its caller removes a task that ends by itself at the same time,
\* the second removal finds whatever task has the address by then.
MisdirectedOnlyIfRemovedTwice ==
  deinit = "up" =>
    \A t \in cancel :
      \/ AskedBy(t, "user") \/ AskedBy(t, "self")
      \/ \E s \in Tasks :
           s < t /\ addr[s] = addr[t] /\ AskedBy(s, "user") /\ AskedBy(s, "self")

\* After ipc_timeout_task_deinit() has returned no task calls its function any
\* more, except for a call begun before, and for a task whose caller found the
\* service running and listed it after deinit had cleared the lists.
QuietAfterDeinit ==
  deinit = "done" =>
    \A t \in Tasks : tpc[t] \in {"sleep", "call", "tested"} /\ t \notin late => t \in cancel

\* The service's view of a task.
PhaseOf(t) ==
  IF t \in freed THEN "freed"
  ELSE IF tpc[t] = "call" THEN "called"
  ELSE IF tpc[t] # "none" THEN "due"
  ELSE IF t \in pending THEN "listed"
  ELSE IF addr[t] # None THEN "made" ELSE "none"

Phase == [t \in Tasks |-> PhaseOf(t)]
Over == {t \in Tasks : tpc[t] # "none" /\ t \notin valid}
Stopped == deinit \in {"join", "done"}

Service == INSTANCE TimerService WITH
  phase <- Phase, over <- Over, cancelled <- cancel, stopped <- Stopped

\* However callers, checker, timers and deinit interleave, the two lists and the
\* threads are a timer service: no task is called after it was cancelled or said
\* it was over, none is cancelled or freed twice or freed in a call, and deinit
\* leaves none behind that it could have cancelled.
ImplementsService == Service!Spec

\* Nothing the checker still has to do is forgotten while it waits: what is in its
\* lists and a deinit that waits for it have set `update', and a task that is over
\* and sleeps has its removal in the list or was cancelled.
NothingOverlooked ==
  /\ pending # {} \/ (removing # {} /\ check # "remove") => update
  /\ deinit = "join" /\ check = "wait" => update
  /\ \A t \in Over : tpc[t] = "sleep" =>
       t \in cancel \/ [of |-> t, by |-> "self"] \in removing

\* ipc_timeout_task_deinit() returns, whatever the checker is doing when it begins.
DeinitReturns == (deinit # "up") ~> (deinit = "done" \/ undefined)

\* A task whose function does not want to be called again is freed in the end,
\* by the checker or by deinit.
FinishedIsFreed ==
  \A t \in Tasks :
    (tpc[t] # "none" /\ t \notin valid) ~> (t \in freed \cup late \/ undefined)

\* Both: nothing the service waits for stays away for ever.
EverythingEnds == DeinitReturns /\ FinishedIsFreed

=============================================================================
