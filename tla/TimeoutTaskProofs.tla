-------------------------- MODULE TimeoutTaskProofs --------------------------
(***************************************************************************)
(* Proofs about TimeoutTask, for any callers, number of tasks and          *)
(* addresses.                                                              *)
(***************************************************************************)
EXTENDS TimeoutTask, TLAPS

\* What the callers hold: the task of a call in progress is allocated, nobody
\* else's, and was not removed by a caller before.
Callers ==
  /\ \A u \in Users : user[u].at # "idle" =>
       /\ user[u].task \in Allocated \ ids
       /\ ~AskedBy(user[u].task, "user")
       /\ \A v \in Users \ {u} : user[v].at # "idle" => user[v].task # user[u].task
  /\ \A t \in ids : ~AskedBy(t, "user")

\* A record its caller has not entered yet.
Fresh ==
  \A u \in Users : user[u].at = "insert" =>
    /\ user[u].task \notin pending \cup freed
    /\ tpc[user[u].task] = "none"

\* Where the record of task t may be.
Place(t) ==
  /\ t \in pending => tpc[t] = "none" /\ t \notin freed
  /\ tpc[t] \in {"exit", "gone"} => t \in cancel
  /\ t \in cancel => tpc[t] # "none"
  /\ tpc[t] # "none" => t \in living \cup cancel
  /\ t \in living => tpc[t] # "none" /\ (t \in cancel => t = victim)
  /\ t \in freed => tpc[t] = "gone" \/ (tpc[t] = "none" /\ deinit \in {"join", "done"})
  /\ tpc[t] = "request" => ~AskedBy(t, "self")

Records ==
  /\ \A t \in Tasks : Place(t)
  /\ victim # None => victim \in living \cap cancel

Down == deinit \in {"join", "done"} => ~running /\ pending \cup living \subseteq late

\* Tasks are allocated in their order, at the addresses of freed ones only.
Addresses ==
  \A s, t \in Tasks : s < t /\ t \in Allocated =>
    s \in Allocated /\ (addr[s] = addr[t] => s \in freed)

Both(t) == AskedBy(t, "user") /\ AskedBy(t, "self")
Misled(t) == \E s \in Tasks : s < t /\ addr[s] = addr[t] /\ Both(s)

Cause ==
  deinit = "up" =>
    /\ \A t \in cancel : AskedBy(t, "user") \/ AskedBy(t, "self") \/ Misled(t)
    /\ \A r \in removing : r.of \in cancel => Both(r.of) \/ Misled(r.of)

IInv == TypeOK /\ Callers /\ Fresh /\ Records /\ Down /\ Addresses /\ Cause

-----------------------------------------------------------------------------
(* Types                                                                   *)

\* Nothing but TaskAdd() gives a task its address, and none loses it.
LEMMA AllocatedStep ==
  ASSUME TimeoutAssumption, TypeOK, [Next]_vars
  PROVE  /\ Allocated \subseteq Allocated'
         /\ \A t \in Allocated : addr'[t] = addr[t]
         /\ Allocated' = Allocated \/ \E u \in Users, t \in Tasks : TaskAdd(u, t)
<1>1. CASE addr' = addr  BY <1>1 DEF Allocated
<1>2. ASSUME NEW u \in Users, NEW t \in Tasks, TaskAdd(u, t)
      PROVE  Allocated \subseteq Allocated' /\ \A s \in Allocated : addr'[s] = addr[s]
  BY <1>2 DEF TaskAdd, Allocated, TypeOK, TimeoutAssumption
<1> QED
  BY <1>1, <1>2 DEF Next, vars, Finish, Checker, Timer, Stopping, TaskInsert, TaskReturn,
     TaskRemove, RemoveInsert, CheckTest, CheckBegin, CheckCancel, CheckUnlink, CheckEnd, Wake,
     Called, Tested, Request, Exit, DeinitBegin, DeinitCancel, DeinitUnlink, DeinitClear,
     DeinitJoin

LEMMA TypeInit == ASSUME TimeoutAssumption, Init PROVE TypeOK
  BY DEF TimeoutAssumption, Init, TypeOK, Allocated, Idle, Places

LEMMA TypeStep == ASSUME TimeoutAssumption, TypeOK, [Next]_vars PROVE TypeOK'
<1> USE DEF TypeOK, listVars, taskVars
<1>0. Allocated \subseteq Tasks /\ Allocated \subseteq Allocated'
  BY AllocatedStep DEF Allocated
<1>1. ASSUME NEW u \in Users, NEW t \in Tasks, TaskAdd(u, t) PROVE TypeOK'
  <2>1. PICK a \in Cells : addr' = [addr EXCEPT ![t] = a]  BY <1>1 DEF TaskAdd
  <2>2. a # None  BY TimeoutAssumption DEF TimeoutAssumption
  <2>3. t \in Allocated' /\ addr' \in [Tasks -> Cells \cup {None}]
    BY <2>1, <2>2 DEF Allocated
  <2>4. /\ user' = [user EXCEPT ![u] = [at |-> "insert", task |-> t]]
        /\ UNCHANGED <<running, update, lock, listVars, check, deinit, victim, ids,
                       cancel, tpc, valid, freed, asked, late, undefined>>
    BY <1>1 DEF TaskAdd
  <2>5. /\ user' \in [Users -> [at : {"idle", "insert", "return", "remove"},
                                task : Tasks \cup {None}]]
        /\ \A v \in Users : user'[v].at # "idle" => user'[v].task \in Allocated'
    BY <1>0, <2>3, <2>4
  <2> QED BY <1>0, <2>3, <2>4, <2>5
<1>2. ASSUME NEW u \in Users, TaskInsert(u) PROVE TypeOK'
  BY <1>0, <1>2, TimeoutAssumption DEF TaskInsert, Allocated, TimeoutAssumption
<1>3. ASSUME NEW u \in Users, TaskReturn(u) PROVE TypeOK'
  BY <1>0, <1>3, TimeoutAssumption DEF TaskReturn, Idle, Allocated, TimeoutAssumption
<1>4. ASSUME NEW u \in Users, NEW t \in Tasks, TaskRemove(u, t) PROVE TypeOK'
  BY <1>0, <1>4, TimeoutAssumption DEF TaskRemove, Allocated, TimeoutAssumption
<1>5. ASSUME NEW u \in Users, RemoveInsert(u) PROVE TypeOK'
  BY <1>0, <1>5, TimeoutAssumption DEF RemoveInsert, Ask, Idle, Allocated, TimeoutAssumption
<1>6. CASE CheckTest
  BY <1>0, <1>6, TimeoutAssumption DEF CheckTest, Allocated, TimeoutAssumption
<1>7. CASE CheckBegin
  BY <1>0, <1>7, TimeoutAssumption DEF CheckBegin, Places, Allocated, TimeoutAssumption
<1>8. CASE CheckCancel
  BY <1>0, <1>8, TimeoutAssumption DEF CheckCancel, Found, Allocated, TimeoutAssumption
<1>9. CASE CheckUnlink
  BY <1>0, <1>9, TimeoutAssumption DEF CheckUnlink, Unlink, Allocated, TimeoutAssumption
<1>10. CASE CheckEnd
  BY <1>0, <1>10, TimeoutAssumption DEF CheckEnd, Allocated, TimeoutAssumption
<1>11. ASSUME NEW t \in Tasks, Wake(t) PROVE TypeOK'
  BY <1>0, <1>11, TimeoutAssumption DEF Wake, Places, Allocated, TimeoutAssumption
<1>12. ASSUME NEW t \in Tasks, NEW next \in BOOLEAN, Called(t, next) PROVE TypeOK'
  BY <1>0, <1>12, TimeoutAssumption DEF Called, Places, Allocated, TimeoutAssumption
<1>13. ASSUME NEW t \in Tasks, Tested(t) PROVE TypeOK'
  BY <1>0, <1>13, TimeoutAssumption DEF Tested, Places, Allocated, TimeoutAssumption
<1>14. ASSUME NEW t \in Tasks, Request(t) PROVE TypeOK'
  BY <1>0, <1>14, TimeoutAssumption DEF Request, Ask, Places, Allocated, TimeoutAssumption
<1>15. ASSUME NEW t \in Tasks, Exit(t) PROVE TypeOK'
  BY <1>0, <1>15, TimeoutAssumption DEF Exit, Places, Allocated, TimeoutAssumption
<1>16. CASE DeinitBegin
  BY <1>0, <1>16, TimeoutAssumption DEF DeinitBegin, Allocated, TimeoutAssumption
<1>17. CASE DeinitCancel
  BY <1>0, <1>17, TimeoutAssumption DEF DeinitCancel, Allocated, TimeoutAssumption
<1>18. CASE DeinitUnlink
  BY <1>0, <1>18, TimeoutAssumption DEF DeinitUnlink, Unlink, Allocated, TimeoutAssumption
<1>19. CASE DeinitClear
  BY <1>0, <1>19, TimeoutAssumption DEF DeinitClear, Allocated, TimeoutAssumption
<1>20. CASE DeinitJoin
  BY <1>0, <1>20, TimeoutAssumption DEF DeinitJoin, Allocated, TimeoutAssumption
<1>21. CASE UNCHANGED vars
  BY <1>21 DEF vars, listVars, taskVars, Allocated
<1> QED
  BY <1>1, <1>2, <1>3, <1>4, <1>5, <1>6, <1>7, <1>8, <1>9, <1>10, <1>11, <1>12, <1>13, <1>14,
     <1>15, <1>16, <1>17, <1>18, <1>19, <1>20, <1>21
  DEF Next, Finish, Checker, Timer, Stopping

\* Every variable has its type; the lock is with the thread that is inside its
\* critical section (TypeOK, ipc_timeout_task.c:52-240), for any callers, tasks
\* and addresses.
THEOREM TypeCorrect == Spec => []TypeOK
<1>1. Init => TypeOK  BY TimeoutAssumption, TypeInit
<1>2. TypeOK /\ [Next]_vars => TypeOK'  BY TimeoutAssumption, TypeStep
<1> QED BY <1>1, <1>2, PTL DEF Spec

-----------------------------------------------------------------------------
(* The inductive invariant                                                 *)

LEMMA InvInit == ASSUME TimeoutAssumption, Init PROVE IInv
<1>1. Allocated = {}  BY DEF Init, Allocated
<1> QED
  BY <1>1, TypeInit DEF Init, IInv, Callers, Fresh, Records, Place, Down, Addresses, Cause, Idle

\* A removal is asked for once by a caller and once by the task.
LEMMA CallersStep == ASSUME TimeoutAssumption, IInv, [Next]_vars PROVE Callers'
<1> USE DEF Callers, AskedBy, TypeOK
<1>0. TypeOK /\ TypeOK' /\ Callers /\ Allocated \subseteq Tasks /\ Allocated \subseteq Allocated'
  BY TypeStep, AllocatedStep DEF IInv, Allocated
<1>1. ASSUME NEW u \in Users, NEW t \in Tasks, TaskAdd(u, t) PROVE Callers'
  BY <1>0, <1>1 DEF TaskAdd
<1>2. ASSUME NEW u \in Users, TaskInsert(u) PROVE Callers'
  BY <1>0, <1>2 DEF TaskInsert
<1>3. ASSUME NEW u \in Users, TaskReturn(u) PROVE Callers'
  BY <1>0, <1>3 DEF TaskReturn, Idle
<1>4. ASSUME NEW u \in Users, NEW t \in Tasks, TaskRemove(u, t) PROVE Callers'
  BY <1>0, <1>4 DEF TaskRemove
<1>5. ASSUME NEW u \in Users, RemoveInsert(u) PROVE Callers'
  BY <1>0, <1>5 DEF RemoveInsert, Ask, Idle
<1>6. ASSUME NEW t \in Tasks, Request(t) PROVE Callers'
  BY <1>0, <1>6 DEF Request, Ask
<1>7. CASE UNCHANGED <<user, ids, asked>>  BY <1>0, <1>7
<1> QED
  BY <1>1, <1>2, <1>3, <1>4, <1>5, <1>6, <1>7 DEF Next, vars, Finish, Checker, Timer, Stopping,
     CheckTest, CheckBegin, CheckCancel, CheckUnlink, CheckEnd, Wake, Called, Tested, Exit,
     DeinitBegin, DeinitCancel, DeinitUnlink, DeinitClear, DeinitJoin

\* What one caller enters is not another's.
LEMMA FreshStep == ASSUME TimeoutAssumption, IInv, [Next]_vars PROVE Fresh'
<1> USE DEF Fresh, TypeOK
<1>0. TypeOK /\ TypeOK' /\ Callers /\ Fresh /\ Records /\ Allocated \subseteq Tasks
  BY TypeStep DEF IInv, Allocated
<1>1. ASSUME NEW u \in Users, NEW t \in Tasks, TaskAdd(u, t) PROVE Fresh'
  BY <1>0, <1>1 DEF TaskAdd, listVars, taskVars
<1>2. ASSUME NEW u \in Users, TaskInsert(u) PROVE Fresh'
  <2>1. /\ pending' = pending \cup {user[u].task} /\ freed' = freed /\ tpc' = tpc
        /\ user' = [user EXCEPT ![u].at = "return"] /\ user[u].at = "insert"
    BY <1>2 DEF TaskInsert, taskVars
  <2>2. ASSUME NEW v \in Users, user'[v].at = "insert"
        PROVE  v # u /\ user'[v] = user[v] /\ user[v].task # user[u].task
    BY <1>0, <2>1, <2>2 DEF Callers
  <2> QED BY <1>0, <2>1, <2>2
<1>3. ASSUME NEW u \in Users, \/ TaskReturn(u) \/ RemoveInsert(u)
                              \/ \E t \in Tasks : TaskRemove(u, t)
      PROVE  Fresh'
  BY <1>0, <1>3 DEF TaskReturn, RemoveInsert, TaskRemove, Ask, Idle, listVars, taskVars
<1>4. CASE CheckBegin  BY <1>0, <1>4 DEF CheckBegin
<1>5. ASSUME NEW t \in Tasks, Wake(t) \/ Tested(t) \/ Request(t) \/ \E n \in BOOLEAN : Called(t, n)
      PROVE  Fresh'
  BY <1>0, <1>5 DEF Wake, Tested, Request, Ask, Called, listVars
<1>6. ASSUME NEW t \in Tasks, Exit(t) PROVE Fresh'  BY <1>0, <1>6 DEF Exit, listVars
<1>7. CASE DeinitClear  BY <1>0, <1>7 DEF DeinitClear, taskVars
<1>8. CASE UNCHANGED <<user, pending, freed, tpc>>  BY <1>0, <1>8
<1> QED
  BY <1>1, <1>2, <1>3, <1>4, <1>5, <1>6, <1>7, <1>8 DEF Next, vars, Finish, Checker, Timer,
     Stopping, listVars, taskVars, CheckTest, CheckCancel, CheckUnlink, CheckEnd, DeinitBegin,
     DeinitCancel, DeinitUnlink, DeinitJoin, Unlink

LEMMA RecordsStep == ASSUME TimeoutAssumption, IInv, [Next]_vars PROVE Records'
<1> USE DEF Records, Place, AskedBy, TypeOK, listVars, taskVars
<1>0. /\ TypeOK /\ TypeOK' /\ Fresh /\ Records /\ Allocated \subseteq Tasks
      /\ None \notin Tasks
  BY TypeStep DEF IInv, Allocated, TimeoutAssumption
<1>1. ASSUME NEW u \in Users, TaskInsert(u) PROVE Records'
  BY <1>0, <1>1 DEF TaskInsert, Fresh
<1>2. ASSUME NEW u \in Users, RemoveInsert(u) PROVE Records'
  BY <1>0, <1>2 DEF RemoveInsert, Ask
<1>3. CASE CheckBegin  BY <1>0, <1>3 DEF CheckBegin
<1>4. CASE CheckCancel  BY <1>0, <1>4 DEF CheckCancel, Found
<1>5. CASE CheckUnlink \/ DeinitUnlink
  BY <1>0, <1>5 DEF CheckUnlink, DeinitUnlink, Unlink
<1>6. ASSUME NEW t \in Tasks, Wake(t) \/ Tested(t) \/ \E n \in BOOLEAN : Called(t, n)
      PROVE  Records'
  BY <1>0, <1>6 DEF Wake, Tested, Called, WaitingRemove
<1>7. ASSUME NEW t \in Tasks, Request(t) PROVE Records'
  BY <1>0, <1>7 DEF Request, Ask
<1>8. ASSUME NEW t \in Tasks, Exit(t) PROVE Records'  BY <1>0, <1>8 DEF Exit
<1>9. CASE DeinitCancel  BY <1>0, <1>9 DEF DeinitCancel
<1>10. CASE DeinitClear  BY <1>0, <1>10 DEF DeinitClear
<1>11. CASE DeinitJoin \/ DeinitBegin  BY <1>0, <1>11 DEF DeinitJoin, DeinitBegin
<1>12. CASE UNCHANGED <<pending, living, victim, cancel, tpc, freed, asked, deinit>>
  BY <1>0, <1>12
<1> QED
  BY <1>1, <1>2, <1>3, <1>4, <1>5, <1>6, <1>7, <1>8, <1>9, <1>10, <1>11, <1>12
  DEF Next, vars, Finish, Checker, Timer, Stopping, TaskAdd, TaskReturn, TaskRemove, CheckTest,
      CheckEnd

\* What is listed after deinit cleared the lists is known as late.
LEMMA DownStep == ASSUME TimeoutAssumption, IInv, [Next]_vars PROVE Down'
<1> USE DEF Down, TypeOK, listVars, taskVars
<1>0. TypeOK /\ Down  BY DEF IInv
<1>1. ASSUME NEW u \in Users, TaskInsert(u) PROVE Down'  BY <1>0, <1>1 DEF TaskInsert
<1>2. CASE CheckBegin  BY <1>0, <1>2 DEF CheckBegin
<1>3. CASE CheckUnlink \/ DeinitUnlink
  BY <1>0, <1>3 DEF CheckUnlink, DeinitUnlink, Unlink
<1>4. CASE DeinitBegin \/ DeinitClear \/ DeinitJoin
  BY <1>0, <1>4 DEF DeinitBegin, DeinitClear, DeinitJoin
<1>5. CASE UNCHANGED <<pending, living, late, running, deinit>>  BY <1>0, <1>5
<1> QED
  BY <1>1, <1>2, <1>3, <1>4, <1>5 DEF Next, vars, Finish, Checker, Timer, Stopping, TaskAdd,
     TaskReturn, TaskRemove, RemoveInsert, Ask, CheckTest, CheckCancel, CheckEnd, Wake, Called,
     Tested, Request, Exit, DeinitCancel

LEMMA AddressesStep == ASSUME TimeoutAssumption, IInv, [Next]_vars PROVE Addresses'
<1>0. TypeOK /\ TypeOK' /\ Addresses  BY TypeStep DEF IInv
<1>1. ASSUME NEW u \in Users, NEW t \in Tasks, TaskAdd(u, t) PROVE Addresses'
  BY <1>0, <1>1 DEF TaskAdd, Addresses, InUse, Allocated, TypeOK
<1>2. CASE addr' = addr /\ freed \subseteq freed'
  BY <1>0, <1>2 DEF Addresses, Allocated
<1> QED
  BY <1>1, <1>2 DEF Next, vars, Finish, Checker, Timer, Stopping, TaskInsert, TaskReturn,
     TaskRemove, RemoveInsert, CheckTest, CheckBegin, CheckCancel, CheckUnlink, CheckEnd, Wake,
     Called, Tested, Request, Exit, DeinitBegin, DeinitCancel, DeinitUnlink, DeinitClear,
     DeinitJoin

\* A second removal of the same record finds another task only when the record
\* was freed and its address given away in between.
LEMMA CauseStep == ASSUME TimeoutAssumption, IInv, [Next]_vars PROVE Cause'
<1> SUFFICES ASSUME deinit = "up"
             PROVE  /\ \A t \in cancel' : (AskedBy(t, "user") \/ AskedBy(t, "self") \/ Misled(t))'
                    /\ \A r \in removing' : r.of \in cancel' => (Both(r.of) \/ Misled(r.of))'
  <2>1. deinit' = "up" => deinit = "up"
    BY DEF Next, vars, Finish, Checker, Timer, Stopping, TaskAdd, TaskInsert, TaskReturn,
       TaskRemove, RemoveInsert, CheckTest, CheckBegin, CheckCancel, CheckUnlink, CheckEnd, Wake,
       Called, Tested, Request, Exit, DeinitBegin, DeinitCancel, DeinitUnlink, DeinitClear,
       DeinitJoin
  <2> QED BY <2>1 DEF Cause
<1> DEFINE Goal == /\ \A t \in cancel' : (AskedBy(t, "user") \/ AskedBy(t, "self") \/ Misled(t))'
                   /\ \A r \in removing' : r.of \in cancel' => (Both(r.of) \/ Misled(r.of))'
<1>0. /\ TypeOK /\ Callers /\ Records /\ Addresses /\ Cause /\ Allocated \subseteq Tasks
      /\ None \notin Tasks /\ Tasks \subseteq Nat
  BY DEF IInv, Allocated, TimeoutAssumption, Tasks
<1>1. cancel \subseteq Allocated /\ \A r \in removing : r \in asked /\ r.of \in Allocated
  BY <1>0 DEF TypeOK
<1>m. /\ \A t \in Tasks, who \in {"user", "self"} : AskedBy(t, who) => AskedBy(t, who)'
      /\ \A t \in Allocated : Misled(t) => Misled(t)'
  <2>1. asked \subseteq asked'
    BY DEF Next, vars, Finish, Checker, Timer, Stopping, TaskAdd, TaskInsert, TaskReturn,
       TaskRemove, RemoveInsert, Ask, CheckTest, CheckBegin, CheckCancel, CheckUnlink, CheckEnd,
       Wake, Called, Tested, Request, Exit, DeinitBegin, DeinitCancel, DeinitUnlink, DeinitClear,
       DeinitJoin
  <2>2. \A t \in Tasks : Both(t) => Both(t)'  BY <2>1 DEF Both, AskedBy
  <2>3. \A t \in Allocated : addr'[t] = addr[t]  BY <1>0, AllocatedStep
  <2>4. \A s, t \in Tasks : s < t /\ t \in Allocated => s \in Allocated
    BY <1>0 DEF Addresses
  <2>5. ASSUME NEW t \in Allocated, Misled(t) PROVE Misled(t)'
    <3>1. PICK s \in Tasks : s < t /\ addr[s] = addr[t] /\ Both(s)  BY <2>5 DEF Misled
    <3>2. t \in Tasks /\ s \in Allocated  BY <1>0, <3>1, <2>4
    <3> QED BY <3>1, <3>2, <2>2, <2>3 DEF Misled
  <2> QED BY <2>1, <2>5 DEF AskedBy
<1>2. CASE cancel' = cancel /\ removing' \subseteq removing
  BY <1>0, <1>1, <1>2, <1>m DEF Cause, Both
<1>3. ASSUME NEW t \in Tasks, NEW who \in {"user", "self"}, Ask(t, who), ~AskedBy(t, who),
             cancel' = cancel
      PROVE  Goal
  <2>1. asked' = asked \cup {[of |-> t, by |-> who]} /\ removing' = removing \cup {[of |-> t, by |-> who]}
    BY <1>3 DEF Ask
  <2>2. t \in cancel => Both(t)' \/ Misled(t)'
    BY <1>0, <1>1, <1>3, <1>m, <2>1 DEF Cause, Both, AskedBy
  <2>3. \A r \in removing : r.of \in cancel => (Both(r.of) \/ Misled(r.of))'
    BY <1>0, <1>1, <1>m DEF Cause, Both
  <2>4. \A s \in cancel : (AskedBy(s, "user") \/ AskedBy(s, "self") \/ Misled(s))'
    BY <1>0, <1>1, <1>m DEF Cause
  <2> QED BY <2>1, <2>2, <2>3, <2>4, <1>3
<1>4. ASSUME NEW r \in removing, removing' = removing \ {r}, victim = None, asked' = asked,
             NEW t \in Found(r.of), cancel' = cancel \cup {t}
      PROVE  Goal
  <2> DEFINE s == r.of
  <2>1. /\ s \in Tasks /\ s \in Allocated /\ r \in asked /\ r = [of |-> s, by |-> r.by]
        /\ r.by \in {"user", "self"}
        /\ t \in living /\ t \in Tasks /\ t \in Allocated /\ addr[t] = addr[s]
    <3>1. r \in [of : Allocated, by : {"user", "self"}]
      BY <1>0, <1>1, <1>4 DEF TypeOK
    <3>2. t \in living /\ addr[t] = addr[r.of]  BY <1>4 DEF Found
    <3>3. t \in Allocated  BY <1>0, <3>2 DEF TypeOK
    <3> QED BY <1>0, <1>1, <3>1, <3>2, <3>3
  <2> HIDE DEF s
  <2>2. \/ t = s
        \/ Misled(t)
    <3> SUFFICES ASSUME t # s PROVE Misled(t)
      OBVIOUS
    <3>1. t \notin freed  BY <1>0, <1>4, <2>1 DEF Records, Place
    <3>2. s < t  BY <1>0, <2>1, <3>1 DEF Addresses
    <3>3. s \in freed  BY <1>0, <2>1, <3>2 DEF Addresses
    <3>4. s \in cancel  BY <1>0, <2>1, <3>3 DEF Records, Place
    <3>5. Both(s) \/ Misled(s)  BY <1>0, <3>4 DEF Cause, s
    <3>6. CASE Both(s)  BY <2>1, <3>2, <3>6 DEF Misled
    <3>7. CASE Misled(s)
      <4>1. PICK p \in Tasks : p < s /\ addr[p] = addr[s] /\ Both(p)  BY <3>7 DEF Misled
      <4>2. p < t  BY <1>0, <2>1, <3>2, <4>1
      <4> QED BY <2>1, <4>1, <4>2 DEF Misled
    <3> QED BY <3>5, <3>6, <3>7
  <2>3. AskedBy(t, "user") \/ AskedBy(t, "self") \/ Misled(t)
    BY <2>1, <2>2 DEF AskedBy
  <2>4. ASSUME NEW q \in removing', q.of = t PROVE Both(t) \/ Misled(t)
    <3>1. q \in asked /\ q # r /\ q = [of |-> t, by |-> q.by] /\ q.by \in {"user", "self"}
      BY <1>0, <1>1, <1>4, <2>4 DEF TypeOK
    <3>2. CASE t = s
      <4>1. q.by # r.by  BY <3>1, <3>2, <2>1
      <4> QED BY <4>1, <3>1, <3>2, <2>1 DEF Both, AskedBy
    <3> QED BY <3>2, <2>2
  <2>5. \A q \in removing' : q \in removing  BY <1>4
  <2> QED BY <1>0, <1>1, <1>4, <1>m, <2>1, <2>3, <2>4, <2>5 DEF Cause, Both
<1>5. CASE CheckCancel
  <2>1. PICK r \in removing :
          /\ removing' = removing \ {r} /\ victim = None /\ asked' = asked
          /\ \/ Found(r.of) = {} /\ UNCHANGED <<cancel, victim>>
             \/ \E t \in Found(r.of) : cancel' = cancel \cup {t} /\ victim' = t
    BY <1>5 DEF CheckCancel
  <2> QED BY <2>1, <1>2, <1>4
<1>6. ASSUME NEW u \in Users, RemoveInsert(u) PROVE Goal
  <2>1. user[u].task \in Tasks /\ ~AskedBy(user[u].task, "user")
    BY <1>0, <1>6 DEF RemoveInsert, Callers
  <2> QED BY <2>1, <1>3, <1>6 DEF RemoveInsert, taskVars
<1>7. ASSUME NEW t \in Tasks, Request(t) PROVE Goal
  <2>1. ~AskedBy(t, "self")  BY <1>0, <1>7 DEF Request, Records, Place
  <2> QED BY <2>1, <1>3, <1>7 DEF Request
<1>8. ~DeinitCancel /\ ~DeinitClear  BY DEF DeinitCancel, DeinitClear
<1>9. \/ CheckCancel \/ (\E u \in Users : RemoveInsert(u)) \/ (\E t \in Tasks : Request(t))
      \/ cancel' = cancel /\ removing' \subseteq removing
  BY <1>8 DEF Next, vars, Finish, Checker, Timer, Stopping, TaskAdd, TaskInsert, TaskReturn,
     TaskRemove, CheckTest, CheckBegin, CheckUnlink, CheckEnd, Wake, Called, Tested, Exit,
     DeinitBegin, DeinitUnlink, DeinitJoin, listVars, taskVars
<1> QED BY <1>2, <1>5, <1>6, <1>7, <1>9

LEMMA InvStep == ASSUME TimeoutAssumption, IInv, [Next]_vars PROVE IInv'
  BY TypeStep, CallersStep, FreshStep, RecordsStep, DownStep, AddressesStep, CauseStep DEF IInv

LEMMA Invariant == Spec => []IInv
<1>1. Init => IInv  BY TimeoutAssumption, InvInit
<1>2. IInv /\ [Next]_vars => IInv'  BY TimeoutAssumption, InvStep
<1> QED BY <1>1, <1>2, PTL DEF Spec

-----------------------------------------------------------------------------
(* What the checker is still to do                                         *)

\* Why a task that is over and sleeps is not forgotten: it asked before it slept,
\* and the checker takes its request out only by cancelling it.
Heard(t) == t \in cancel \/ [of |-> t, by |-> "self"] \in removing

Awaited ==
  /\ \A t \in Tasks : WaitingRemove(t) => tpc[t] # "none" /\ Heard(t)
  /\ \A t \in Over : tpc[t] = "sleep" => Heard(t)
  /\ pending # {} \/ (removing # {} /\ check # "remove") => update
  /\ deinit = "join" /\ check = "wait" => update

\* A removal that finds its own task cancels it: another task at the address
\* would have to be of a record that was freed.
LEMMA OwnRemoval ==
  ASSUME TimeoutAssumption, IInv, victim = None, NEW t \in Tasks, tpc[t] # "none", t \notin cancel
  PROVE  Found(t) = {t}
<1>1. TypeOK /\ Records /\ Addresses  BY DEF IInv
<1>2. t \in living /\ t \in Allocated /\ t \notin freed
  BY <1>1 DEF Records, Place, TypeOK
<1>3. ASSUME NEW s \in living, addr[s] = addr[t], s # t PROVE FALSE
  <2>1. s \in Allocated /\ s \in Tasks  BY <1>1, <1>3 DEF TypeOK, Allocated
  <2>2. s \notin cancel  BY <1>1, <1>3, <2>1, TimeoutAssumption DEF Records, Place, TimeoutAssumption
  <2>3. s \notin freed  BY <1>1, <1>3, <2>1, <2>2 DEF Records, Place
  <2>4. s < t \/ t < s  BY <1>3, <2>1, TimeoutAssumption DEF Tasks, TimeoutAssumption
  <2> QED BY <1>1, <1>2, <1>3, <2>1, <2>3, <2>4 DEF Addresses
<1> QED BY <1>2, <1>3 DEF Found

LEMMA AwaitedInit == ASSUME Init PROVE Awaited
  BY DEF Init, Awaited, WaitingRemove, Over

LEMMA AwaitedStep == ASSUME TimeoutAssumption, IInv, Awaited, [Next]_vars PROVE Awaited'
<1> USE DEF Awaited, Heard, WaitingRemove, Over, listVars, taskVars
<1>0. /\ TypeOK /\ TypeOK' /\ Records /\ Down /\ (\A t \in Tasks : Place(t))
      /\ Allocated \subseteq Tasks
      /\ tpc \in [Tasks -> Places] /\ removing \subseteq asked
  BY TypeStep DEF IInv, Records, TypeOK, Allocated
<1>1. ASSUME NEW u \in Users, TaskInsert(u) PROVE Awaited'
  BY <1>0, <1>1 DEF TaskInsert
<1>2. ASSUME NEW u \in Users, RemoveInsert(u) PROVE Awaited'
  BY <1>0, <1>2 DEF RemoveInsert, Ask
<1>3. CASE CheckTest  BY <1>0, <1>3 DEF CheckTest, Down
<1>4. CASE CheckBegin  BY <1>0, <1>4 DEF CheckBegin, Place
<1>5. CASE CheckCancel
  <2>1. PICK r \in removing :
          /\ removing' = removing \ {r} /\ victim = None
          /\ \/ Found(r.of) = {} /\ UNCHANGED <<cancel, victim>>
             \/ \E t \in Found(r.of) : cancel' = cancel \cup {t} /\ victim' = t
    BY <1>5 DEF CheckCancel
  <2>2. /\ check = "remove" /\ check' = check
        /\ UNCHANGED <<running, update, pending, living, deinit, tpc, valid, asked>>
    BY <1>5 DEF CheckCancel
  <2>3. cancel \subseteq cancel'  BY <2>1
  <2>4. ASSUME NEW t \in Tasks, Heard(t), tpc[t] # "none" PROVE Heard(t)'
    <3>1. CASE r # [of |-> t, by |-> "self"]  BY <2>1, <2>3, <2>4, <3>1
    <3>2. CASE r = [of |-> t, by |-> "self"] /\ t \notin cancel
      <4>1. Found(r.of) = {t}  BY <2>1, <2>4, <3>2, TimeoutAssumption, OwnRemoval
      <4> QED BY <2>1, <4>1
    <3> QED BY <2>3, <3>1, <3>2
  <2> QED BY <1>0, <2>2, <2>4
<1>6. CASE CheckUnlink \/ DeinitUnlink
  BY <1>0, <1>6 DEF CheckUnlink, DeinitUnlink, Unlink
<1>7. CASE CheckEnd  BY <1>0, <1>7 DEF CheckEnd
<1>8. ASSUME NEW t \in Tasks, Wake(t) PROVE Awaited'  BY <1>0, <1>8 DEF Wake
<1>9. ASSUME NEW t \in Tasks, Tested(t) PROVE Awaited'  BY <1>0, <1>9 DEF Tested
<1>10. ASSUME NEW t \in Tasks, NEW n \in BOOLEAN, Called(t, n) PROVE Awaited'
  BY <1>0, <1>10 DEF Called
<1>11. ASSUME NEW t \in Tasks, Request(t) PROVE Awaited'
  BY <1>0, <1>11 DEF Request, Ask
<1>12. ASSUME NEW t \in Tasks, Exit(t) PROVE Awaited'  BY <1>0, <1>12 DEF Exit
<1>13. CASE DeinitCancel  BY <1>0, <1>13 DEF DeinitCancel
<1>14. CASE DeinitClear  BY <1>0, <1>14 DEF DeinitClear, Place
<1>15. CASE UNCHANGED <<pending, living, removing, check, update, cancel, tpc, valid, asked>>
             /\ (deinit' = deinit \/ deinit' \in {"clear", "done"})
  BY <1>15
<1> QED
  BY <1>1, <1>2, <1>3, <1>4, <1>5, <1>6, <1>7, <1>8, <1>9, <1>10, <1>11, <1>12, <1>13, <1>14,
     <1>15
  DEF Next, vars, Finish, Checker, Timer, Stopping, TaskAdd, TaskReturn, TaskRemove,
      DeinitBegin, DeinitJoin

-----------------------------------------------------------------------------
(* Results                                                                 *)

\* No order of additions, removals, ends of tasks and deinit leaves a freed
\* record in a list but for the one about to be unlinked (LinkedIsAllocated,
\* ipc_timeout_task.c:111-160, 213-222).
THEOREM ListsCorrect == Spec => []LinkedIsAllocated
<1>1. IInv => LinkedIsAllocated
  BY TimeoutAssumption DEF IInv, Records, Place, LinkedIsAllocated, TypeOK, Allocated,
     TimeoutAssumption
<1> QED BY <1>1, Invariant, PTL

\* While the service is up a task is cancelled because it was asked for, or
\* because an earlier one at its address was removed twice
\* (MisdirectedOnlyIfRemovedTwice, ipc_timeout_task.c:137-156), however often
\* addresses are used again.
THEOREM RemovalsCorrect == Spec => []MisdirectedOnlyIfRemovedTwice
<1>1. IInv => MisdirectedOnlyIfRemovedTwice
  BY DEF IInv, Cause, Misled, Both, MisdirectedOnlyIfRemovedTwice
<1> QED BY <1>1, Invariant, PTL

\* After ipc_timeout_task_deinit() no task calls its function again, but for one
\* its caller listed too late (QuietAfterDeinit, ipc_timeout_task.c:213-239).
THEOREM DeinitCorrect == Spec => []QuietAfterDeinit
<1>1. IInv => QuietAfterDeinit
  BY DEF IInv, Records, Place, Down, QuietAfterDeinit
<1> QED BY <1>1, Invariant, PTL

\* While the checker waits, whatever it is waited for has set `update', and a
\* task that is over and sleeps on has its removal in the list or was cancelled
\* (NothingOverlooked, ipc_timeout_task.c:84-108, 111-160, 213-239): neither
\* deinit nor the end of a task is left to a wake-up that was lost, whatever the
\* number of callers and however addresses are used again.
THEOREM WakeupsCorrect == Spec => []NothingOverlooked
<1>1. Init => Awaited  BY AwaitedInit
<1>2. IInv /\ Awaited /\ [Next]_vars => Awaited'  BY TimeoutAssumption, AwaitedStep
<1>3. Awaited => NothingOverlooked  BY DEF Awaited, Heard, NothingOverlooked
<1> QED BY <1>1, <1>2, <1>3, Invariant, PTL DEF Spec

-----------------------------------------------------------------------------
(* The timer service                                                       *)

LEMMA ServiceInit == ASSUME TimeoutAssumption, Init PROVE Service!Init
<1>1. \A t \in Tasks : PhaseOf(t) = "none"  BY DEF Init, PhaseOf
<1>2. Over = {} /\ Stopped = FALSE  BY DEF Init, Over, Stopped
<1> QED BY <1>1, <1>2 DEF Init, Service!Init, Phase

\* What is seen when nothing is: the records, threads and lists of tasks stay.
LEMMA Unseen ==
  ASSUME UNCHANGED <<freed, tpc, pending, addr, valid, cancel, Stopped>>
  PROVE  UNCHANGED Service!serviceVars
BY DEF Service!serviceVars, Phase, PhaseOf, Over

\* And when one task goes from one phase to the next.
LEMMA Seen ==
  ASSUME NEW t \in Tasks, \A s \in Tasks \ {t} : PhaseOf(s)' = PhaseOf(s)
  PROVE  /\ Service!Goes(t, PhaseOf(t), PhaseOf(t)')
         /\ PhaseOf(t)' = PhaseOf(t) => UNCHANGED Phase
BY DEF Service!Goes, Phase

LEMMA AllSeen ==
  ASSUME NEW to, \A t \in Tasks : PhaseOf(t)' = IF PhaseOf(t) = "listed" THEN to ELSE PhaseOf(t)
  PROVE  Service!AllListed(to)
BY DEF Service!AllListed, Phase

\* The phases, read off the record.
LEMMA Phases ==
  ASSUME IInv, NEW t \in Tasks
  PROVE  /\ PhaseOf(t) = "none" <=> t \notin Allocated
         /\ PhaseOf(t) = "listed" <=> t \in pending
         /\ PhaseOf(t) = "called" <=> tpc[t] = "call"
         /\ PhaseOf(t) = "due" <=> tpc[t] \notin {"none", "call", "gone"} \/ (tpc[t] = "gone" /\ t \notin freed)
         /\ PhaseOf(t) = "made" <=> t \in Allocated \ (pending \cup freed) /\ tpc[t] = "none"
         /\ t \in freed => tpc[t] \in {"none", "gone"}
<1>1. /\ Place(t) /\ freed \subseteq Allocated /\ pending \subseteq Allocated
      /\ tpc[t] # "none" => t \in Allocated
      /\ t \in Allocated <=> addr[t] # None
  BY DEF IInv, Records, TypeOK, Allocated
<1> QED BY <1>1 DEF PhaseOf, Place

LEMMA ServiceStep ==
  ASSUME TimeoutAssumption, IInv, [Next]_vars
  PROVE  [Service!Next]_(Service!serviceVars)
<1> USE DEF listVars, taskVars
<1>t. /\ TypeOK /\ Records /\ \A t \in Tasks : Place(t)
      /\ tpc \in [Tasks -> Places] /\ addr \in [Tasks -> Cells \cup {None}]
  BY DEF IInv, Records, TypeOK
<1>1. ASSUME NEW u \in Users, NEW t \in Tasks, TaskAdd(u, t)
      PROVE  [Service!Next]_(Service!serviceVars)
  <2>1. PICK a \in Cells : addr' = [addr EXCEPT ![t] = a]  BY <1>1 DEF TaskAdd
  <2>2. a # None  BY TimeoutAssumption DEF TimeoutAssumption
  <2>3. UNCHANGED <<freed, tpc, pending, valid, cancel, deinit>>  BY <1>1 DEF TaskAdd
  <2>4. PhaseOf(t) = "none"  BY <1>1, Phases DEF TaskAdd
  <2>5. tpc[t] = "none" /\ t \notin freed /\ t \notin pending
    BY <1>1, <1>t DEF TaskAdd, TypeOK
  <2>6. PhaseOf(t)' = "made"  BY <1>t, <2>1, <2>2, <2>3, <2>5 DEF PhaseOf
  <2>7. \A s \in Tasks \ {t} : PhaseOf(s)' = PhaseOf(s)  BY <1>t, <2>1, <2>3 DEF PhaseOf
  <2>8. UNCHANGED <<Over, Stopped>>  BY <2>3 DEF Over, Stopped
  <2> QED BY <2>3, <2>4, <2>6, <2>7, <2>8, Seen DEF Service!Next, Service!Make
<1>2. ASSUME NEW u \in Users, TaskInsert(u) PROVE [Service!Next]_(Service!serviceVars)
  <2> PICK t \in Tasks : t = user[u].task  BY <1>2, <1>t DEF TaskInsert, TypeOK, Allocated
  <2>1. /\ pending' = pending \cup {t}
        /\ UNCHANGED <<freed, tpc, addr, valid, cancel, deinit>>
    BY <1>2 DEF TaskInsert
  <2>2. t \in Allocated /\ t \notin pending \cup freed /\ tpc[t] = "none"
    BY <1>2 DEF TaskInsert, IInv, Fresh, Callers
  <2>3. PhaseOf(t) = "made"  BY <2>2, Phases
  <2>4. PhaseOf(t)' = "listed"  BY <2>1, <2>2 DEF PhaseOf
  <2>5. \A s \in Tasks \ {t} : PhaseOf(s)' = PhaseOf(s)  BY <2>1 DEF PhaseOf
  <2>6. UNCHANGED <<Over, Stopped>>  BY <2>1 DEF Over, Stopped
  <2> QED BY <2>1, <2>3, <2>4, <2>5, <2>6, Seen DEF Service!Next, Service!List
<1>3. CASE CheckBegin
  <2>1. /\ pending' = {} /\ valid' = valid \cup pending
        /\ \A t \in Tasks : tpc'[t] = IF t \in pending THEN "sleep" ELSE tpc[t]
        /\ UNCHANGED <<freed, addr, cancel, deinit>>
    BY <1>3 DEF CheckBegin
  <2>2. ASSUME NEW t \in Tasks
        PROVE  PhaseOf(t)' = IF PhaseOf(t) = "listed" THEN "due" ELSE PhaseOf(t)
    <3>1. CASE t \in pending
      <4>1. t \notin freed /\ PhaseOf(t) = "listed"  BY <3>1, <1>t, Phases DEF Place
      <4> QED BY <4>1, <3>1, <2>1 DEF PhaseOf
    <3>2. CASE t \notin pending
      <4>1. PhaseOf(t) # "listed"  BY <3>2, Phases
      <4> QED BY <4>1, <3>2, <2>1 DEF PhaseOf
    <3> QED BY <3>1, <3>2
  <2>3. Service!AllListed("due")  BY <2>2, AllSeen
  <2>4. UNCHANGED Over  BY <1>t, <2>1 DEF Over, Place
  <2>5. UNCHANGED Stopped  BY <2>1 DEF Stopped
  <2> QED BY <2>1, <2>3, <2>4, <2>5 DEF Service!Next, Service!Start
<1>4. ASSUME NEW t \in living, victim = None, cancel' = cancel \cup {t},
             UNCHANGED <<freed, tpc, pending, addr, valid, deinit>>
      PROVE  [Service!Next]_(Service!serviceVars)
  <2>1. t \in Tasks /\ t \notin cancel /\ tpc[t] # "none"
    BY <1>4, <1>t, TimeoutAssumption DEF TypeOK, Allocated, Place, TimeoutAssumption
  <2>2. tpc[t] # "gone"  BY <2>1, <1>t DEF Place
  <2>3. PhaseOf(t) \in {"due", "called"}  BY <2>1, <2>2, Phases
  <2>4. Phase[t] \in {"due", "called"}  BY <2>1, <2>3 DEF Phase
  <2>5. UNCHANGED <<Phase, Over, Stopped>>  BY <1>4 DEF Phase, PhaseOf, Over, Stopped
  <2> QED BY <1>4, <2>1, <2>4, <2>5 DEF Service!Next, Service!Cancel
<1>5. CASE CheckCancel
  <2>1. victim = None /\ UNCHANGED <<freed, tpc, pending, addr, valid, deinit>>
    BY <1>5 DEF CheckCancel
  <2>2. CASE UNCHANGED cancel  BY <2>1, <2>2, Unseen DEF Stopped
  <2>3. CASE \E t \in living : cancel' = cancel \cup {t}  BY <2>1, <2>3, <1>4
  <2> QED BY <1>5, <2>2, <2>3 DEF CheckCancel, Found
<1>6. CASE DeinitCancel  BY <1>6, <1>4 DEF DeinitCancel
<1>7. ASSUME NEW t \in Tasks, Wake(t) PROVE [Service!Next]_(Service!serviceVars)
  <2>1. /\ tpc[t] = "sleep" /\ UNCHANGED <<freed, pending, addr, valid, cancel, deinit>>
        /\ tpc'[t] = IF t \notin cancel /\ t \in valid THEN "call" ELSE "tested"
        /\ \A s \in Tasks \ {t} : tpc'[s] = tpc[s]
    BY <1>7, <1>t DEF Wake
  <2>2. t \notin freed /\ PhaseOf(t) = "due"  BY <2>1, Phases
  <2>3. \A s \in Tasks \ {t} : PhaseOf(s)' = PhaseOf(s)  BY <2>1 DEF PhaseOf
  <2>4. UNCHANGED <<Over, Stopped>>  BY <2>1 DEF Over, Stopped
  <2>5. CASE t \notin cancel /\ t \in valid
    <3>1. PhaseOf(t)' = "called"  BY <2>1, <2>2, <2>5 DEF PhaseOf
    <3>2. t \notin Over \cup cancel  BY <2>5 DEF Over
    <3> QED BY <2>1, <2>2, <2>3, <2>4, <3>1, <3>2, Seen DEF Service!Next, Service!Call
  <2>6. CASE ~(t \notin cancel /\ t \in valid)
    <3>1. PhaseOf(t)' = "due"  BY <2>1, <2>2, <2>6 DEF PhaseOf
    <3> QED BY <2>1, <2>2, <2>3, <2>4, <3>1, Seen DEF Service!serviceVars
  <2> QED BY <2>5, <2>6
<1>8. ASSUME NEW t \in Tasks, NEW next \in BOOLEAN, Called(t, next)
      PROVE  [Service!Next]_(Service!serviceVars)
  <2>1. /\ tpc[t] = "call" /\ UNCHANGED <<freed, pending, addr, cancel, deinit>>
        /\ tpc'[t] = "tested" /\ \A s \in Tasks \ {t} : tpc'[s] = tpc[s]
        /\ valid' = IF next THEN valid ELSE valid \ {t}
    BY <1>8, <1>t DEF Called
  <2>2. t \notin freed /\ PhaseOf(t) = "called"  BY <2>1, Phases
  <2>3. \A s \in Tasks \ {t} : PhaseOf(s)' = PhaseOf(s)  BY <2>1 DEF PhaseOf
  <2>4. PhaseOf(t)' = "due"  BY <2>1, <2>2 DEF PhaseOf
  <2>5. Over' \in {Over, Over \cup {t}}
    <3>1. CASE next
      <4>1. Over' = Over  BY <2>1, <3>1 DEF Over
      <4> QED BY <4>1
    <3>2. CASE ~next
      <4>1. Over' = Over \cup {t}  BY <2>1, <3>2 DEF Over
      <4> QED BY <4>1
    <3> QED BY <3>1, <3>2
  <2>6. UNCHANGED Stopped  BY <2>1 DEF Stopped
  <2> QED BY <2>1, <2>2, <2>3, <2>4, <2>5, <2>6, Seen DEF Service!Next, Service!CallEnds
<1>9. ASSUME NEW t \in Tasks, Tested(t) \/ Request(t) PROVE [Service!Next]_(Service!serviceVars)
  <2>1. /\ tpc[t] \in {"tested", "request"}
        /\ UNCHANGED <<freed, pending, addr, valid, cancel, deinit>>
        /\ tpc'[t] \in {"exit", "request", "sleep"} /\ \A s \in Tasks \ {t} : tpc'[s] = tpc[s]
    BY <1>9, <1>t DEF Tested, Request
  <2>2. \A s \in Tasks : PhaseOf(s)' = PhaseOf(s)  BY <2>1 DEF PhaseOf
  <2>3. UNCHANGED <<Over, Stopped>>  BY <2>1 DEF Over, Stopped
  <2> QED BY <2>1, <2>2, <2>3 DEF Service!serviceVars, Phase
<1>10. ASSUME NEW t \in Tasks, Exit(t) PROVE [Service!Next]_(Service!serviceVars)
  <2>1. /\ tpc[t] = "exit" /\ UNCHANGED <<pending, addr, valid, cancel, deinit>>
        /\ tpc'[t] = "gone" /\ \A s \in Tasks \ {t} : tpc'[s] = tpc[s]
        /\ freed' = freed \cup {t}
    BY <1>10, <1>t DEF Exit
  <2>2. PhaseOf(t) = "due" /\ t \in cancel  BY <2>1, <1>t, Phases DEF Place
  <2>3. \A s \in Tasks \ {t} : PhaseOf(s)' = PhaseOf(s)  BY <2>1 DEF PhaseOf
  <2>4. PhaseOf(t)' = "freed"  BY <2>1 DEF PhaseOf
  <2>5. UNCHANGED <<Over, Stopped>>  BY <2>1 DEF Over, Stopped
  <2> QED BY <2>1, <2>2, <2>3, <2>4, <2>5, Seen DEF Service!Next, Service!Free
<1>11. CASE DeinitClear
  <2>1. /\ living = {} /\ freed' = freed \cup pending /\ pending' = {}
        /\ deinit = "clear" /\ deinit' = "join" /\ UNCHANGED <<tpc, addr, valid, cancel>>
    BY <1>11 DEF DeinitClear
  <2>2. ASSUME NEW t \in Tasks
        PROVE  PhaseOf(t)' = IF PhaseOf(t) = "listed" THEN "freed" ELSE PhaseOf(t)
    <3>1. t \in pending <=> PhaseOf(t) = "listed"  BY Phases
    <3> QED BY <3>1, <2>1 DEF PhaseOf
  <2>3. Service!AllListed("freed")  BY <2>2, AllSeen
  <2>4. ASSUME NEW t \in Tasks, Phase[t] \in {"due", "called"} PROVE t \in cancel
    <3>1. tpc[t] # "none"  BY <2>4, Phases DEF Phase
    <3> QED BY <3>1, <2>1, <1>t DEF Place
  <2>5. Stopped = FALSE /\ Stopped' = TRUE  BY <2>1 DEF Stopped
  <2>6. UNCHANGED Over  BY <2>1 DEF Over
  <2> QED BY <2>1, <2>3, <2>4, <2>5, <2>6 DEF Service!Next, Service!Stop
<1>12. ASSUME \/ \E u \in Users : TaskReturn(u) \/ RemoveInsert(u)
                    \/ \E t \in Tasks : TaskRemove(u, t)
              \/ CheckTest \/ CheckUnlink \/ CheckEnd
              \/ DeinitBegin \/ DeinitUnlink \/ DeinitJoin \/ UNCHANGED vars
       PROVE  [Service!Next]_(Service!serviceVars)
  <2>1. UNCHANGED <<freed, tpc, pending, addr, valid, cancel>>
    BY <1>12 DEF TaskReturn, RemoveInsert, TaskRemove, CheckTest, CheckUnlink, CheckEnd,
       DeinitBegin, DeinitUnlink, DeinitJoin, vars
  <2>2. UNCHANGED deinit \/ (deinit = "up" /\ deinit' = "clear")
          \/ (deinit = "join" /\ deinit' = "done")
    BY <1>12 DEF TaskReturn, RemoveInsert, TaskRemove, CheckTest, CheckUnlink, CheckEnd,
       DeinitBegin, DeinitUnlink, DeinitJoin, vars
  <2>3. UNCHANGED Stopped  BY <2>2 DEF Stopped
  <2> QED BY <2>1, <2>3, Unseen
<1> QED
  BY <1>1, <1>2, <1>3, <1>5, <1>6, <1>7, <1>8, <1>9, <1>10, <1>11, <1>12
  DEF Next, Finish, Checker, Timer, Stopping

\* The lists, the checker and the threads of the tasks are a timer service
\* (ImplementsService, ipc_timeout_task.c:52-240), for any callers, tasks and
\* addresses: whatever runs at the same time, and up to the point where a freed
\* record is unlinked, no task is called after it was cancelled or said it was
\* over, and none is cancelled or freed twice, or freed during its call.
THEOREM ServiceImplemented == Spec => ImplementsService
<1>1. Init => Service!Init  BY TimeoutAssumption, ServiceInit
<1>2. IInv /\ [Next]_vars => [Service!Next]_(Service!serviceVars)
  BY TimeoutAssumption, ServiceStep
<1> QED BY <1>1, <1>2, Invariant, PTL DEF Spec, ImplementsService, Service!Spec

=============================================================================
