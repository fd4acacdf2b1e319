--------------------------- MODULE SafeQueueProofs ---------------------------
(***************************************************************************)
(* Proofs about SafeQueue, for any number of threads and any capacity.     *)
(***************************************************************************)
EXTENDS SafeQueue, FiniteSetTheorems, TLAPS

\* The part of TypeOK that is inductive by itself: that the counters do not go
\* below zero needs what they count (CountersCorrect).
Typed == ShapeOK /\ mb_push_waiting \in Int /\ mb_pop_waiting \in Int

\* The critical section of push() keeps the types, whatever counter value it
\* starts from.
LEMMA PushBodyTypes ==
  ASSUME Typed, NEW p \in Producers, NEW w \in Int, NEW x \in Items,
         PushBody(p, w, x)
  PROVE  /\ mc_queue' \in Seq(Items)
         /\ mb_push_waiting' \in Int
         /\ pc' \in [Threads -> {"idle", "push_wait", "push_woken", "push_signal",
                         "push_notify", "pop_wait", "pop_woken", "pop_signal",
                         "pop_notify", "wake_poppers", "wake_pushers"}]
         /\ pc'[p] \in {"idle", "push_wait", "push_signal"}
         /\ \A t \in Threads \ {p} : pc'[t] = pc[t]
         /\ \A q \in Producers :
              pc'[q] \in {"idle", "push_wait", "push_woken", "push_signal", "push_notify"}
         /\ \A d \in Consumers :
              pc'[d] \in {"idle", "pop_wait", "pop_woken", "pop_signal", "pop_notify"}
         /\ \A k \in Controllers : pc'[k] \in {"idle", "wake_poppers", "wake_pushers"}
         /\ UNCHANGED <<mn_maxsize, mb_block, mb_pop_waiting>>
<1>a. /\ pc'[p] \in {"idle", "push_wait", "push_signal"} /\ p \in Threads
      /\ \A t \in Threads \ {p} : pc'[t] = pc[t]
  BY DEF PushBody, Typed, ShapeOK, Threads
<1>b. ASSUME NEW t \in Threads
      PROVE  pc'[t] = pc[t] \/ (t = p /\ pc'[t] \in {"idle", "push_wait", "push_signal"})
  BY <1>a
<1>c. /\ \A q \in Producers :
           pc'[q] \in {"idle", "push_wait", "push_woken", "push_signal", "push_notify"}
      /\ \A d \in Consumers :
           pc'[d] \in {"idle", "pop_wait", "pop_woken", "pop_signal", "pop_notify"}
      /\ \A k \in Controllers : pc'[k] \in {"idle", "wake_poppers", "wake_pushers"}
  BY <1>b, ThreadAssumption DEF ThreadAssumption, Typed, ShapeOK, Threads
<1>1. CASE Full /\ mb_block /\ mc_queue' = mc_queue
           /\ pc' = [pc EXCEPT ![p] = "push_wait"] /\ mb_push_waiting' = w + 1
  BY <1>1, <1>a, <1>c DEF PushBody, Typed, ShapeOK, Threads
<1>2. CASE Full /\ ~mb_block /\ mc_queue' = mc_queue
           /\ pc' = [pc EXCEPT ![p] = "idle"] /\ mb_push_waiting' = w
  BY <1>2, <1>a, <1>c DEF PushBody, Typed, ShapeOK, Threads
<1>3. CASE ~Full /\ mc_queue' = Append(mc_queue, x)
           /\ pc' = [pc EXCEPT ![p] = "push_signal"] /\ mb_push_waiting' = w
  BY <1>3, <1>a, <1>c DEF PushBody, Typed, ShapeOK, Threads
<1> QED
  BY <1>1, <1>2, <1>3 DEF PushBody

\* The same for pop().
LEMMA PopBodyTypes ==
  ASSUME Typed, NEW c \in Consumers, NEW w \in Int, PopBody(c, w)
  PROVE  /\ mc_queue' \in Seq(Items)
         /\ mb_pop_waiting' \in Int
         /\ pc' \in [Threads -> {"idle", "push_wait", "push_woken", "push_signal",
                         "push_notify", "pop_wait", "pop_woken", "pop_signal",
                         "pop_notify", "wake_poppers", "wake_pushers"}]
         /\ pc'[c] \in {"idle", "pop_wait", "pop_signal"}
         /\ \A t \in Threads \ {c} : pc'[t] = pc[t]
         /\ \A q \in Producers :
              pc'[q] \in {"idle", "push_wait", "push_woken", "push_signal", "push_notify"}
         /\ \A d \in Consumers :
              pc'[d] \in {"idle", "pop_wait", "pop_woken", "pop_signal", "pop_notify"}
         /\ \A k \in Controllers : pc'[k] \in {"idle", "wake_poppers", "wake_pushers"}
         /\ UNCHANGED <<mn_maxsize, mb_block, mb_push_waiting, sent>>
<1>a. /\ pc'[c] \in {"idle", "pop_wait", "pop_signal"} /\ c \in Threads
      /\ \A t \in Threads \ {c} : pc'[t] = pc[t]
  BY DEF PopBody, Typed, ShapeOK, Threads
<1>b. ASSUME NEW t \in Threads
      PROVE  pc'[t] = pc[t] \/ (t = c /\ pc'[t] \in {"idle", "pop_wait", "pop_signal"})
  BY <1>a
<1>c. /\ \A q \in Producers :
           pc'[q] \in {"idle", "push_wait", "push_woken", "push_signal", "push_notify"}
      /\ \A d \in Consumers :
           pc'[d] \in {"idle", "pop_wait", "pop_woken", "pop_signal", "pop_notify"}
      /\ \A k \in Controllers : pc'[k] \in {"idle", "wake_poppers", "wake_pushers"}
  BY <1>b, ThreadAssumption DEF ThreadAssumption, Typed, ShapeOK, Threads
<1>1. CASE mc_queue = <<>> /\ mb_block /\ mc_queue' = mc_queue
           /\ pc' = [pc EXCEPT ![c] = "pop_wait"] /\ mb_pop_waiting' = w + 1
  BY <1>1, <1>a, <1>c DEF PopBody, Typed, ShapeOK, Threads
<1>2. CASE mc_queue = <<>> /\ ~mb_block /\ mc_queue' = mc_queue
           /\ pc' = [pc EXCEPT ![c] = "idle"] /\ mb_pop_waiting' = w
  BY <1>2, <1>a, <1>c DEF PopBody, Typed, ShapeOK, Threads
<1>3. CASE mc_queue # <<>> /\ mc_queue' = Tail(mc_queue)
           /\ pc' = [pc EXCEPT ![c] = "pop_signal"] /\ mb_pop_waiting' = w
  BY <1>3, <1>a, <1>c DEF PopBody, Typed, ShapeOK, Threads
<1> QED
  BY <1>1, <1>2, <1>3 DEF PopBody

\* Every thread is of one kind, and stays at the places of that kind, whatever
\* the calls of push(), pop(), clear(), set_block() and set_maxsize() do.
LEMMA TypedCorrect == Spec => []Typed
<1> USE ThreadAssumption, SizeAssumption
<1>1. Init => Typed
  BY DEF Init, Typed, ShapeOK, Threads
<1>2. Typed /\ [Next]_vars => Typed'
  <2> SUFFICES ASSUME Typed, [Next]_vars PROVE Typed'
    OBVIOUS
  <2>1. ASSUME NEW p \in Producers, Push(p) PROVE Typed'
    <3>1. sent[p] + 1 \in 1..MaxItems /\ mb_push_waiting \in Int
      BY <2>1 DEF Push, Typed, ShapeOK
    <3>2. <<p, sent[p] + 1>> \in Items
      BY <3>1 DEF Items
    <3>3. PushBody(p, mb_push_waiting, <<p, sent[p] + 1>>)
      BY <2>1 DEF Push
    <3>4. /\ sent' \in [Producers -> 0..MaxItems]
          /\ sent'[p] \in 1..MaxItems
          /\ \A q \in Producers \ {p} : sent'[q] = sent[q]
      BY <2>1, <3>1 DEF Push, Typed, ShapeOK
    <3>5. \A q \in Producers : pc'[q] # "idle" => sent'[q] \in 1..MaxItems
      <4>1. \A t \in Threads \ {p} : pc'[t] = pc[t]  BY <3>1, <3>2, <3>3, PushBodyTypes
      <4> QED BY <4>1, <3>4 DEF Typed, ShapeOK, Threads
    <3> QED
      BY <3>1, <3>2, <3>3, <3>4, <3>5, PushBodyTypes DEF Typed, ShapeOK
  <2>2. ASSUME NEW p \in Producers, PushResume(p) PROVE Typed'
    <3>1. sent[p] \in 1..MaxItems /\ mb_push_waiting - 1 \in Int
      BY <2>2 DEF PushResume, Typed, ShapeOK
    <3>2. <<p, sent[p]>> \in Items
      BY <3>1 DEF Items
    <3>3. PushBody(p, mb_push_waiting - 1, <<p, sent[p]>>) /\ UNCHANGED sent
      BY <2>2 DEF PushResume
    <3>4. \A q \in Producers : pc'[q] # "idle" => sent'[q] \in 1..MaxItems
      <4>1. \A t \in Threads \ {p} : pc'[t] = pc[t]  BY <3>1, <3>2, <3>3, PushBodyTypes
      <4> QED BY <4>1, <3>1, <3>3 DEF Typed, ShapeOK, Threads
    <3> QED
      BY <3>1, <3>2, <3>3, <3>4, PushBodyTypes DEF Typed, ShapeOK
  <2>3. ASSUME NEW p \in Producers, PushSignal(p) PROVE Typed'
    BY <2>3 DEF PushSignal, Typed, ShapeOK, Threads
  <2>4. ASSUME NEW p \in Producers, PushNotify(p) PROVE Typed'
    BY <2>4 DEF PushNotify, AsleepPoppers, At, Typed, ShapeOK, Threads
  <2>5. ASSUME NEW c \in Consumers, Pop(c) PROVE Typed'
    <3>1. mb_pop_waiting \in Int /\ PopBody(c, mb_pop_waiting)
      BY <2>5 DEF Pop, Typed, ShapeOK
    <3>2. \A q \in Producers : pc'[q] # "idle" => sent'[q] \in 1..MaxItems
      <4>1. UNCHANGED sent /\ \A t \in Threads \ {c} : pc'[t] = pc[t]
        BY <3>1, PopBodyTypes
      <4> QED BY <4>1, ThreadAssumption DEF ThreadAssumption, Typed, ShapeOK, Threads
    <3> QED
      BY <3>1, <3>2, PopBodyTypes DEF Typed, ShapeOK
  <2>6. ASSUME NEW c \in Consumers, PopResume(c) PROVE Typed'
    <3>1. mb_pop_waiting - 1 \in Int /\ PopBody(c, mb_pop_waiting - 1)
      BY <2>6 DEF PopResume, Typed, ShapeOK
    <3>2. \A q \in Producers : pc'[q] # "idle" => sent'[q] \in 1..MaxItems
      <4>1. UNCHANGED sent /\ \A t \in Threads \ {c} : pc'[t] = pc[t]
        BY <3>1, PopBodyTypes
      <4> QED BY <4>1, ThreadAssumption DEF ThreadAssumption, Typed, ShapeOK, Threads
    <3> QED
      BY <3>1, <3>2, PopBodyTypes DEF Typed, ShapeOK
  <2>7. ASSUME NEW c \in Consumers, PopSignal(c) PROVE Typed'
    BY <2>7 DEF PopSignal, Typed, ShapeOK, Threads
  <2>8. ASSUME NEW c \in Consumers, PopNotify(c) PROVE Typed'
    BY <2>8 DEF PopNotify, AsleepPushers, At, Typed, ShapeOK, Threads
  <2>9. ASSUME NEW k \in Controllers, ControllerStep(k) PROVE Typed'
    <3>1. CASE Clear(k)
      BY <3>1 DEF Clear, Typed, ShapeOK, Threads
    <3>2. CASE SetBlock(k)
      BY <3>2 DEF SetBlock, Typed, ShapeOK, Threads
    <3>3. CASE WakePoppers(k)
      BY <3>3 DEF WakePoppers, WakeAll, AsleepPoppers, At, Typed, ShapeOK, Threads
    <3>4. CASE WakePushers(k)
      BY <3>4 DEF WakePushers, WakeAll, AsleepPushers, At, Typed, ShapeOK, Threads
    <3>5. ASSUME NEW n \in Sizes, SetMaxsize(k, n) PROVE Typed'
      BY <3>5 DEF SetMaxsize, Typed, ShapeOK
    <3> QED
      BY <2>9, <3>1, <3>2, <3>3, <3>4, <3>5 DEF ControllerStep
  <2>10. ASSUME NEW t \in Producers \cup Consumers, SpuriousWakeup(t) PROVE Typed'
    BY <2>10 DEF SpuriousWakeup, Typed, ShapeOK, Threads
  <2>11. CASE UNCHANGED vars
    BY <2>11 DEF vars, Typed, ShapeOK
  <2> QED
    BY <2>1, <2>2, <2>3, <2>4, <2>5, <2>6, <2>7, <2>8, <2>9, <2>10, <2>11
       DEF Next, ProducerStep, ConsumerStep
<1> QED
  BY <1>1, <1>2, PTL DEF Spec

-----------------------------------------------------------------------------
(* The queue is a bounded FIFO.                                            *)

\* Every step of the threads is a Put, a Take, a Purge or a Resize of the
\* abstract queue, or leaves it alone.
LEMMA FifoStep ==
  ASSUME Typed, Typed', [Next]_vars
  PROVE  [Fifo!FifoNext]_<<mc_queue, mn_maxsize>>
<1> USE DEF Fifo!FifoNext, Fifo!Put, Fifo!Take, Fifo!Purge, Fifo!Resize
<1>1. ASSUME NEW p \in Producers, ProducerStep(p)
      PROVE  [Fifo!FifoNext]_<<mc_queue, mn_maxsize>>
  <2>1. ASSUME NEW w, NEW x \in Items, PushBody(p, w, x)
        PROVE  [Fifo!FifoNext]_<<mc_queue, mn_maxsize>>
    BY <2>1 DEF PushBody, Full, Typed, ShapeOK
  <2>2. CASE Push(p)
    <3>1. <<p, sent[p] + 1>> \in Items
      BY <2>2 DEF Push, Typed, ShapeOK, Items
    <3> QED
      BY <2>1, <2>2, <3>1 DEF Push
  <2>3. CASE PushResume(p)
    <3>1. <<p, sent[p]>> \in Items
      BY <2>3 DEF PushResume, Typed, ShapeOK, Items
    <3> QED
      BY <2>1, <2>3, <3>1 DEF PushResume
  <2> QED
    BY <1>1, <2>2, <2>3 DEF ProducerStep, PushSignal, PushNotify
<1>2. ASSUME NEW c \in Consumers, ConsumerStep(c)
      PROVE  [Fifo!FifoNext]_<<mc_queue, mn_maxsize>>
  BY <1>2 DEF ConsumerStep, Pop, PopResume, PopBody, PopSignal, PopNotify
<1>3. ASSUME NEW k \in Controllers, ControllerStep(k)
      PROVE  [Fifo!FifoNext]_<<mc_queue, mn_maxsize>>
  BY <1>3, SizeAssumption
     DEF ControllerStep, Clear, SetBlock, WakePoppers, WakePushers, WakeAll,
         SetMaxsize, Typed, ShapeOK
<1>4. CASE UNCHANGED vars
  BY <1>4 DEF vars
<1> QED
  BY <1>1, <1>2, <1>3, <1>4 DEF Next, SpuriousWakeup

\* The mutex, the condition variables and the unlocked counters implement the
\* bounded FIFO of BoundedFifo.
THEOREM FifoImplemented == Spec => ImplementsFifo
<1>1. Init => Fifo!FifoInit
  BY DEF Init, Fifo!FifoInit
<1>2. Typed /\ Typed' /\ [Next]_vars => [Fifo!FifoNext]_<<mc_queue, mn_maxsize>>
  BY FifoStep
<1>3. [Fifo!FifoNext]_<<mc_queue, mn_maxsize>> => [Fifo!FifoNext]_(Fifo!fifoVars)
  BY DEF Fifo!fifoVars
<1> QED
  BY <1>1, <1>2, <1>3, TypedCorrect, PTL DEF Spec, ImplementsFifo, Fifo!FifoSpec

\* However the threads interleave, the queue never holds more than its capacity.
THEOREM CapacityCorrect == Spec => []CapacityRespected
<1>1. Init => CapacityRespected
  BY SizeAssumption DEF Init, CapacityRespected
<1>2. Typed /\ Typed' /\ CapacityRespected /\ [Next]_vars => CapacityRespected'
  <2> SUFFICES ASSUME Typed, Typed', CapacityRespected, [Next]_vars
               PROVE  CapacityRespected'
    OBVIOUS
  <2>1. ASSUME NEW x \in Items, Fifo!Put(x) PROVE CapacityRespected'
    BY <2>1 DEF Fifo!Put, CapacityRespected, Typed, ShapeOK
  <2>2. CASE Fifo!Take
    BY <2>2 DEF Fifo!Take, CapacityRespected, Typed, ShapeOK
  <2>3. CASE Fifo!Purge
    BY <2>3 DEF Fifo!Purge, CapacityRespected, Typed, ShapeOK
  <2>4. CASE Fifo!Resize
    BY <2>4 DEF Fifo!Resize, CapacityRespected, Typed, ShapeOK
  <2>5. CASE UNCHANGED <<mc_queue, mn_maxsize>>
    BY <2>5 DEF CapacityRespected
  <2> QED
    BY <2>1, <2>2, <2>3, <2>4, <2>5, FifoStep DEF Fifo!FifoNext
<1> QED
  BY <1>1, <1>2, TypedCorrect, PTL DEF Spec

-----------------------------------------------------------------------------
(* The waiting counters and the wake-ups.                                  *)

\* The set of threads at some place of the code is finite.
LEMMA AtFinite ==
  ASSUME NEW T, IsFiniteSet(T), NEW places
  PROVE  /\ IsFiniteSet(At(T, places))
         /\ Cardinality(At(T, places)) \in Nat
<1>1. At(T, places) \in SUBSET T
  BY DEF At
<1> QED
  BY <1>1, FS_Subset, FS_CardinalityType

\* How mb_push_waiting and the producers inside wait() change together.
LEMMA PushCounterStep ==
  ASSUME Typed, Typed', [Next]_vars,
         mb_push_waiting = Cardinality(WaitingPushers)
  PROVE  mb_push_waiting' = Cardinality(WaitingPushers')
<1> USE DEF WaitingPushers, At
<1>fin. IsFiniteSet(WaitingPushers) /\ Cardinality(WaitingPushers) \in Nat
  BY ThreadAssumption, AtFinite
<1>1. ASSUME NEW p \in Producers, Push(p)
      PROVE  mb_push_waiting' = Cardinality(WaitingPushers')
  <2>1. p \notin WaitingPushers
    BY <1>1 DEF Push
  <2>2. CASE pc' = [pc EXCEPT ![p] = "push_wait"] /\ mb_push_waiting' = mb_push_waiting + 1
    <3>1. WaitingPushers' = WaitingPushers \cup {p}
      BY <2>2 DEF Typed, ShapeOK, Threads
    <3> QED
      BY <1>fin, <2>1, <2>2, <3>1, FS_AddElement
  <2>3. CASE /\ \/ pc' = [pc EXCEPT ![p] = "idle"]
                \/ pc' = [pc EXCEPT ![p] = "push_signal"]
             /\ mb_push_waiting' = mb_push_waiting
    <3>1. WaitingPushers' = WaitingPushers
      BY <2>1, <2>3 DEF Typed, ShapeOK, Threads
    <3> QED
      BY <2>3, <3>1
  <2> QED
    BY <1>1, <2>2, <2>3 DEF Push, PushBody
<1>2. ASSUME NEW p \in Producers, PushResume(p)
      PROVE  mb_push_waiting' = Cardinality(WaitingPushers')
  <2>1. p \in WaitingPushers
    BY <1>2 DEF PushResume
  <2>2. CASE /\ pc' = [pc EXCEPT ![p] = "push_wait"]
             /\ mb_push_waiting' = mb_push_waiting - 1 + 1
    <3>1. WaitingPushers' = WaitingPushers
      BY <2>1, <2>2 DEF Typed, ShapeOK, Threads
    <3>2. mb_push_waiting' = mb_push_waiting
      BY <2>2 DEF Typed, ShapeOK
    <3> QED
      BY <3>1, <3>2
  <2>3. CASE /\ \/ pc' = [pc EXCEPT ![p] = "idle"]
                \/ pc' = [pc EXCEPT ![p] = "push_signal"]
             /\ mb_push_waiting' = mb_push_waiting - 1
    <3>1. WaitingPushers' = WaitingPushers \ {p}
      BY <2>1, <2>3 DEF Typed, ShapeOK, Threads
    <3> QED
      BY <1>fin, <2>1, <2>3, <3>1, FS_RemoveElement
  <2> QED
    BY <1>2, <2>2, <2>3 DEF PushResume, PushBody
<1>3. CASE mb_push_waiting' = mb_push_waiting /\ WaitingPushers' = WaitingPushers
  BY <1>3
<1>4. ASSUME NEW p \in Producers, PushSignal(p) \/ PushNotify(p)
      PROVE  mb_push_waiting' = mb_push_waiting /\ WaitingPushers' = WaitingPushers
  BY <1>4, ThreadAssumption DEF PushSignal, PushNotify, AsleepPoppers, Typed, ShapeOK, Threads
<1>5. ASSUME NEW c \in Consumers, ConsumerStep(c)
      PROVE  mb_push_waiting' = mb_push_waiting /\ WaitingPushers' = WaitingPushers
  BY <1>5, ThreadAssumption
     DEF ConsumerStep, Pop, PopResume, PopBody, PopSignal, PopNotify,
         AsleepPushers, Typed, ShapeOK, Threads
<1>6. ASSUME NEW k \in Controllers, ControllerStep(k)
      PROVE  mb_push_waiting' = mb_push_waiting /\ WaitingPushers' = WaitingPushers
  BY <1>6, ThreadAssumption
     DEF ControllerStep, Clear, SetBlock, WakePoppers, WakePushers, WakeAll,
         SetMaxsize, AsleepPushers, AsleepPoppers, Typed, ShapeOK, Threads
<1>7. ASSUME NEW t \in Producers \cup Consumers, SpuriousWakeup(t)
      PROVE  mb_push_waiting' = mb_push_waiting /\ WaitingPushers' = WaitingPushers
  BY <1>7 DEF SpuriousWakeup, Typed, ShapeOK, Threads
<1>8. CASE UNCHANGED vars
  BY <1>8 DEF vars
<1> QED
  BY <1>1, <1>2, <1>3, <1>4, <1>5, <1>6, <1>7, <1>8 DEF Next, ProducerStep

\* The same for mb_pop_waiting and the consumers.
LEMMA PopCounterStep ==
  ASSUME Typed, Typed', [Next]_vars,
         mb_pop_waiting = Cardinality(WaitingPoppers)
  PROVE  mb_pop_waiting' = Cardinality(WaitingPoppers')
<1> USE DEF WaitingPoppers, At
<1>fin. IsFiniteSet(WaitingPoppers) /\ Cardinality(WaitingPoppers) \in Nat
  BY ThreadAssumption, AtFinite
<1>1. ASSUME NEW c \in Consumers, Pop(c)
      PROVE  mb_pop_waiting' = Cardinality(WaitingPoppers')
  <2>1. c \notin WaitingPoppers
    BY <1>1 DEF Pop
  <2>2. CASE pc' = [pc EXCEPT ![c] = "pop_wait"] /\ mb_pop_waiting' = mb_pop_waiting + 1
    <3>1. WaitingPoppers' = WaitingPoppers \cup {c}
      BY <2>2 DEF Typed, ShapeOK, Threads
    <3> QED
      BY <1>fin, <2>1, <2>2, <3>1, FS_AddElement
  <2>3. CASE /\ \/ pc' = [pc EXCEPT ![c] = "idle"]
                \/ pc' = [pc EXCEPT ![c] = "pop_signal"]
             /\ mb_pop_waiting' = mb_pop_waiting
    <3>1. WaitingPoppers' = WaitingPoppers
      BY <2>1, <2>3 DEF Typed, ShapeOK, Threads
    <3> QED
      BY <2>3, <3>1
  <2> QED
    BY <1>1, <2>2, <2>3 DEF Pop, PopBody
<1>2. ASSUME NEW c \in Consumers, PopResume(c)
      PROVE  mb_pop_waiting' = Cardinality(WaitingPoppers')
  <2>1. c \in WaitingPoppers
    BY <1>2 DEF PopResume
  <2>2. CASE /\ pc' = [pc EXCEPT ![c] = "pop_wait"]
             /\ mb_pop_waiting' = mb_pop_waiting - 1 + 1
    <3>1. WaitingPoppers' = WaitingPoppers
      BY <2>1, <2>2 DEF Typed, ShapeOK, Threads
    <3>2. mb_pop_waiting' = mb_pop_waiting
      BY <2>2 DEF Typed, ShapeOK
    <3> QED
      BY <3>1, <3>2
  <2>3. CASE /\ \/ pc' = [pc EXCEPT ![c] = "idle"]
                \/ pc' = [pc EXCEPT ![c] = "pop_signal"]
             /\ mb_pop_waiting' = mb_pop_waiting - 1
    <3>1. WaitingPoppers' = WaitingPoppers \ {c}
      BY <2>1, <2>3 DEF Typed, ShapeOK, Threads
    <3> QED
      BY <1>fin, <2>1, <2>3, <3>1, FS_RemoveElement
  <2> QED
    BY <1>2, <2>2, <2>3 DEF PopResume, PopBody
<1>3. CASE mb_pop_waiting' = mb_pop_waiting /\ WaitingPoppers' = WaitingPoppers
  BY <1>3
<1>4. ASSUME NEW c \in Consumers, PopSignal(c) \/ PopNotify(c)
      PROVE  mb_pop_waiting' = mb_pop_waiting /\ WaitingPoppers' = WaitingPoppers
  BY <1>4, ThreadAssumption DEF PopSignal, PopNotify, AsleepPushers, Typed, ShapeOK, Threads
<1>5. ASSUME NEW p \in Producers, ProducerStep(p)
      PROVE  mb_pop_waiting' = mb_pop_waiting /\ WaitingPoppers' = WaitingPoppers
  BY <1>5, ThreadAssumption
     DEF ProducerStep, Push, PushResume, PushBody, PushSignal, PushNotify,
         AsleepPoppers, Typed, ShapeOK, Threads
<1>6. ASSUME NEW k \in Controllers, ControllerStep(k)
      PROVE  mb_pop_waiting' = mb_pop_waiting /\ WaitingPoppers' = WaitingPoppers
  BY <1>6, ThreadAssumption
     DEF ControllerStep, Clear, SetBlock, WakePoppers, WakePushers, WakeAll,
         SetMaxsize, AsleepPushers, AsleepPoppers, Typed, ShapeOK, Threads
<1>7. ASSUME NEW t \in Producers \cup Consumers, SpuriousWakeup(t)
      PROVE  mb_pop_waiting' = mb_pop_waiting /\ WaitingPoppers' = WaitingPoppers
  BY <1>7 DEF SpuriousWakeup, Typed, ShapeOK, Threads
<1>8. CASE UNCHANGED vars
  BY <1>8 DEF vars
<1> QED
  BY <1>1, <1>2, <1>3, <1>4, <1>5, <1>6, <1>7, <1>8 DEF Next, ConsumerStep

\* mb_push_waiting and mb_pop_waiting, read without the mutex to decide whether
\* to notify, always equal the number of threads inside wait() or leaving it.
THEOREM CountersCorrect == Spec => []WaitingCountersExact
<1>1. Init => WaitingCountersExact
  <2> SUFFICES ASSUME Init PROVE WaitingCountersExact
    OBVIOUS
  <2>1. WaitingPushers = {} /\ WaitingPoppers = {}
    BY DEF Init, WaitingPushers, WaitingPoppers, At, Threads
  <2> QED
    BY <2>1, FS_EmptySet DEF Init, WaitingCountersExact
<1>2. Typed /\ Typed' /\ WaitingCountersExact /\ [Next]_vars => WaitingCountersExact'
  BY PushCounterStep, PopCounterStep DEF WaitingCountersExact
<1> QED
  BY <1>1, <1>2, TypedCorrect, PTL DEF Spec

\* Every thread stays at the places of its kind and no counter goes below zero,
\* whatever the calls of push(), pop(), clear(), set_block() and set_maxsize() do.
THEOREM TypeCorrect == Spec => []TypeOK
<1>1. Typed /\ WaitingCountersExact => TypeOK
  <2> SUFFICES ASSUME Typed, WaitingCountersExact PROVE TypeOK
    OBVIOUS
  <2>1. /\ Cardinality(WaitingPushers) \in Nat
        /\ Cardinality(WaitingPoppers) \in Nat
    BY ThreadAssumption, AtFinite DEF ThreadAssumption, WaitingPushers, WaitingPoppers
  <2> QED
    BY <2>1 DEF Typed, TypeOK, WaitingCountersExact
<1> QED
  BY <1>1, TypedCorrect, CountersCorrect, PTL

\* A zero counter means that no consumer (producer) sleeps.
LEMMA ZeroMeansNobody ==
  ASSUME Typed, WaitingCountersExact
  PROVE  /\ ~(mb_pop_waiting > 0) => AsleepPoppers = {}
         /\ ~(mb_push_waiting > 0) => AsleepPushers = {}
<1>1. /\ IsFiniteSet(WaitingPoppers) /\ Cardinality(WaitingPoppers) \in Nat
      /\ IsFiniteSet(WaitingPushers) /\ Cardinality(WaitingPushers) \in Nat
  BY ThreadAssumption, AtFinite DEF WaitingPoppers, WaitingPushers
<1>2. AsleepPoppers \subseteq WaitingPoppers /\ AsleepPushers \subseteq WaitingPushers
  BY DEF AsleepPoppers, WaitingPoppers, AsleepPushers, WaitingPushers, At
<1>3. ~(mb_pop_waiting > 0) => WaitingPoppers = {}
  BY <1>1, FS_EmptySet DEF WaitingCountersExact
<1>4. ~(mb_push_waiting > 0) => WaitingPushers = {}
  BY <1>1, FS_EmptySet DEF WaitingCountersExact
<1> QED
  BY <1>2, <1>3, <1>4

\* No step leaves an element behind a sleeping consumer without a wake-up for it.
LEMMA PopperStep ==
  ASSUME Typed, Typed', WaitingCountersExact, NoStrandedPopper, [Next]_vars
  PROVE  NoStrandedPopper'
<1> DEFINE Size == Len(mc_queue)
           Signals == Cardinality(SignalsToPop)
           Woken == Cardinality(WokenPoppers)
<1>fin. /\ IsFiniteSet(SignalsToPop) /\ Signals \in Nat
        /\ IsFiniteSet(WokenPoppers) /\ Woken \in Nat
        /\ Signals' \in Nat /\ Woken' \in Nat
        /\ Size \in Nat /\ Size' \in Nat
  <2>1. IsFiniteSet(SignalsToPop) /\ IsFiniteSet(WokenPoppers) /\ Signals \in Nat /\ Woken \in Nat
    BY ThreadAssumption, AtFinite DEF SignalsToPop, WokenPoppers
  <2>2. Signals' \in Nat /\ Woken' \in Nat
    <3>1. SignalsToPop' \in SUBSET Producers /\ WokenPoppers' \in SUBSET Consumers
      BY DEF SignalsToPop, WokenPoppers, At
    <3> QED
      BY <3>1, ThreadAssumption, FS_Subset, FS_CardinalityType
  <2> QED
    BY <2>1, <2>2 DEF Typed, ShapeOK
<1>0. AsleepPoppers # {} => Size <= Signals + Woken
  BY DEF NoStrandedPopper
<1> SUFFICES AsleepPoppers' # {} => Size' <= Signals' + Woken'
  BY DEF NoStrandedPopper
<1>empty. Size' = 0 => (AsleepPoppers' # {} => Size' <= Signals' + Woken')
  BY <1>fin
<1>same. ASSUME UNCHANGED <<AsleepPoppers, SignalsToPop, WokenPoppers, mc_queue>>
         PROVE  AsleepPoppers' # {} => Size' <= Signals' + Woken'
  BY <1>0, <1>same
<1>1. ASSUME NEW p \in Producers, NEW w, NEW x, PushBody(p, w, x),
             pc[p] \in {"idle", "push_woken"}
      PROVE  AsleepPoppers' # {} => Size' <= Signals' + Woken'
  <2>1. UNCHANGED <<AsleepPoppers, WokenPoppers>>
    BY <1>1, ThreadAssumption
       DEF PushBody, AsleepPoppers, WokenPoppers, At, Typed, ShapeOK, Threads
  <2>2. CASE UNCHANGED mc_queue /\ pc' \in {[pc EXCEPT ![p] = "push_wait"], [pc EXCEPT ![p] = "idle"]}
    <3>1. UNCHANGED SignalsToPop
      BY <1>1, <2>2 DEF SignalsToPop, At, Typed, ShapeOK, Threads
    <3> QED
      BY <2>1, <2>2, <3>1, <1>same
  <2>3. CASE mc_queue' = Append(mc_queue, x) /\ pc' = [pc EXCEPT ![p] = "push_signal"]
    <3>1. SignalsToPop' = SignalsToPop \cup {p} /\ p \notin SignalsToPop
      BY <1>1, <2>3 DEF SignalsToPop, At, Typed, ShapeOK, Threads
    <3>2. Signals' = Signals + 1
      BY <3>1, <1>fin, FS_AddElement
    <3>3. Size' = Size + 1
      BY <2>3 DEF Typed, ShapeOK
    <3>4. Woken' = Woken
      BY <2>1
    <3> QED
      BY <1>0, <1>fin, <2>1, <3>2, <3>3, <3>4
  <2> QED
    BY <1>1, <2>2, <2>3 DEF PushBody
<1>2. ASSUME NEW p \in Producers, PushSignal(p)
      PROVE  AsleepPoppers' # {} => Size' <= Signals' + Woken'
  <2>1. UNCHANGED <<AsleepPoppers, WokenPoppers, mc_queue>>
    BY <1>2, ThreadAssumption
       DEF PushSignal, AsleepPoppers, WokenPoppers, At, Typed, ShapeOK, Threads
  <2>2. CASE mb_pop_waiting > 0
    <3>1. UNCHANGED SignalsToPop
      BY <1>2, <2>2 DEF PushSignal, SignalsToPop, At, Typed, ShapeOK, Threads
    <3> QED
      BY <2>1, <3>1, <1>same
  <2>3. CASE ~(mb_pop_waiting > 0)
    BY <2>1, <2>3, ZeroMeansNobody
  <2> QED
    BY <2>2, <2>3
<1>3. ASSUME NEW p \in Producers, PushNotify(p)
      PROVE  AsleepPoppers' # {} => Size' <= Signals' + Woken'
  <2>1. ASSUME NEW c \in AsleepPoppers,
               pc' = [pc EXCEPT ![p] = "idle", ![c] = "pop_woken"]
        PROVE  AsleepPoppers' # {} => Size' <= Signals' + Woken'
    <3>0. c \in Consumers /\ c # p /\ pc[c] = "pop_wait" /\ pc[p] = "push_notify"
      BY <1>3, <2>1, ThreadAssumption DEF AsleepPoppers, At, PushNotify
    <3>1. WokenPoppers' = WokenPoppers \cup {c} /\ c \notin WokenPoppers
      BY <2>1, <3>0, ThreadAssumption DEF WokenPoppers, At, Typed, ShapeOK, Threads
    <3>2. SignalsToPop' = SignalsToPop \ {p} /\ p \in SignalsToPop
      BY <2>1, <3>0, ThreadAssumption DEF SignalsToPop, At, Typed, ShapeOK, Threads
    <3>3. Woken' = Woken + 1 /\ Signals' = Signals - 1
      BY <3>1, <3>2, <1>fin, FS_AddElement, FS_RemoveElement
    <3>4. Size' = Size
      BY <1>3 DEF PushNotify
    <3> QED
      BY <1>0, <1>fin, <2>1, <3>3, <3>4
  <2>2. CASE AsleepPoppers = {} /\ pc' = [pc EXCEPT ![p] = "idle"]
    <3>1. AsleepPoppers' = {}
      BY <1>3, <2>2, ThreadAssumption DEF AsleepPoppers, At, Typed, ShapeOK, Threads
    <3> QED
      BY <3>1
  <2> QED
    BY <1>3, <2>1, <2>2 DEF PushNotify
<1>4. ASSUME NEW c \in Consumers, Pop(c)
      PROVE  AsleepPoppers' # {} => Size' <= Signals' + Woken'
  <2>1. CASE mc_queue = <<>>
    BY <1>4, <2>1, <1>empty DEF Pop, PopBody
  <2>2. CASE mc_queue # <<>>
    <3>1. /\ mc_queue' = Tail(mc_queue) /\ pc' = [pc EXCEPT ![c] = "pop_signal"]
          /\ pc[c] = "idle"
      BY <1>4, <2>2 DEF Pop, PopBody
    <3>2. UNCHANGED <<AsleepPoppers, WokenPoppers, SignalsToPop>>
      BY <3>1, ThreadAssumption
         DEF AsleepPoppers, WokenPoppers, SignalsToPop, At, Typed, ShapeOK, Threads
    <3>3. Size' = Size - 1
      BY <3>1, <2>2 DEF Typed, ShapeOK
    <3>4. Signals' = Signals /\ Woken' = Woken
      BY <3>2
    <3> QED
      BY <1>0, <1>fin, <3>2, <3>3, <3>4
  <2> QED
    BY <2>1, <2>2
<1>5. ASSUME NEW c \in Consumers, PopResume(c)
      PROVE  AsleepPoppers' # {} => Size' <= Signals' + Woken'
  <2>1. CASE mc_queue = <<>>
    BY <1>5, <2>1, <1>empty DEF PopResume, PopBody
  <2>2. CASE mc_queue # <<>>
    <3>1. /\ mc_queue' = Tail(mc_queue) /\ pc' = [pc EXCEPT ![c] = "pop_signal"]
          /\ pc[c] = "pop_woken"
      BY <1>5, <2>2 DEF PopResume, PopBody
    <3>2. UNCHANGED <<AsleepPoppers, SignalsToPop>>
      BY <3>1, ThreadAssumption
         DEF AsleepPoppers, SignalsToPop, At, Typed, ShapeOK, Threads
    <3>3. WokenPoppers' = WokenPoppers \ {c} /\ c \in WokenPoppers
      BY <3>1 DEF WokenPoppers, At, Typed, ShapeOK, Threads
    <3>4. Woken' = Woken - 1
      BY <3>3, <1>fin, FS_RemoveElement
    <3>5. Size' = Size - 1
      BY <3>1, <2>2 DEF Typed, ShapeOK
    <3>6. Signals' = Signals
      BY <3>2
    <3> QED
      BY <1>0, <1>fin, <3>2, <3>4, <3>5, <3>6
  <2> QED
    BY <2>1, <2>2
<1>6. ASSUME NEW c \in Consumers, PopSignal(c) \/ PopNotify(c)
      PROVE  AsleepPoppers' # {} => Size' <= Signals' + Woken'
  <2>1. UNCHANGED <<AsleepPoppers, SignalsToPop, WokenPoppers, mc_queue>>
    BY <1>6, ThreadAssumption
       DEF PopSignal, PopNotify, AsleepPushers, AsleepPoppers, SignalsToPop,
           WokenPoppers, At, Typed, ShapeOK, Threads
  <2> QED
    BY <2>1, <1>same
<1>7. ASSUME NEW k \in Controllers, ControllerStep(k)
      PROVE  AsleepPoppers' # {} => Size' <= Signals' + Woken'
  <2>1. CASE Clear(k)
    BY <2>1, <1>empty DEF Clear
  <2>2. CASE WakePoppers(k)
    <3>1. AsleepPoppers' = {}
      BY <2>2, ThreadAssumption DEF WakePoppers, WakeAll, AsleepPoppers, At, Typed, ShapeOK, Threads
    <3> QED
      BY <3>1
  <2>3. CASE WakePushers(k)
    <3>1. UNCHANGED <<AsleepPoppers, SignalsToPop, WokenPoppers, mc_queue>>
      BY <2>3, ThreadAssumption
         DEF WakePushers, WakeAll, AsleepPushers, AsleepPoppers, SignalsToPop,
             WokenPoppers, At, Typed, ShapeOK, Threads
    <3> QED
      BY <3>1, <1>same
  <2>4. CASE SetBlock(k) \/ \E n \in Sizes : SetMaxsize(k, n)
    <3>1. UNCHANGED <<AsleepPoppers, SignalsToPop, WokenPoppers, mc_queue>>
      BY <2>4, ThreadAssumption
         DEF SetBlock, SetMaxsize, AsleepPoppers, SignalsToPop, WokenPoppers, At,
             Typed, ShapeOK, Threads
    <3> QED
      BY <3>1, <1>same
  <2> QED
    BY <1>7, <2>1, <2>2, <2>3, <2>4 DEF ControllerStep
<1>8. ASSUME NEW t \in Producers \cup Consumers, SpuriousWakeup(t)
      PROVE  AsleepPoppers' # {} => Size' <= Signals' + Woken'
  <2>1. CASE pc[t] = "push_wait"
    <3>1. UNCHANGED <<AsleepPoppers, SignalsToPop, WokenPoppers, mc_queue>>
      BY <1>8, <2>1, ThreadAssumption
         DEF SpuriousWakeup, AsleepPoppers, SignalsToPop, WokenPoppers, At, Typed, ShapeOK, Threads
    <3> QED
      BY <3>1, <1>same
  <2>2. CASE pc[t] = "pop_wait"
    <3>1. t \in Consumers /\ pc' = [pc EXCEPT ![t] = "pop_woken"] /\ mc_queue' = mc_queue
      BY <1>8, <2>2 DEF SpuriousWakeup, Typed, ShapeOK
    <3>2. WokenPoppers' = WokenPoppers \cup {t} /\ t \notin WokenPoppers
      BY <2>2, <3>1 DEF WokenPoppers, At, Typed, ShapeOK, Threads
    <3>3. UNCHANGED SignalsToPop /\ AsleepPoppers # {}
      BY <2>2, <3>1, ThreadAssumption DEF SignalsToPop, AsleepPoppers, At, Typed, ShapeOK, Threads
    <3>4. Woken' = Woken + 1 /\ Signals' = Signals /\ Size' = Size
      BY <3>1, <3>2, <3>3, <1>fin, FS_AddElement
    <3> QED
      BY <1>0, <1>fin, <3>3, <3>4
  <2> QED
    BY <1>8, <2>1, <2>2 DEF SpuriousWakeup
<1>9. CASE UNCHANGED vars
  <2>1. UNCHANGED <<AsleepPoppers, SignalsToPop, WokenPoppers, mc_queue>>
    BY <1>9 DEF vars, AsleepPoppers, SignalsToPop, WokenPoppers, At
  <2> QED
    BY <2>1, <1>same
<1> QED
  <2>1. ASSUME NEW p \in Producers, ProducerStep(p)
        PROVE  AsleepPoppers' # {} => Size' <= Signals' + Woken'
    BY <2>1, <1>1, <1>2, <1>3 DEF ProducerStep, Push, PushResume
  <2>2. ASSUME NEW c \in Consumers, ConsumerStep(c)
        PROVE  AsleepPoppers' # {} => Size' <= Signals' + Woken'
    BY <2>2, <1>4, <1>5, <1>6 DEF ConsumerStep
  <2> QED
    BY <2>1, <2>2, <1>7, <1>8, <1>9 DEF Next

\* No wake-up of a consumer is ever lost, though push() notifies after its
\* unlock and only if the counter it then reads is not zero.
THEOREM NoPopperStranded == Spec => []NoStrandedPopper
<1>1. Init => NoStrandedPopper
  <2> SUFFICES ASSUME Init PROVE NoStrandedPopper
    OBVIOUS
  <2>1. AsleepPoppers = {}
    BY DEF Init, AsleepPoppers, At, Threads
  <2> QED
    BY <2>1 DEF NoStrandedPopper
<1>2. Typed /\ Typed' /\ WaitingCountersExact /\ NoStrandedPopper /\ [Next]_vars
        => NoStrandedPopper'
  BY PopperStep
<1> QED
  BY <1>1, <1>2, TypedCorrect, CountersCorrect, PTL DEF Spec

-----------------------------------------------------------------------------
(* The same for the producers of a full queue.                             *)

\* While the capacity stays what it is, no step frees a place for a sleeping
\* producer without a wake-up for it.
LEMMA PusherStep ==
  ASSUME Typed, Typed', WaitingCountersExact, NoStrandedPusher, [Next]_vars,
         mn_maxsize' <= mn_maxsize
  PROVE  NoStrandedPusher'
<1> DEFINE Free == mn_maxsize - Len(mc_queue)
           Signals == Cardinality(SignalsToPush)
           Woken == Cardinality(WokenPushers)
           Waking == At(Controllers, {"wake_pushers"}) # {}
           Goal == AsleepPushers' # {} => Free' <= Signals' + Woken' \/ Waking'
<1>fin. /\ IsFiniteSet(SignalsToPush) /\ Signals \in Nat
        /\ IsFiniteSet(WokenPushers) /\ Woken \in Nat
        /\ Signals' \in Nat /\ Woken' \in Nat
        /\ Free \in Int /\ Free' \in Int
  <2>1. IsFiniteSet(SignalsToPush) /\ IsFiniteSet(WokenPushers) /\ Signals \in Nat /\ Woken \in Nat
    BY ThreadAssumption, AtFinite DEF SignalsToPush, WokenPushers
  <2>2. Signals' \in Nat /\ Woken' \in Nat
    <3>1. SignalsToPush' \in SUBSET Consumers /\ WokenPushers' \in SUBSET Producers
      BY DEF SignalsToPush, WokenPushers, At
    <3> QED
      BY <3>1, ThreadAssumption, FS_Subset, FS_CardinalityType
  <2> QED
    BY <2>1, <2>2 DEF Typed, ShapeOK
<1>0. AsleepPushers # {} => Free <= Signals + Woken \/ Waking
  BY DEF NoStrandedPusher
<1> SUFFICES Goal
  BY DEF NoStrandedPusher
<1>full. Free' <= 0 => Goal
  BY <1>fin
<1>same. ASSUME UNCHANGED <<AsleepPushers, SignalsToPush, WokenPushers, mc_queue>>,
                Waking => Waking'
         PROVE  Goal
  <2>1. Free' <= Free
    BY <1>same DEF Typed, ShapeOK
  <2>2. Signals' = Signals /\ Woken' = Woken /\ AsleepPushers' = AsleepPushers
    BY <1>same
  <2> QED
    BY <1>0, <1>fin, <1>same, <2>1, <2>2
<1>1. ASSUME NEW p \in Producers, ProducerStep(p) PROVE Goal
  <2>w. Waking => Waking'
    BY <1>1, ThreadAssumption
       DEF ProducerStep, Push, PushResume, PushBody, PushSignal, PushNotify,
           AsleepPoppers, At, Typed, ShapeOK, Threads
  <2>1. ASSUME NEW w, NEW x, PushBody(p, w, x), pc[p] \in {"idle", "push_woken"}
        PROVE  Goal
    <3>1. CASE Full /\ UNCHANGED mc_queue
      <4>1. Free' <= 0
        BY <3>1 DEF Full, Typed, ShapeOK
      <4> QED
        BY <4>1, <1>full
    <3>2. CASE mc_queue' = Append(mc_queue, x) /\ pc' = [pc EXCEPT ![p] = "push_signal"]
      <4>1. UNCHANGED <<AsleepPushers, SignalsToPush>>
        BY <2>1, <3>2, ThreadAssumption
           DEF AsleepPushers, SignalsToPush, At, Typed, ShapeOK, Threads
      <4>2. WokenPushers' = WokenPushers \ {p}
        BY <2>1, <3>2 DEF WokenPushers, At, Typed, ShapeOK, Threads
      <4>3. Woken' \in {Woken, Woken - 1}
        <5>1. Cardinality(WokenPushers \ {p}) = IF p \in WokenPushers THEN Woken - 1 ELSE Woken
          BY <1>fin, FS_RemoveElement
        <5> QED
          BY <4>2, <5>1
      <4>4. Free' = Free - 1
        BY <2>1, <3>2 DEF PushBody, Typed, ShapeOK
      <4>5. Signals' = Signals
        BY <4>1
      <4> QED
        BY <1>0, <1>fin, <2>w, <4>1, <4>3, <4>4, <4>5
    <3> QED
      BY <2>1, <3>1, <3>2 DEF PushBody
  <2>2. CASE PushSignal(p) \/ PushNotify(p)
    <3>1. UNCHANGED <<AsleepPushers, SignalsToPush, WokenPushers, mc_queue>>
      BY <2>2, ThreadAssumption
         DEF PushSignal, PushNotify, AsleepPoppers, AsleepPushers, SignalsToPush,
             WokenPushers, At, Typed, ShapeOK, Threads
    <3> QED
      BY <2>w, <3>1, <1>same
  <2> QED
    BY <1>1, <2>1, <2>2 DEF ProducerStep, Push, PushResume
<1>2. ASSUME NEW c \in Consumers, ConsumerStep(c) PROVE Goal
  <2>w. Waking => Waking'
    BY <1>2, ThreadAssumption
       DEF ConsumerStep, Pop, PopResume, PopBody, PopSignal, PopNotify,
           AsleepPushers, At, Typed, ShapeOK, Threads
  <2>1. ASSUME NEW w, PopBody(c, w), pc[c] \in {"idle", "pop_woken"}
        PROVE  Goal
    <3>0. UNCHANGED <<AsleepPushers, WokenPushers>>
      BY <2>1, ThreadAssumption
         DEF PopBody, AsleepPushers, WokenPushers, At, Typed, ShapeOK, Threads
    <3>1. CASE UNCHANGED mc_queue /\ pc' \in {[pc EXCEPT ![c] = "pop_wait"], [pc EXCEPT ![c] = "idle"]}
      <4>1. UNCHANGED SignalsToPush
        BY <2>1, <3>1 DEF SignalsToPush, At, Typed, ShapeOK, Threads
      <4> QED
        BY <2>w, <3>0, <3>1, <4>1, <1>same
    <3>2. CASE /\ mc_queue # <<>> /\ mc_queue' = Tail(mc_queue)
               /\ pc' = [pc EXCEPT ![c] = "pop_signal"]
      <4>1. SignalsToPush' = SignalsToPush \cup {c} /\ c \notin SignalsToPush
        BY <2>1, <3>2 DEF SignalsToPush, At, Typed, ShapeOK, Threads
      <4>2. Signals' = Signals + 1
        BY <4>1, <1>fin, FS_AddElement
      <4>3. Free' = Free + 1
        BY <2>1, <3>2 DEF PopBody, Typed, ShapeOK
      <4>4. Woken' = Woken
        BY <3>0
      <4> QED
        BY <1>0, <1>fin, <2>w, <3>0, <4>2, <4>3, <4>4
    <3> QED
      BY <2>1, <3>1, <3>2 DEF PopBody
  <2>2. CASE PopSignal(c)
    <3>1. UNCHANGED <<AsleepPushers, WokenPushers, mc_queue>>
      BY <2>2, ThreadAssumption
         DEF PopSignal, AsleepPushers, WokenPushers, At, Typed, ShapeOK, Threads
    <3>2. CASE mb_push_waiting > 0
      <4>1. UNCHANGED SignalsToPush
        BY <2>2, <3>2 DEF PopSignal, SignalsToPush, At, Typed, ShapeOK, Threads
      <4> QED
        BY <2>w, <3>1, <4>1, <1>same
    <3>3. CASE ~(mb_push_waiting > 0)
      BY <3>1, <3>3, ZeroMeansNobody
    <3> QED
      BY <3>2, <3>3
  <2>3. ASSUME NEW p \in AsleepPushers, PopNotify(c),
               pc' = [pc EXCEPT ![c] = "idle", ![p] = "push_woken"]
        PROVE  Goal
    <3>0. p \in Producers /\ p # c /\ pc[p] = "push_wait" /\ pc[c] = "pop_notify"
      BY <2>3, ThreadAssumption DEF AsleepPushers, At, PopNotify
    <3>1. WokenPushers' = WokenPushers \cup {p} /\ p \notin WokenPushers
      BY <2>3, <3>0, ThreadAssumption DEF WokenPushers, At, Typed, ShapeOK, Threads
    <3>2. SignalsToPush' = SignalsToPush \ {c} /\ c \in SignalsToPush
      BY <2>3, <3>0, ThreadAssumption DEF SignalsToPush, At, Typed, ShapeOK, Threads
    <3>3. Woken' = Woken + 1 /\ Signals' = Signals - 1
      BY <3>1, <3>2, <1>fin, FS_AddElement, FS_RemoveElement
    <3>4. Free' = Free
      BY <2>3 DEF PopNotify
    <3> QED
      BY <1>0, <1>fin, <2>w, <2>3, <3>3, <3>4
  <2>4. CASE AsleepPushers = {} /\ pc' = [pc EXCEPT ![c] = "idle"]
    <3>1. AsleepPushers' = {}
      BY <1>2, <2>4, ThreadAssumption DEF AsleepPushers, At, Typed, ShapeOK, Threads
    <3> QED
      BY <3>1
  <2> QED
    BY <1>2, <2>1, <2>2, <2>3, <2>4 DEF ConsumerStep, Pop, PopResume, PopNotify
<1>3. ASSUME NEW k \in Controllers, ControllerStep(k) PROVE Goal
  <2>1. CASE Clear(k) \/ WakePoppers(k)
    <3>1. Waking'
      BY <2>1, ThreadAssumption DEF Clear, WakePoppers, WakeAll, AsleepPoppers, At, Typed, ShapeOK, Threads
    <3> QED
      BY <3>1
  <2>2. CASE WakePushers(k)
    <3>1. AsleepPushers' = {}
      BY <2>2, ThreadAssumption DEF WakePushers, WakeAll, AsleepPushers, At, Typed, ShapeOK, Threads
    <3> QED
      BY <3>1
  <2>3. CASE SetBlock(k) \/ \E n \in Sizes : SetMaxsize(k, n)
    <3>1. UNCHANGED <<AsleepPushers, SignalsToPush, WokenPushers, mc_queue>>
      BY <2>3, ThreadAssumption
         DEF SetBlock, SetMaxsize, AsleepPushers, SignalsToPush, WokenPushers, At,
             Typed, ShapeOK, Threads
    <3>2. Waking => Waking'
      BY <2>3 DEF SetBlock, SetMaxsize, At, Typed, ShapeOK, Threads
    <3> QED
      BY <3>1, <3>2, <1>same
  <2> QED
    BY <1>3, <2>1, <2>2, <2>3 DEF ControllerStep
<1>4. ASSUME NEW t \in Producers \cup Consumers, SpuriousWakeup(t) PROVE Goal
  <2>w. Waking => Waking'
    BY <1>4, ThreadAssumption DEF SpuriousWakeup, At, Typed, ShapeOK, Threads
  <2>1. CASE pc[t] = "pop_wait"
    <3>1. UNCHANGED <<AsleepPushers, SignalsToPush, WokenPushers, mc_queue>>
      BY <1>4, <2>1, ThreadAssumption
         DEF SpuriousWakeup, AsleepPushers, SignalsToPush, WokenPushers, At, Typed, ShapeOK, Threads
    <3> QED
      BY <2>w, <3>1, <1>same
  <2>2. CASE pc[t] = "push_wait"
    <3>1. /\ t \in Producers /\ pc' = [pc EXCEPT ![t] = "push_woken"]
          /\ mc_queue' = mc_queue /\ mn_maxsize' = mn_maxsize
      BY <1>4, <2>2 DEF SpuriousWakeup, Typed, ShapeOK
    <3>2. WokenPushers' = WokenPushers \cup {t} /\ t \notin WokenPushers
      BY <2>2, <3>1 DEF WokenPushers, At, Typed, ShapeOK, Threads
    <3>3. UNCHANGED SignalsToPush /\ AsleepPushers # {}
      BY <2>2, <3>1, ThreadAssumption DEF SignalsToPush, AsleepPushers, At, Typed, ShapeOK, Threads
    <3>4. Woken' = Woken + 1 /\ Signals' = Signals /\ Free' = Free
      BY <3>1, <3>2, <3>3, <1>fin, FS_AddElement
    <3> QED
      BY <1>0, <1>fin, <2>w, <3>3, <3>4
  <2> QED
    BY <1>4, <2>1, <2>2 DEF SpuriousWakeup
<1>5. CASE UNCHANGED vars
  <2>1. UNCHANGED <<AsleepPushers, SignalsToPush, WokenPushers, mc_queue>> /\ (Waking => Waking')
    BY <1>5 DEF vars, AsleepPushers, SignalsToPush, WokenPushers, At
  <2> QED
    BY <2>1, <1>same
<1> QED
  BY <1>1, <1>2, <1>3, <1>4, <1>5 DEF Next

\* No call of set_maxsize() raises the capacity: lowering it again and again, and
\* the calls it refuses, are allowed.
NeverRaised == [][mn_maxsize' <= mn_maxsize]_vars

\* As long as set_maxsize() never raises the capacity, no wake-up of a producer is
\* lost either.  It notifies nobody, so a raise would leave producers asleep.
THEOREM NoPusherStranded == Spec /\ NeverRaised => []NoStrandedPusher
<1>1. Init => NoStrandedPusher
  <2> SUFFICES ASSUME Init PROVE NoStrandedPusher
    OBVIOUS
  <2>1. AsleepPushers = {}
    BY DEF Init, AsleepPushers, At, Threads
  <2> QED
    BY <2>1 DEF NoStrandedPusher
<1>2. /\ Typed /\ Typed' /\ WaitingCountersExact /\ NoStrandedPusher
      /\ [Next]_vars /\ [mn_maxsize' <= mn_maxsize]_vars
      => NoStrandedPusher'
  <2> SUFFICES ASSUME Typed, Typed', WaitingCountersExact, NoStrandedPusher,
                      [Next]_vars, [mn_maxsize' <= mn_maxsize]_vars
               PROVE  NoStrandedPusher'
    OBVIOUS
  <2>1. mn_maxsize' <= mn_maxsize
    BY DEF vars, Typed, ShapeOK
  <2> QED
    BY <2>1, PusherStep
<1> QED
  BY <1>1, <1>2, TypedCorrect, CountersCorrect, PTL DEF Spec, NeverRaised

\* Both, as the run checks it: no sleeper is forgotten on either side.
THEOREM NoneStranded == Spec /\ NeverRaised => []NobodyStranded
<1>1. NoStrandedPopper /\ NoStrandedPusher => NobodyStranded
  BY DEF NobodyStranded
<1> QED
  BY <1>1, NoPusherStranded, NoPopperStranded, PTL

=============================================================================
